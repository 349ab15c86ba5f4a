------------------------- MODULE ArchiveRefinement -------------------------
(***************************************************************************)
(* The archival job seen through its tables, against ArchiveMover.  The    *)
(* mapping is the identity on the four tables; the job's shell variables  *)
(* are hidden.                                                             *)
(*   - MoverSpec, copy-before-delete, holds only when the sub-batch        *)
(*     INSERTs succeed; it is checked by TLC on instances where they do.  *)
(*     In the code they never do (ON CONFLICT (event_id) through          *)
(*     postgres_fdw), so no theorem is claimed for it.                    *)
(*   - MoverScope holds whatever the INSERTs, DELETEs, kills and re-runs   *)
(*     do, and is proved below for every value of the constants.          *)
(***************************************************************************)
EXTENDS ArchiveEventsProofs

USE EventsAssumption, CreatedAtAssumption, CutoffAssumption,
    BatchAssumption, FlagsAssumption

Mover == INSTANCE ArchiveMover
             WITH hot <- hot, remote <- remote, tags <- tags, accepted <- accepted

\* The job, seen through its tables, is the archive mover: rows leave
\* events_hot only once they are on the node.
MoverSpec == Mover!Spec

\* The job, seen through its tables, stays within its cutoff: every row it
\* copies to the node and every row its DELETE takes out of events_hot has
\* event_created_at below the cutoff, because BATCH_END is clamped to it.
MoverScope == Mover!ScopeSpec

\* A window's rows are hot rows older than the cutoff.
LEMMA WindowInScope ==
    ASSUME TypeOK
    PROVE  /\ CurWindow \in SUBSET Events
           /\ \A x \in CurWindow : CreatedAt[x] < Cutoff
BY DEF CurWindow, Window, TypeOK

\* Each step of the job, the relay or a kill is a step of the scope
\* specification or leaves the tables unchanged.
LEMMA NextWithinScope ==
    ASSUME TypeOK, [Next]_vars
    PROVE  [Mover!ScopeNext]_Mover!tables
<1>. USE DEF Mover!tables
<1>1. CASE \E e \in Events : RelayInsert(e)
    <2>1. PICK e \in Events : RelayInsert(e)
        BY <1>1
    <2>. QED
        BY <2>1 DEF RelayInsert, Mover!ScopeNext, Mover!Accept
<1>2. CASE Plan \/ Confirm \/ Abort \/ OpenWindow \/ SkipEmptyWindow \/ EndLoop
           \/ Report \/ Crash
    BY <1>2 DEF Plan, Confirm, Abort, OpenWindow, SkipEmptyWindow, EndLoop,
                Report, Crash, store
<1>3. CASE CopySubBatch
    <2>1. CASE UNCHANGED remote
        BY <1>3, <2>1 DEF CopySubBatch
    <2>2. CASE \E f \in SortedOrders(CurWindow) : remote' = remote \cup SubBatch(f, subOffset)
        <3>1. PICK f \in SortedOrders(CurWindow) : remote' = remote \cup SubBatch(f, subOffset)
            BY <2>2
        <3>2. SubBatch(f, subOffset) \subseteq CurWindow
            BY SubBatchType
        <3>3. SubBatch(f, subOffset) \subseteq Mover!Archivable
            BY <3>2, WindowInScope DEF CurWindow, Window, Mover!Archivable
        <3>4. SubBatch(f, subOffset) \in SUBSET Events
            BY <3>2, WindowInScope
        <3>. QED
            BY <1>3, <3>1, <3>3, <3>4 DEF CopySubBatch, Mover!ScopeNext, Mover!Copy
    <2>. QED
        BY <1>3, <2>1, <2>2 DEF CopySubBatch, CurWindow
<1>4. CASE DeleteWindow
    <2>1. CASE UNCHANGED <<hot, tags, deleted>>
        BY <1>4, <2>1 DEF DeleteWindow
    <2>2. CASE hot' = hot \ CurWindow /\ tags' = tags \ CurWindow
        BY <1>4, <2>2, WindowInScope DEF DeleteWindow, Mover!ScopeNext, Mover!Discard
    <2>. QED
        BY <1>4, <2>1, <2>2 DEF DeleteWindow, CurWindow
<1>5. CASE UNCHANGED vars
    BY <1>5 DEF vars, store
<1>. QED
    BY <1>1, <1>2, <1>3, <1>4, <1>5 DEF Next, Loop

\* For every set of events, cutoff, window and batch size, across failed
\* INSERTs, failed DELETEs, kills, re-runs and relay inserts,
\* archive-events.sh copies and deletes only rows older than its cutoff.
THEOREM ArchiveWithinScope == Spec => MoverScope
<1>1. Init => Mover!Init
    BY DEF Init, Mover!Init
<1>2. Spec => []TypeOK
    BY TypeCorrect
<1>3. TypeOK /\ [Next]_vars => [Mover!ScopeNext]_Mover!tables
    BY NextWithinScope
<1>. QED
    BY <1>1, <1>2, <1>3, PTL DEF Spec, MoverScope, Mover!ScopeSpec

=============================================================================
