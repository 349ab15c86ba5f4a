------------------------ MODULE ArchiveEventsProofs ------------------------
(***************************************************************************)
(* Proofs about the archival job of ArchiveEvents, for every value of its  *)
(* constants.                                                              *)
(***************************************************************************)
EXTENDS ArchiveEvents, TLAPS, FiniteSetTheorems

USE EventsAssumption, CreatedAtAssumption, CutoffAssumption,
    BatchAssumption, FlagsAssumption

-----------------------------------------------------------------------------
(***************************************************************************)
(* Lemmas on the helpers.                                                  *)
(***************************************************************************)

\* A window is a finite set of hot rows, and its COUNT(*) is a natural.
LEMMA WindowFinite ==
    ASSUME hot \subseteq Events, NEW s, NEW e
    PROVE  /\ Window(s, e) \subseteq Events
           /\ IsFiniteSet(Window(s, e))
           /\ Cardinality(Window(s, e)) \in Nat
<1>1. Window(s, e) \subseteq Events
    BY DEF Window
<1>2. IsFiniteSet(Window(s, e))
    BY <1>1, FS_Subset
<1>. QED
    BY <1>1, <1>2, FS_CardinalityType

\* BATCH_END never passes the cutoff.
LEMMA WindowEndType ==
    ASSUME NEW s \in 0..Cutoff
    PROVE  WindowEnd(s) \in 0..Cutoff
BY DEF WindowEnd

\* A sub-batch holds rows of the window it is read from.
LEMMA SubBatchType ==
    ASSUME NEW S, NEW f \in SortedOrders(S), NEW off
    PROVE  SubBatch(f, off) \subseteq S
BY DEF SortedOrders, SubBatch

-----------------------------------------------------------------------------
(***************************************************************************)
(* Type correctness.                                                       *)
(***************************************************************************)

LEMMA InitTypeOK == Init => TypeOK
BY DEF Init, TypeOK, PCs

LEMMA NextTypeOK == TypeOK /\ [Next]_vars => TypeOK'
<1> SUFFICES ASSUME TypeOK, [Next]_vars PROVE TypeOK'
    OBVIOUS
<1>1. CASE \E e \in Events : RelayInsert(e)
    <2>1. PICK e \in Events : RelayInsert(e)
        BY <1>1
    <2>. QED
        BY <2>1 DEF RelayInsert, TypeOK, job
<1>2. CASE Plan
    BY <1>2 DEF Plan, TypeOK, PCs, store
<1>3. CASE Confirm
    BY <1>3 DEF Confirm, TypeOK, PCs, store
<1>4. CASE Abort
    BY <1>4 DEF Abort, TypeOK, PCs, store
<1>5. CASE OpenWindow
    <2>1. WindowEnd(batchStart) \in 0..Cutoff
        BY WindowEndType DEF TypeOK
    <2>2. Cardinality(Window(batchStart, WindowEnd(batchStart))) \in Nat
        BY WindowFinite DEF TypeOK
    <2>. QED
        BY <1>5, <2>1, <2>2 DEF OpenWindow, TypeOK, PCs, store
<1>6. CASE SkipEmptyWindow
    BY <1>6, WindowEndType DEF SkipEmptyWindow, TypeOK, store
<1>7. CASE EndLoop
    BY <1>7 DEF EndLoop, TypeOK, PCs, store
<1>8. CASE CopySubBatch
    <2>1. remote' \subseteq Events
        <3>1. Window(batchStart, batchEnd) \subseteq Events
            BY WindowFinite DEF TypeOK
        <3>. QED
            BY <1>8, <3>1, SubBatchType DEF CopySubBatch, TypeOK
    <2>. QED
        BY <1>8, <2>1 DEF CopySubBatch, TypeOK
<1>9. CASE DeleteWindow
    <2>1. Cardinality(Window(batchStart, batchEnd)) \in Nat
        BY WindowFinite DEF TypeOK
    <2>. QED
        BY <1>9, <2>1 DEF DeleteWindow, TypeOK, PCs
<1>10. CASE Report
    BY <1>10 DEF Report, TypeOK, PCs, store
<1>11. CASE Crash
    BY <1>11 DEF Crash, TypeOK, PCs, store
<1>12. CASE UNCHANGED vars
    BY <1>12 DEF vars, store, job, TypeOK
<1>. QED
    BY <1>1, <1>2, <1>3, <1>4, <1>5, <1>6, <1>7, <1>8, <1>9, <1>10,
       <1>11, <1>12 DEF Next, Loop

\* Every reachable state of the archival job is well typed.
THEOREM TypeCorrect == Spec => []TypeOK
BY InitTypeOK, NextTypeOK, PTL DEF Spec

-----------------------------------------------------------------------------
(***************************************************************************)
(* Copy before delete.  NoEventLost and ArchiveComplete hold when every    *)
(* sub-batch INSERT succeeds, the relay inserts nothing below the cutoff   *)
(* and no two events share a timestamp: archive_copy_fail, the late        *)
(* insert case and archive_ties break them when any of the three fails.    *)
(* Neither is inductive.  The strengthening says what the loop has         *)
(* established so far:                                                     *)
(*   - every hot row below BATCH_START is already on the node;             *)
(*   - while copying, WINDOW_COUNT is the size of the window, and every    *)
(*     row of the window among the first SUB_OFFSET in timestamp order is  *)
(*     on the node.                                                        *)
(* The window cannot change while it is copied: it lies below the cutoff, *)
(* where the relay does not insert.                                        *)
(***************************************************************************)

\* No two events share an event_created_at.
DistinctTimestamps ==
    \A x, y \in Events : x # y => CreatedAt[x] # CreatedAt[y]

\* The rows of the window the script is working on.
CurWindow == Window(batchStart, batchEnd)

\* The position of x in S ordered by event_created_at (1 for the earliest).
Rank(x, S) == Cardinality({y \in S : CreatedAt[y] <= CreatedAt[x]})

CopiedBelowStart ==
    pc \in {"confirm", "loop", "copy", "report"} =>
        \A x \in hot : CreatedAt[x] < batchStart => x \in remote

CopiedPrefix ==
    pc = "copy" =>
        /\ windowCount = Cardinality(CurWindow)
        /\ \A x \in CurWindow : Rank(x, CurWindow) <= subOffset => x \in remote

LoopDone == pc = "report" => batchStart = Cutoff

ArchiveInv ==
    /\ TypeOK
    /\ LoopDone
    /\ CopiedBelowStart
    /\ CopiedPrefix
    /\ NoEventLost

\* An order of S by event_created_at lists every row of S.
LEMMA SortedOrderOnto ==
    ASSUME NEW S, IsFiniteSet(S), NEW f \in SortedOrders(S), NEW x \in S
    PROVE  \E k \in 1..Cardinality(S) : f[k] = x
<1>. DEFINE n == Cardinality(S)
<1>1. n \in Nat
    BY FS_CardinalityType
<1>2. f \in Injection(1..n, S)
    <2>1. f \in [1..n -> S]
        BY DEF SortedOrders
    <2>2. \A i, j \in 1..n : f[i] = f[j] => i = j
        <3> SUFFICES ASSUME NEW i \in 1..n, NEW j \in 1..n, i # j
                     PROVE  f[i] # f[j]
            OBVIOUS
        <3>1. i < j \/ j < i
            BY <1>1
        <3>. QED
            BY <3>1 DEF SortedOrders
    <2>. QED
        BY <2>1, <2>2 DEF Injection, IsInjective
<1>3. Cardinality(1..n) = n
    BY <1>1, FS_Interval
<1>4. f \in Surjection(1..n, S)
    BY <1>2, <1>3, FS_Injection
<1>. QED
    BY <1>4 DEF Surjection

\* With distinct timestamps the k-th row of an order has rank k.
LEMMA SortedOrderRank ==
    ASSUME DistinctTimestamps, NEW S \in SUBSET Events, IsFiniteSet(S),
           NEW f \in SortedOrders(S), NEW k \in 1..Cardinality(S)
    PROVE  Rank(f[k], S) = k
<1>. DEFINE n == Cardinality(S)
            P == {f[i] : i \in 1..k}
<1>1. n \in Nat
    BY FS_CardinalityType
<1>2. f \in [1..n -> S]
    BY DEF SortedOrders
<1>3. {y \in S : CreatedAt[y] <= CreatedAt[f[k]]} = P
    <2>1. ASSUME NEW y \in S, CreatedAt[y] <= CreatedAt[f[k]] PROVE y \in P
        <3>1. PICK j \in 1..n : f[j] = y
            BY SortedOrderOnto
        <3>2. ~(k < j)
            <4> SUFFICES ASSUME k < j PROVE FALSE
                OBVIOUS
            <4>1. f[k] # f[j] /\ CreatedAt[f[k]] <= CreatedAt[f[j]]
                BY <1>1 DEF SortedOrders
            <4>2. CreatedAt[f[k]] # CreatedAt[f[j]]
                BY <4>1, <1>2 DEF DistinctTimestamps
            <4>. QED
                BY <4>1, <4>2, <3>1, <2>1, <1>2, CreatedAtAssumption
        <3>. QED
            BY <3>1, <3>2, <1>1
    <2>2. ASSUME NEW i \in 1..k PROVE CreatedAt[f[i]] <= CreatedAt[f[k]]
        <3>1. CASE i = k
            BY <3>1, <1>2, CreatedAtAssumption
        <3>2. CASE i < k
            BY <3>2, <1>1 DEF SortedOrders
        <3>. QED
            BY <3>1, <3>2
    <2>. QED
        BY <2>1, <2>2, <1>1, <1>2
<1>4. Cardinality(P) = k
    <2>. DEFINE g == [i \in 1..k |-> f[i]]
    <2>1. g \in Bijection(1..k, P)
        <3>1. \A i, j \in 1..k : i < j => g[i] # g[j]
            BY <1>1 DEF SortedOrders
        <3>2. \A i, j \in 1..k : g[i] = g[j] => i = j
            <4> SUFFICES ASSUME NEW i \in 1..k, NEW j \in 1..k, i # j
                         PROVE  g[i] # g[j]
                OBVIOUS
            <4>. QED
                BY <3>1
        <3>. QED
            BY <3>2 DEF Bijection, Injection, Surjection, IsInjective
    <2>. QED
        BY <2>1, FS_CountingElements DEF ExistsBijection
<1>. QED
    BY <1>3, <1>4 DEF Rank
\* A row of S has rank at least 1 and at most the size of S.
LEMMA RankBounds ==
    ASSUME NEW S \in SUBSET Events, IsFiniteSet(S), NEW x \in S
    PROVE  Rank(x, S) \in 1..Cardinality(S)
<1>. DEFINE L == {y \in S : CreatedAt[y] <= CreatedAt[x]}
<1>1. x \in L
    BY CreatedAtAssumption
<1>2. IsFiniteSet(L) /\ Cardinality(L) <= Cardinality(S)
    BY FS_Subset
<1>3. Cardinality(L) \in Nat /\ Cardinality(L) # 0
    BY <1>1, <1>2, FS_CardinalityType, FS_EmptySet
<1>. QED
    BY <1>2, <1>3, FS_CardinalityType DEF Rank

(***************************************************************************)
(* The three conditions under which the copy comes before the delete.     *)
(* The code never meets the first: postgres_fdw refuses every sub-batch   *)
(* INSERT for its ON CONFLICT (event_id) target (add-storage-node.sh:340), *)
(* and archive_copy_fail shows the loss.  The two lemmas below say what   *)
(* the loop would establish once that INSERT succeeds; they are not       *)
(* claimed of the code as it stands.                                       *)
(***************************************************************************)
CopyConditions == ~CopyMayFail /\ ~LateInserts /\ DistinctTimestamps

LEMMA InitArchiveInv == Init => ArchiveInv
BY InitTypeOK DEF Init, ArchiveInv, LoopDone, CopiedBelowStart, CopiedPrefix,
                  NoEventLost

LEMMA NextArchiveInv ==
    ASSUME CopyConditions
    PROVE  ArchiveInv /\ [Next]_vars => ArchiveInv'
<1> SUFFICES ASSUME ArchiveInv, [Next]_vars PROVE ArchiveInv'
    OBVIOUS
<1>0. TypeOK'
    BY NextTypeOK DEF ArchiveInv
<1>. USE <1>0 DEF ArchiveInv, CopyConditions
<1>1. CASE \E e \in Events : RelayInsert(e)
    <2>1. PICK e \in Events : RelayInsert(e)
        BY <1>1
    <2>2. CreatedAt[e] >= Cutoff
        BY <2>1 DEF RelayInsert
    <2>3. CurWindow' = CurWindow
        BY <2>1, <2>2, CreatedAtAssumption
        DEF RelayInsert, CurWindow, Window, TypeOK, job
    <2>. QED
        BY <2>1, <2>2, <2>3, CreatedAtAssumption
        DEF RelayInsert, job, TypeOK, LoopDone, CopiedBelowStart,
            CopiedPrefix, NoEventLost
<1>2. CASE Plan
    <2>1. PICK t \in 0..Cutoff : IsEarliest(t, BelowCutoff) /\ batchStart' = t
        BY <1>2 DEF Plan
    <2>. QED
        BY <1>2, <2>1, CreatedAtAssumption
        DEF Plan, IsEarliest, BelowCutoff, store, TypeOK, LoopDone,
            CopiedBelowStart, CopiedPrefix, NoEventLost
<1>3. CASE Confirm \/ Abort \/ EndLoop \/ Report \/ Crash
    BY <1>3 DEF Confirm, Abort, EndLoop, Report, Crash, store, TypeOK,
               LoopDone, CopiedBelowStart, CopiedPrefix, NoEventLost
<1>4. CASE OpenWindow
    <2>1. CurWindow' = Window(batchStart, WindowEnd(batchStart))
        BY <1>4 DEF OpenWindow, CurWindow, Window, store
    <2>2. \A x \in CurWindow' : ~(Rank(x, CurWindow') <= 0)
        <3>1. CurWindow' \subseteq Events /\ IsFiniteSet(CurWindow')
            BY <2>1, WindowFinite DEF TypeOK
        <3>2. Cardinality(CurWindow') \in Nat
            BY <3>1, FS_CardinalityType
        <3>. QED
            BY <3>1, <3>2, RankBounds
    <2>3. CopiedPrefix'
        BY <1>4, <2>1, <2>2 DEF OpenWindow, CopiedPrefix
    <2>. QED
        BY <1>4, <2>3 DEF OpenWindow, store, LoopDone, CopiedBelowStart,
                          NoEventLost
<1>5. CASE SkipEmptyWindow
    BY <1>5, CreatedAtAssumption
    DEF SkipEmptyWindow, Window, store, TypeOK, LoopDone, CopiedBelowStart,
        CopiedPrefix, NoEventLost
<1>6. CASE CopySubBatch
    <2>. DEFINE W == CurWindow
    <2>1. W \subseteq Events /\ IsFiniteSet(W)
        BY WindowFinite DEF CurWindow, TypeOK
    <2>2. PICK f \in SortedOrders(W) : remote' = remote \cup SubBatch(f, subOffset)
        <3>1. ~CopyMayFail
            OBVIOUS
        <3>2. \E g \in SortedOrders(Window(batchStart, batchEnd)) :
                  remote' = remote \cup SubBatch(g, subOffset)
            BY <1>6, <3>1 DEF CopySubBatch
        <3>. QED
            BY <3>2 DEF CurWindow
    <2>3. CurWindow' = W /\ subOffset' = subOffset + BatchSize
        BY <1>6 DEF CopySubBatch, CurWindow, Window
    <2>4. ASSUME NEW x \in W, Rank(x, W) <= subOffset + BatchSize
          PROVE  x \in remote'
        <3>1. PICK j \in 1..Cardinality(W) : f[j] = x
            BY <2>1, SortedOrderOnto
        <3>2. Rank(x, W) = j
            BY <2>1, <3>1, SortedOrderRank
        <3>3. CASE j <= subOffset
            BY <1>6, <3>2, <3>3, <2>2 DEF CopySubBatch, CopiedPrefix
        <3>4. CASE subOffset < j
            <4>1. j \in DOMAIN f
                BY DEF SortedOrders
            <4>. QED
                BY <3>1, <3>2, <3>4, <4>1, <2>2, <2>4 DEF SubBatch
        <3>. QED
            BY <3>3, <3>4, <1>6 DEF TypeOK
    <2>. QED
        BY <1>6, <2>2, <2>3, <2>4
        DEF CopySubBatch, TypeOK, LoopDone, CopiedBelowStart, CopiedPrefix,
            NoEventLost
<1>7. CASE DeleteWindow
    <2>. DEFINE W == CurWindow
    <2>1. W \subseteq Events /\ IsFiniteSet(W)
        BY WindowFinite DEF CurWindow, TypeOK
    <2>2. W \subseteq remote
        <3> SUFFICES ASSUME NEW x \in W PROVE x \in remote
            OBVIOUS
        <3>1. Rank(x, W) <= subOffset
            BY <1>7, <2>1, RankBounds DEF DeleteWindow, CopiedPrefix, TypeOK
        <3>. QED
            BY <1>7, <3>1 DEF DeleteWindow, CopiedPrefix
    <2>3. hot' \subseteq hot /\ hot \ hot' \subseteq W /\ remote' = remote
        BY <1>7 DEF DeleteWindow, CurWindow
    <2>. QED
        BY <1>7, <2>2, <2>3, CreatedAtAssumption
        DEF DeleteWindow, CurWindow, Window, TypeOK, LoopDone,
            CopiedBelowStart, CopiedPrefix, NoEventLost
<1>8. CASE UNCHANGED vars
    BY <1>8 DEF vars, store, job, TypeOK, LoopDone, CopiedBelowStart,
               CopiedPrefix, CurWindow, Window, NoEventLost
<1>. QED
    BY <1>1, <1>2, <1>3, <1>4, <1>5, <1>6, <1>7, <1>8 DEF Next, Loop

=============================================================================
