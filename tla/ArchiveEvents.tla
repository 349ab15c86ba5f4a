--------------------------- MODULE ArchiveEvents ---------------------------
(***************************************************************************)
(* The archival job of scripts/archive-events.sh (the second script of     *)
(* src/scripts/add-storage-node.sh, lines 158-390): it moves the rows of   *)
(* events_hot with event_created_at below a cutoff into the foreign table  *)
(* events_archive_<node> of one registered storage node.                   *)
(*                                                                         *)
(* The job walks windows [batchStart, batchEnd) of width BatchWindow from  *)
(* the smallest timestamp below the cutoff.  For each non-empty window it  *)
(* copies the rows in LIMIT/OFFSET sub-batches ordered by                  *)
(* event_created_at with INSERT ... ON CONFLICT DO NOTHING, then deletes   *)
(* the whole window from events_hot.  Each psql call is its own            *)
(* transaction.  Alongside the job:                                        *)
(*   - the relay keeps inserting events into events_hot (the partition of  *)
(*     the archived range until events_hot is narrowed);                   *)
(*   - the process_event_tags trigger of the partitioning migration keeps  *)
(*     event_tags in step with every insert into and delete from           *)
(*     events_hot;                                                         *)
(*   - the job may be killed at any point and re-run from scratch.         *)
(* A failing copy or delete statement is swallowed by `|| echo 0` and the  *)
(* loop goes on; a failing count query ends the script under set -e,       *)
(* which the model folds into Crash.                                       *)
(*                                                                         *)
(* Data are abstracted to event identities: an event is a model value      *)
(* whose partition key is CreatedAt[e]; rows are sets of events (both      *)
(* tables have a unique index on event_id, so a table holds an event at    *)
(* most once).                                                             *)
(***************************************************************************)
EXTENDS Integers, FiniteSets

CONSTANTS
    Events,         \* event identities (model values)
    CreatedAt,      \* event -> event_created_at, the partition key
    Cutoff,         \* --cutoff: archive rows with event_created_at < Cutoff
    BatchWindow,    \* --batch-window: width of a window of timestamps
    BatchSize,      \* --batch-size: LIMIT of one copy sub-batch
    CopyMayFail,    \* TRUE: the sub-batch INSERT can fail (remote down, FDW error)
    DeleteMayFail,  \* TRUE: the window DELETE can fail
    LateInserts     \* TRUE: the relay can insert events below the cutoff

ASSUME EventsAssumption == IsFiniteSet(Events)
ASSUME CreatedAtAssumption == CreatedAt \in [Events -> Nat]
ASSUME CutoffAssumption == Cutoff \in Nat
\* The script accepts any integer for both options; the model allows 0.
ASSUME BatchAssumption == BatchWindow \in Nat /\ BatchSize \in Nat
ASSUME FlagsAssumption ==
    {CopyMayFail, DeleteMayFail, LateInserts} \subseteq BOOLEAN

VARIABLES
    hot,          \* rows of events_hot
    remote,       \* rows of the node's events_data, behind events_archive_<node>
    tags,         \* events that have entries in event_tags
    accepted,     \* history: every event the store has ever accepted
    pc,           \* where the script is
    batchStart,   \* BATCH_START
    batchEnd,     \* BATCH_END
    windowCount,  \* WINDOW_COUNT
    subOffset,    \* SUB_OFFSET
    archived,     \* ARCHIVED
    deleted       \* DELETED

store == <<hot, remote, tags, accepted>>
job == <<pc, batchStart, batchEnd, windowCount, subOffset, archived, deleted>>
vars == <<store, job>>

PCs == {"idle", "confirm", "loop", "copy", "report"}

(***************************************************************************)
(* Helpers: the SQL predicates of the script over the rows of events_hot.  *)
(***************************************************************************)

\* WHERE event_created_at >= s AND event_created_at < e
Window(s, e) == {x \in hot : s <= CreatedAt[x] /\ CreatedAt[x] < e}

\* WHERE event_created_at < ${CUTOFF}
BelowCutoff == {x \in hot : CreatedAt[x] < Cutoff}

\* SELECT MIN(event_created_at) FROM events_hot WHERE ... < ${CUTOFF}
IsEarliest(t, S) == (\E x \in S : CreatedAt[x] = t) /\ \A x \in S : t <= CreatedAt[x]

\* Mutant of WindowEnd: the clamp to the cutoff is left out.
WindowEndUnclamped(s) == s + BatchWindow

\* BATCH_END=$(( BATCH_START + BATCH_WINDOW )), clamped to CUTOFF
WindowEnd(s) == IF s + BatchWindow > Cutoff THEN Cutoff ELSE s + BatchWindow

(***************************************************************************)
(* ORDER BY event_created_at orders rows with equal timestamps in no fixed *)
(* way, and each sub-batch is a separate statement: the engine may read    *)
(* the window in a different order each time.  SortedOrders(S) is every    *)
(* order of S that ORDER BY event_created_at may produce; SubBatch is      *)
(* LIMIT BatchSize OFFSET off of one such order.                           *)
(***************************************************************************)
SortedOrders(S) ==
    {f \in [1..Cardinality(S) -> S] :
        \A i, j \in 1..Cardinality(S) :
            i < j => f[i] # f[j] /\ CreatedAt[f[i]] <= CreatedAt[f[j]]}

SubBatch(f, off) == {f[k] : k \in {i \in DOMAIN f : off < i /\ i <= off + BatchSize}}

-----------------------------------------------------------------------------
Init ==
    /\ hot \in SUBSET Events
    /\ remote = {}
    /\ tags = hot
    /\ accepted = hot
    /\ pc = "idle"
    /\ batchStart = 0
    /\ batchEnd = 0
    /\ windowCount = 0
    /\ subOffset = 0
    /\ archived = 0
    /\ deleted = 0

(***************************************************************************)
(* The relay inserts event e into events; the row lands in events_hot and  *)
(* a duplicate event_id there is a no-op (events_hot_event_id_idx).  The   *)
(* row-level trigger process_event_tags then adds e's tag entries.  An     *)
(* event already archived is not known to events_hot and is inserted      *)
(* again.                                                                  *)
(***************************************************************************)
RelayInsert(e) ==
    /\ e \notin hot
    /\ LateInserts \/ CreatedAt[e] >= Cutoff
    /\ hot' = hot \cup {e}
    /\ tags' = tags \cup {e}
    /\ accepted' = accepted \cup {e}
    /\ UNCHANGED <<remote, job>>

(***************************************************************************)
(* The partition exists, TOTAL > 0 and MIN_TS is read; the plan is shown   *)
(* and the operator is asked to confirm.  With TOTAL = 0 the script exits  *)
(* without a change, a stutter step.                                       *)
(***************************************************************************)
Plan ==
    /\ pc = "idle"
    /\ BelowCutoff # {}
    /\ pc' = "confirm"
    /\ \E t \in 0..Cutoff : IsEarliest(t, BelowCutoff) /\ batchStart' = t
    /\ UNCHANGED <<store, batchEnd, windowCount, subOffset, archived, deleted>>

\* The operator answers y: BATCH_START=$MIN_TS, ARCHIVED=0, DELETED=0.
Confirm ==
    /\ pc = "confirm"
    /\ pc' = "loop"
    /\ archived' = 0
    /\ deleted' = 0
    /\ UNCHANGED <<store, batchStart, batchEnd, windowCount, subOffset>>

\* Any other answer: "Aborted.", exit 0.
Abort ==
    /\ pc = "confirm"
    /\ pc' = "idle"
    /\ UNCHANGED <<store, batchStart, batchEnd, windowCount, subOffset, archived, deleted>>

\* Mutant of OpenWindow: WINDOW_COUNT is one short of the window.
OpenWindowCountShort ==
    /\ pc = "loop"
    /\ batchStart < Cutoff
    /\ LET e == WindowEnd(batchStart)
           n == Cardinality(Window(batchStart, e))
       IN  /\ n # 0
           /\ batchEnd' = e
           /\ windowCount' = n - 1
    /\ subOffset' = 0
    /\ pc' = "copy"
    /\ UNCHANGED <<store, batchStart, archived, deleted>>

\* Loop head with a non-empty window: count it and start copying.
OpenWindow ==
    /\ pc = "loop"
    /\ batchStart < Cutoff
    /\ LET e == WindowEnd(batchStart)
           n == Cardinality(Window(batchStart, e))
       IN  /\ n # 0
           /\ batchEnd' = e
           /\ windowCount' = n
    /\ subOffset' = 0
    /\ pc' = "copy"
    /\ UNCHANGED <<store, batchStart, archived, deleted>>

\* Mutant of SkipEmptyWindow: `continue` without advancing BATCH_START.
SkipEmptyWindowStuck ==
    /\ pc = "loop"
    /\ batchStart < Cutoff
    /\ LET e == WindowEnd(batchStart)
       IN  /\ Window(batchStart, e) = {}
           /\ batchEnd' = e
    /\ windowCount' = 0
    /\ UNCHANGED <<store, pc, batchStart, subOffset, archived, deleted>>

\* Loop head with an empty window: BATCH_START=$BATCH_END; continue.
SkipEmptyWindow ==
    /\ pc = "loop"
    /\ batchStart < Cutoff
    /\ LET e == WindowEnd(batchStart)
       IN  /\ Window(batchStart, e) = {}
           /\ batchEnd' = e
           /\ batchStart' = e
    /\ windowCount' = 0
    /\ UNCHANGED <<store, pc, subOffset, archived, deleted>>

\* Mutant of EndLoop: the loop stops one timestamp early.
EndLoopEarly ==
    /\ pc = "loop"
    /\ batchStart + 1 >= Cutoff
    /\ pc' = "report"
    /\ UNCHANGED <<store, batchStart, batchEnd, windowCount, subOffset, archived, deleted>>

\* The loop condition BATCH_START < CUTOFF fails: print the report.
EndLoop ==
    /\ pc = "loop"
    /\ batchStart >= Cutoff
    /\ pc' = "report"
    /\ UNCHANGED <<store, batchStart, batchEnd, windowCount, subOffset, archived, deleted>>

(***************************************************************************)
(* One sub-batch: INSERT INTO events_archive_<node> the rows LIMIT         *)
(* BatchSize OFFSET subOffset of the window ordered by event_created_at,   *)
(* ON CONFLICT (event_id) DO NOTHING.  The insert goes to the foreign      *)
(* table directly and fires no trigger on events_hot.  Whether it          *)
(* succeeds or fails (`|| echo 0`), the counters move on by BatchSize.     *)
(***************************************************************************)
CopySubBatch ==
    /\ pc = "copy"
    /\ subOffset < windowCount
    /\ \/ \E f \in SortedOrders(Window(batchStart, batchEnd)) :
              remote' = remote \cup SubBatch(f, subOffset)
       \/ CopyMayFail /\ UNCHANGED remote
    /\ archived' = archived + BatchSize
    /\ subOffset' = subOffset + BatchSize
    /\ UNCHANGED <<hot, tags, accepted, pc, batchStart, batchEnd, windowCount, deleted>>

\* Mutant of DeleteWindow: the window is deleted without waiting for the copy loop.
DeleteWindowEarly ==
    /\ pc = "copy"
    /\ LET w == Window(batchStart, batchEnd)
       IN  /\ hot' = hot \ w
           /\ tags' = tags \ w
           /\ deleted' = deleted + Cardinality(w)
    /\ batchStart' = batchEnd
    /\ pc' = "loop"
    /\ UNCHANGED <<remote, accepted, batchEnd, windowCount, subOffset, archived>>

(***************************************************************************)
(* The sub-batch loop is over: DELETE FROM events_hot every row of the     *)
(* window, whatever it holds now, and advance to the next window.  The     *)
(* AFTER DELETE trigger process_event_tags deletes the tag entries of      *)
(* every deleted row.  A failing DELETE counts 0 rows and the loop goes    *)
(* on.                                                                     *)
(***************************************************************************)
DeleteWindow ==
    /\ pc = "copy"
    /\ subOffset >= windowCount
    /\ LET w == Window(batchStart, batchEnd)
       IN  \/ /\ hot' = hot \ w
              /\ tags' = tags \ w
              /\ deleted' = deleted + Cardinality(w)
           \/ /\ DeleteMayFail
              /\ UNCHANGED <<hot, tags, deleted>>
    /\ batchStart' = batchEnd
    /\ pc' = "loop"
    /\ UNCHANGED <<remote, accepted, batchEnd, windowCount, subOffset, archived>>

\* The closing report (a warning when ARCHIVED # DELETED); the script ends.
Report ==
    /\ pc = "report"
    /\ pc' = "idle"
    /\ UNCHANGED <<store, batchStart, batchEnd, windowCount, subOffset, archived, deleted>>

(***************************************************************************)
(* The script is killed, or a count query fails under set -e.  Its shell   *)
(* variables are gone; the tables keep every committed statement.         *)
(***************************************************************************)
Crash ==
    /\ pc # "idle"
    /\ pc' = "idle"
    /\ batchStart' = 0
    /\ batchEnd' = 0
    /\ windowCount' = 0
    /\ subOffset' = 0
    /\ archived' = 0
    /\ deleted' = 0
    /\ UNCHANGED store

Loop ==
    \/ OpenWindow
    \/ SkipEmptyWindow
    \/ EndLoop
    \/ CopySubBatch
    \/ DeleteWindow
    \/ Report

Next ==
    \/ \E e \in Events : RelayInsert(e)
    \/ Plan
    \/ Confirm
    \/ Abort
    \/ Loop
    \/ Crash

Spec == Init /\ [][Next]_vars

\* Once confirmed, the script runs its loop to the end unless it is killed:
\* nothing in it waits on the operator or on another process.
FairSpec ==
    /\ Spec
    /\ WF_vars(OpenWindow) /\ WF_vars(SkipEmptyWindow) /\ WF_vars(EndLoop)
    /\ WF_vars(CopySubBatch) /\ WF_vars(DeleteWindow) /\ WF_vars(Report)

-----------------------------------------------------------------------------
(***************************************************************************)
(* Properties.                                                             *)
(***************************************************************************)

\* Every variable ranges over its type; the window never passes the cutoff.
TypeOK ==
    /\ hot \subseteq Events
    /\ remote \subseteq Events
    /\ tags \subseteq Events
    /\ accepted \subseteq Events
    /\ pc \in PCs
    /\ batchStart \in 0..Cutoff
    /\ batchEnd \in 0..Cutoff
    /\ windowCount \in Nat
    /\ subOffset \in Nat
    /\ archived \in Nat
    /\ deleted \in Nat

\* No event the store accepted is ever lost: every one is still in
\* events_hot or in the node's table.  This is the script's header promise
\* "Data is NEVER deleted from events_hot until it is confirmed present on
\* the remote", across crashes, re-runs and sub-batching.
NoEventLost == accepted \subseteq hot \cup remote

\* When a run reaches its report, every row below the cutoff still in
\* events_hot is also on the node (its delete may have failed): the windows
\* cover all of [MIN_TS, CUTOFF) and every window was copied in full.
ArchiveComplete ==
    pc = "report" => \A x \in BelowCutoff : x \in remote

\* Archived rows keep their tag-index entries (the migration's comment:
\* "the corresponding event_tags rows are already present locally and
\* continue to serve tag-based REQ queries").
TagsRetained == remote \subseteq tags

\* A confirmed run always comes to its end (or is killed).
Termination == (pc \in {"loop", "copy"}) ~> (pc = "idle")

=============================================================================
