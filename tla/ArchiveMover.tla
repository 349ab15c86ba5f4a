---------------------------- MODULE ArchiveMover ----------------------------
(***************************************************************************)
(* What the archival job promises, without its loop: the header of         *)
(* scripts/archive-events.sh, "Data is NEVER deleted from events_hot until *)
(* it is confirmed present on the remote".  The tables change in three     *)
(* ways only:                                                              *)
(*   - the relay accepts an event into events_hot (and its tags);          *)
(*   - rows of events_hot below the cutoff are copied to the node;         *)
(*   - rows already on the node are deleted from events_hot, and the tag   *)
(*     trigger deletes their tag entries.                                  *)
(* The windows, pages, counters and the script's kills and re-runs are     *)
(* hidden: the job's steps either do one of these or leave the tables as  *)
(* they are.                                                               *)
(***************************************************************************)
EXTENDS Integers

CONSTANTS Events, CreatedAt, Cutoff, LateInserts

VARIABLES hot, remote, tags, accepted

tables == <<hot, remote, tags, accepted>>

\* Rows of events_hot the job may archive.
Archivable == {x \in hot : CreatedAt[x] < Cutoff}

Init ==
    /\ hot \in SUBSET Events
    /\ remote = {}
    /\ tags = hot
    /\ accepted = hot

\* The relay stores a new event; old timestamps only with late inserts.
Accept(e) ==
    /\ e \notin hot
    /\ LateInserts \/ CreatedAt[e] >= Cutoff
    /\ hot' = hot \cup {e}
    /\ tags' = tags \cup {e}
    /\ accepted' = accepted \cup {e}
    /\ UNCHANGED remote

\* Some archivable rows are copied to the node.
Copy(S) ==
    /\ S \subseteq Archivable
    /\ remote' = remote \cup S
    /\ UNCHANGED <<hot, tags, accepted>>

\* Some rows below the cutoff leave events_hot, and the tag trigger takes
\* their tag entries with them.
Discard(S) ==
    /\ \A x \in S : CreatedAt[x] < Cutoff
    /\ hot' = hot \ S
    /\ tags' = tags \ S
    /\ UNCHANGED <<remote, accepted>>

\* Some rows below the cutoff that the node holds leave events_hot.
Evict(S) ==
    /\ S \subseteq remote
    /\ Discard(S)

Next ==
    \/ \E e \in Events : Accept(e)
    \/ \E S \in SUBSET Events : Copy(S) \/ Evict(S)

Spec == Init /\ [][Next]_tables

(***************************************************************************)
(* The weaker promise of --cutoff / --older-than: the job copies and     *)
(* deletes rows older than the cutoff and no others, whether or not the    *)
(* node has them.  Rows at or after the cutoff leave events_hot never, and *)
(* reach the node never.                                                   *)
(***************************************************************************)
ScopeNext ==
    \/ \E e \in Events : Accept(e)
    \/ \E S \in SUBSET Events : Copy(S) \/ Discard(S)

ScopeSpec == Init /\ [][ScopeNext]_tables

=============================================================================
