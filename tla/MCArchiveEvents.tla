-------------------------- MODULE MCArchiveEvents --------------------------
(***************************************************************************)
(* Small instances of ArchiveEvents for TLC.  Four events; e1..e3 are old  *)
(* enough to archive (cutoff 3) and e4 is a current event the relay keeps  *)
(* inserting.  A window of width 2 gives two windows, [0,2) and [2,3), so  *)
(* the clamp to the cutoff and the skip of an empty window both happen;    *)
(* a batch size of 1 splits a window into several sub-batches.            *)
(***************************************************************************)
EXTENDS ArchiveRefinement, TLC

CONSTANTS e1, e2, e3, e4

MCEvents == {e1, e2, e3, e4}

\* Distinct timestamps below the cutoff.
MCCreatedAt == (e1 :> 0 @@ e2 :> 1 @@ e3 :> 2 @@ e4 :> 3)

\* e1 and e2 share a timestamp: ORDER BY event_created_at is not a total order.
MCCreatedAtTied == (e1 :> 1 @@ e2 :> 1 @@ e3 :> 2 @@ e4 :> 3)

=============================================================================
