----------------------------- MODULE MCAddUsers -----------------------------
(***************************************************************************)
(* A small instance of AddUsers: two runs, which may overlap, and three    *)
(* arguments: a 64-character key, a second one, and one that is too short. *)
(***************************************************************************)
EXTENDS AddUsersProofs, TLC

CONSTANTS r1, r2, a1, a2, a3

MCInvocations == {r1, r2}
MCArgs == {a1, a2, a3}
MCLen == (a1 :> 64 @@ a2 :> 64 @@ a3 :> 63)
=============================================================================
