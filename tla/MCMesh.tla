------------------------------- MODULE MCMesh -------------------------------
(***************************************************************************)
(* Small instances of Mesh for TLC.  Two node names are enough for one     *)
(* node's key to stay whitelisted while another is added or removed, so    *)
(* that an empty, open whitelist does not hide a missing key.  Two shells  *)
(* are enough for two scripts to race on the shared tmp files.            *)
(***************************************************************************)
EXTENDS MeshProofs, TLC

CONSTANTS n1, n2, k1, k2, p1, p2

MCNames == {n1, n2}

\* One node: enough for a kill between two rewrites, or for two shells to
\* race on the tmp files, to leave the two files disagreeing.
MCOneName == {n1}
MCOneHostKey == (n1 :> k1)
MCKeys == {k1, k2}

\* One storage host per name.
MCHostKey == (n1 :> k1 @@ n2 :> k2)

MCOneShell == {p1}
MCTwoShells == {p1, p2}

=============================================================================
