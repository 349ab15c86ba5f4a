---------------------------- MODULE UserAdmission ----------------------------
(***************************************************************************)
(* What a run of add-users.ts promises the operator, without its steps:    *)
(* a run ends once, with 0 or 1; only a run still going may admit a       *)
(* pubkey, and only its own, well-formed one; and it ends with 0 only if   *)
(* that pubkey is admitted.  A run may admit its pubkey and still end with *)
(* 1: the row commits and the client never hears of it.                   *)
(***************************************************************************)
EXTENDS Integers

CONSTANTS Invocations, Args, NoArg, Len

VARIABLES arg, admitted, exitCode

avars == <<arg, admitted, exitCode>>

\* No exit status yet.
Running == -1

\* The keys a users row may hold.
Pubkeys == {a \in Args : Len[a] = 64}

Init ==
    /\ arg \in [Invocations -> Args \cup {NoArg}]
    /\ admitted = {}
    /\ exitCode = [i \in Invocations |-> Running]

\* The run's pubkey is admitted; the run may learn of it or not.
Admit(i) ==
    /\ exitCode[i] = Running
    /\ arg[i] \in Pubkeys
    /\ admitted' = admitted \cup {arg[i]}
    /\ exitCode' \in {exitCode, [exitCode EXCEPT ![i] = 1]}
    /\ UNCHANGED arg

\* The run reports success; its pubkey is admitted.
Succeed(i) ==
    /\ exitCode[i] = Running
    /\ arg[i] \in admitted
    /\ exitCode' = [exitCode EXCEPT ![i] = 0]
    /\ UNCHANGED <<arg, admitted>>

\* The run reports failure.
Fail(i) ==
    /\ exitCode[i] = Running
    /\ exitCode' = [exitCode EXCEPT ![i] = 1]
    /\ UNCHANGED <<arg, admitted>>

Next == \E i \in Invocations : Admit(i) \/ Succeed(i) \/ Fail(i)

Spec == Init /\ [][Next]_avars

=============================================================================
