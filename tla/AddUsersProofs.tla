--------------------------- MODULE AddUsersProofs ---------------------------
(***************************************************************************)
(* Proofs about AddUsers for every set of runs and arguments and every    *)
(* choice of the failure flags.                                            *)
(***************************************************************************)
EXTENDS AddUsers, TLAPS

USE AddUsersAssumption

(***************************************************************************)
(* Neither TypeOK nor SuccessMeansAdmitted is inductive alone: the upsert  *)
(* step adds arg[i] to the table, so a run at "upsert" must hold a checked *)
(* pubkey, and Destroy exits 0, so a run at "destroy" must already have   *)
(* its pubkey admitted.  The table only grows, which keeps both facts.    *)
(***************************************************************************)
IInv ==
    /\ TypeOK
    /\ \A i \in Invocations :
          /\ pc[i] \in {"upsert", "destroy"} => arg[i] \in Pubkeys
          /\ pc[i] = "destroy" => arg[i] \in admitted
          /\ exitCode[i] = 0 => arg[i] \in admitted

LEMMA InitIInv == Init => IInv
BY DEF Init, IInv, TypeOK, Running

LEMMA NextIInv == IInv /\ [Next]_vars => IInv'
<1> SUFFICES ASSUME IInv, [Next]_vars PROVE IInv'
    OBVIOUS
<1>1. CASE \E i \in Invocations : Validate(i)
    <2>1. PICK i \in Invocations : Validate(i)
        BY <1>1
    <2>. QED
        BY <2>1 DEF Validate, Exit, IInv, TypeOK, Pubkeys, Running
<1>2. CASE \E i \in Invocations : Upsert(i)
    <2>1. PICK i \in Invocations : Upsert(i)
        BY <1>2
    <2>. QED
        BY <2>1 DEF Upsert, Exit, IInv, TypeOK, Running
<1>3. CASE \E i \in Invocations : Destroy(i)
    <2>1. PICK i \in Invocations : Destroy(i)
        BY <1>3
    <2>. QED
        BY <2>1 DEF Destroy, Exit, IInv, TypeOK, Running
<1>4. CASE UNCHANGED vars
    BY <1>4 DEF vars, IInv, TypeOK, Pubkeys
<1>. QED
    BY <1>1, <1>2, <1>3, <1>4 DEF Next

\* Every state of every run is well typed, and the users table only ever
\* holds pubkeys that passed the script's 64-character check.
THEOREM AddUsersTypeCorrect == Spec => []TypeOK
<1>1. IInv => TypeOK
    BY DEF IInv
<1>. QED
    BY InitIInv, NextIInv, <1>1, PTL DEF Spec

\* A run of add-users.ts that exits 0 has its pubkey admitted, whatever
\* the other runs did and whichever upserts failed or lost their reply.
THEOREM SuccessImpliesAdmitted == Spec => []SuccessMeansAdmitted
<1>1. IInv => SuccessMeansAdmitted
    BY DEF IInv, SuccessMeansAdmitted
<1>. QED
    BY InitIInv, NextIInv, <1>1, PTL DEF Spec

-----------------------------------------------------------------------------
(***************************************************************************)
(* The script implements UserAdmission, with pc hidden.  The mapping is    *)
(* the identity on arg, admitted and exitCode.  What it has to show is     *)
(* that a run writes its exit status once and admits its key only before  *)
(* that, which needs one more fact: a run is "done" exactly when it has an *)
(* exit status.                                                            *)
(***************************************************************************)
Admission == INSTANCE UserAdmission

\* Seen through its arguments, the users table and the exit statuses, the
\* script keeps the promise of UserAdmission: each run ends once, admits
\* only its own checked pubkey before it ends, and exits 0 only when
\* admitted.
AdmissionSpec == Admission!Spec

RunInv ==
    /\ IInv
    /\ \A i \in Invocations : exitCode[i] = Running <=> pc[i] # "done"

LEMMA InitRunInv == Init => RunInv
BY InitIInv DEF Init, RunInv, Running

LEMMA NextRunInv == RunInv /\ [Next]_vars => RunInv'
<1> SUFFICES ASSUME RunInv, [Next]_vars PROVE RunInv'
    OBVIOUS
<1>1. IInv'
    BY NextIInv DEF RunInv
<1>2. \A i \in Invocations : exitCode'[i] = Running <=> pc'[i] # "done"
    BY DEF RunInv, IInv, TypeOK, Next, vars, Validate, Upsert, Destroy, Exit,
           Running
<1>. QED
    BY <1>1, <1>2 DEF RunInv

\* Under RunInv a step of the script is a step of UserAdmission or leaves
\* arg, admitted and exitCode alone.
LEMMA StepRefines ==
    ASSUME RunInv, [Next]_vars
    PROVE  [Admission!Next]_Admission!avars
<1>. USE DEF Admission!avars, Admission!Next, Admission!Running,
             Admission!Pubkeys, Running, Pubkeys
<1>1. CASE \E i \in Invocations : Validate(i)
    <2>1. PICK i \in Invocations : Validate(i)
        BY <1>1
    <2>. QED
        BY <2>1 DEF Validate, Exit, Admission!Fail, RunInv, IInv, TypeOK
<1>2. CASE \E i \in Invocations : Upsert(i)
    <2>1. PICK i \in Invocations : Upsert(i)
        BY <1>2
    <2>. QED
        BY <2>1 DEF Upsert, Exit, Admission!Admit, Admission!Fail, RunInv,
                    IInv, TypeOK
<1>3. CASE \E i \in Invocations : Destroy(i)
    <2>1. PICK i \in Invocations : Destroy(i)
        BY <1>3
    <2>. QED
        BY <2>1 DEF Destroy, Exit, Admission!Succeed, Admission!Fail, RunInv,
                    IInv, TypeOK
<1>4. CASE UNCHANGED vars
    BY <1>4 DEF vars
<1>. QED
    BY <1>1, <1>2, <1>3, <1>4 DEF Next

\* add-users.ts implements UserAdmission for any runs, arguments and
\* failure flags: overlapping runs, failed upserts, lost replies and a
\* failing destroy() never make a run admit another key, report twice, or
\* report success without its row.
THEOREM AddUsersImplementsAdmission == Spec => AdmissionSpec
<1>1. Init => Admission!Init
    BY DEF Init, Admission!Init, Admission!Running, Running
<1>2. Spec => []RunInv
    BY InitRunInv, NextRunInv, PTL DEF Spec
<1>3. RunInv /\ [Next]_vars => [Admission!Next]_Admission!avars
    BY StepRefines
<1>. QED
    BY <1>1, <1>2, <1>3, PTL DEF Spec, AdmissionSpec, Admission!Spec

=============================================================================
