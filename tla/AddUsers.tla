------------------------------ MODULE AddUsers ------------------------------
(***************************************************************************)
(* src/scripts/add-users.ts: admit one pubkey by upserting a users row.    *)
(* Each element of Invocations is one run of the script with its own       *)
(* argv[2]; runs may overlap, and share only the users table.              *)
(*                                                                         *)
(* An argument is a model value with a length; the hex alphabet is not     *)
(* modelled because the script never looks at it.  The upsert is one SQL  *)
(* statement: it fails before committing, commits, or commits and its      *)
(* reply is lost (the connection drops after COMMIT), which the client     *)
(* sees as a rejection.  dbClient.destroy() may reject too.                *)
(***************************************************************************)
EXTENDS Integers

CONSTANTS
    Invocations,    \* runs of the script
    Args,           \* strings an operator may pass as argv[2]
    NoArg,          \* argv[2] missing (undefined) or empty
    Len,            \* Args -> their length
    UpsertMayFail,  \* TRUE: the upsert may reject without committing
    AckMayBeLost,   \* TRUE: the upsert may commit and still reject
    DestroyMayFail  \* TRUE: dbClient.destroy() may reject

ASSUME AddUsersAssumption ==
    /\ NoArg \notin Args
    /\ Len \in [Args -> Nat]
    /\ {UpsertMayFail, AckMayBeLost, DestroyMayFail} \subseteq BOOLEAN

VARIABLES
    pc,         \* per run: "start", "upsert", "destroy", "done"
    arg,        \* per run: process.argv[2]
    admitted,   \* pubkeys whose users row has is_admitted = true
    exitCode    \* per run: the exit status, or Running

vars == <<pc, arg, admitted, exitCode>>

\* No exit status yet.
Running == -1

Exit(i, code) ==
    /\ pc' = [pc EXCEPT ![i] = "done"]
    /\ exitCode' = [exitCode EXCEPT ![i] = code]

\* The pubkeys a users row can hold: 64 characters, as argv[2] is checked.
Pubkeys == {a \in Args : Len[a] = 64}

\* Runs start with any command line; no pubkey is admitted yet.
Init ==
    /\ pc = [i \in Invocations |-> "start"]
    /\ arg \in [Invocations -> Args \cup {NoArg}]
    /\ admitted = {}
    /\ exitCode = [i \in Invocations |-> Running]

\* `if (!pubkey || pubkey.length !== 64)`: usage and exit 1; otherwise the
\* pool is created and the user record built.
\* Mutant of Validate: only a missing argument is refused.
ValidateNoLength(i) ==
    /\ pc[i] = "start"
    /\ \/ arg[i] = NoArg /\ Exit(i, 1)
       \/ arg[i] # NoArg /\ pc' = [pc EXCEPT ![i] = "upsert"] /\ UNCHANGED exitCode
    /\ UNCHANGED <<arg, admitted>>

Validate(i) ==
    /\ pc[i] = "start"
    /\ LET ok == arg[i] # NoArg /\ Len[arg[i]] = 64
       IN  \/ ~ok /\ Exit(i, 1)
           \/ ok /\ pc' = [pc EXCEPT ![i] = "upsert"] /\ UNCHANGED exitCode
    /\ UNCHANGED <<arg, admitted>>

\* Mutant of Upsert: the promise is not awaited, so the run goes on to
\* destroy() whether or not the row reached the database.
UpsertNotAwaited(i) ==
    /\ pc[i] = "upsert"
    /\ \/ admitted' = admitted \cup {arg[i]}
       \/ UNCHANGED admitted
    /\ pc' = [pc EXCEPT ![i] = "destroy"]
    /\ UNCHANGED <<arg, exitCode>>

\* `await userRepository.upsert(user)`; a rejection goes to the .catch
\* handler: "Failed to add user", exit 1 (the pool is left open).
Upsert(i) ==
    /\ pc[i] = "upsert"
    /\ \/ /\ admitted' = admitted \cup {arg[i]}
          /\ pc' = [pc EXCEPT ![i] = "destroy"]
          /\ UNCHANGED exitCode
       \/ /\ UpsertMayFail
          /\ Exit(i, 1)
          /\ UNCHANGED admitted
       \/ /\ AckMayBeLost
          /\ admitted' = admitted \cup {arg[i]}
          /\ Exit(i, 1)
    /\ UNCHANGED arg

\* "User admitted", `await dbClient.destroy()`, exit 0; a rejected
\* destroy goes to the .catch handler and exits 1.
Destroy(i) ==
    /\ pc[i] = "destroy"
    /\ \/ Exit(i, 0)
       \/ DestroyMayFail /\ Exit(i, 1)
    /\ UNCHANGED <<arg, admitted>>

Next == \E i \in Invocations : Validate(i) \/ Upsert(i) \/ Destroy(i)

Spec == Init /\ [][Next]_vars

-----------------------------------------------------------------------------
\* Every run's state ranges over its type, and the users table holds only
\* 64-character pubkeys.
TypeOK ==
    /\ pc \in [Invocations -> {"start", "upsert", "destroy", "done"}]
    /\ arg \in [Invocations -> Args \cup {NoArg}]
    /\ admitted \subseteq Pubkeys
    /\ exitCode \in [Invocations -> {Running, 0, 1}]

\* A run that exits 0 ("User admitted") left its pubkey admitted: the
\* script reports success only after the upsert it awaited committed.
SuccessMeansAdmitted ==
    \A i \in Invocations : exitCode[i] = 0 => arg[i] \in admitted

=============================================================================
