----------------------------- MODULE MeshProofs -----------------------------
(***************************************************************************)
(* Proofs about the whitelist and registry model Mesh, for every set of    *)
(* names, keys and shells.                                                 *)
(***************************************************************************)
EXTENDS Mesh, TLAPS

USE NamesAssumption, HostKeyAssumption, SentinelAssumption, MeshFlagsAssumption

-----------------------------------------------------------------------------
(***************************************************************************)
(* Type correctness.  TypeOK alone is not inductive: jq writes the         *)
(* operator's key into the tmp file, so a shell at a_check or a_cjq must   *)
(* hold a real key, which StartAdd ensures by sending a key-less run       *)
(* straight to the SQL step.                                               *)
(***************************************************************************)
TypeInv ==
    /\ TypeOK
    /\ \A p \in Procs : opPc[p] \in {"a_check", "a_cjq"} => opKey[p] \in Keys

LEMMA InitTypeInv == Init => TypeInv
BY DEF Init, TypeInv, TypeOK

LEMMA NextTypeInv == TypeInv /\ [Next]_vars => TypeInv'
<1> SUFFICES ASSUME TypeInv, [Next]_vars PROVE TypeInv'
    OBVIOUS
<1>. USE DEF TypeInv, TypeOK, AddSteps, RemoveSteps
<1>1. CASE CoordGenerate
    BY <1>1 DEF CoordGenerate, ops, db
<1>2. CASE CoordJq \/ CoordMv
    BY <1>2 DEF CoordJq, CoordMv, ops, db
<1>3. CASE CoordBoot
    BY <1>3 DEF CoordBoot, CoordBootState, ops, db
<1>4. CASE CoordKill
    BY <1>4 DEF CoordKill, files, ops, db
<1>5. CASE \E n \in Names : StorageGenerate(n) \/ StorageConfigure(n)
                            \/ StorageBoot(n) \/ StorageKill(n)
    <2>1. PICK n \in Names : StorageGenerate(n) \/ StorageConfigure(n)
                             \/ StorageBoot(n) \/ StorageKill(n)
        BY <1>5
    <2>. QED
        BY <2>1 DEF StorageGenerate, StorageConfigure, StorageBoot,
                    StorageKill, files, ops, db
<1>6. CASE \E p \in Procs, n \in Names, k \in Keys \cup {NoKey} : StartAdd(p, n, k)
    <2>1. PICK p \in Procs, n \in Names, k \in Keys \cup {NoKey} : StartAdd(p, n, k)
        BY <1>6
    <2>. QED
        BY <2>1 DEF StartAdd, Goto, files, daemons
<1>7. CASE \E p \in Procs, n \in Names : StartRemove(p, n)
    <2>1. PICK p \in Procs, n \in Names : StartRemove(p, n)
        BY <1>7
    <2>. QED
        BY <2>1 DEF StartRemove, Goto, files, daemons
<1>8. CASE \E p \in Procs : ScriptStep(p)
    <2>1. PICK p \in Procs : ScriptStep(p)
        BY <1>8
    <2>2. CASE AddCheck(p)
        BY <2>2 DEF AddCheck, Goto, files, daemons, db
    <2>3. CASE AddConfJq(p)
        BY <2>3 DEF AddConfJq, Goto, daemons, db
    <2>4. CASE AddNodesJq(p)
        BY <2>4 DEF AddNodesJq, Goto, daemons, db
    <2>5. CASE AddSql(p)
        BY <2>5 DEF AddSql, Goto, files, daemons
    <2>6. CASE RemoveRead(p)
        BY <2>6 DEF RemoveRead, Goto, files, daemons, db
    <2>7. CASE RemoveConfJq(p)
        BY <2>7 DEF RemoveConfJq, Goto, daemons, db
    <2>8. CASE RemoveNodesJq(p)
        BY <2>8 DEF RemoveNodesJq, Goto, daemons, db
    <2>9. CASE RemoveSql(p)
        BY <2>9 DEF RemoveSql, Goto, files, daemons
    <2>10. CASE ConfMv(p)
        BY <2>10 DEF ConfMv, AfterMv, Goto, daemons, db
    <2>11. CASE NodesMv(p)
        BY <2>11 DEF NodesMv, AfterMv, Goto, daemons, db
    <2>12. CASE Restart(p)
        BY <2>12 DEF Restart, CoordBootState, Goto, db
    <2>. QED
        BY <2>1, <2>2, <2>3, <2>4, <2>5, <2>6, <2>7, <2>8, <2>9, <2>10,
           <2>11, <2>12 DEF ScriptStep
<1>9. CASE \E p \in Procs : OpCrash(p)
    <2>1. PICK p \in Procs : OpCrash(p)
        BY <1>9
    <2>. QED
        BY <2>1 DEF OpCrash, Goto, files, daemons, db
<1>10. CASE UNCHANGED vars
    BY <1>10 DEF vars, files, daemons, ops, db
<1>. QED
    BY <1>1, <1>2, <1>3, <1>4, <1>5, <1>6, <1>7, <1>8, <1>9, <1>10 DEF Next

\* Every reachable state of the files, daemons and shells is well typed.
THEOREM TypeCorrect == Spec => []TypeOK
<1>1. Spec => []TypeInv
    BY InitTypeInv, NextTypeInv, PTL DEF Spec
<1>. QED
    BY <1>1, PTL DEF TypeInv

-----------------------------------------------------------------------------
(***************************************************************************)
(* The whitelist covers the registry.  RecordedKeysWhitelisted holds when  *)
(* one operator runs the scripts at a time (two shells lose updates        *)
(* through the shared tmp files), no two names share a host key (removing *)
(* one of them revokes the other's key), and the coordinator has finished *)
(* its first start (its entrypoint's jq and mv go through the same tmp    *)
(* file).  Shells and containers may be killed anywhere.                   *)
(***************************************************************************)
SingleShell == \A p, q \in Procs : p = q
DistinctHostKeys == \A m, n \in Names : HostKey[m] = HostKey[n] => m = n

\* The files: nothing is recorded before the coordinator's first start,
\* and a recorded key is the host key of its name.
FilesInv ==
    /\ ~confExists => conf = {} /\ ~nodesExists
    /\ coordPc \in {"gen", "init"} => confExists
    /\ ~nodesExists => \A m \in Names : nodes[m] = NoKey
    /\ \A m \in Names : nodes[m] \in {HostKey[m], NoKey}

\* What shell p's steps have established about the files it is rewriting.
ShellInv(p) ==
    LET n == opName[p]
        k == opKey[p]
    IN
    /\ opPc[p] \in {"a_check", "a_cjq", "a_cmv", "a_njq", "a_nmv", "a_restart"}
          => k = HostKey[n]
    /\ opPc[p] \in {"a_cjq", "a_cmv", "a_njq", "a_nmv", "a_restart"} => confExists
    /\ opPc[p] = "a_cmv" => cfgTmp = conf \cup {k}
    /\ opPc[p] \in {"a_njq", "a_nmv", "a_restart"} => k \in conf
    /\ opPc[p] = "a_nmv" => nodesExists /\ nodesTmp = [nodes EXCEPT ![n] = k]
    /\ opPc[p] = "a_sql" => k = NoKey \/ (k \in conf /\ k = HostKey[n])
    /\ opPc[p] \in {"r_read", "r_cjq", "r_cmv", "r_njq", "r_nmv"} => n \in removing
    /\ opPc[p] \in {"r_cjq", "r_cmv"} => k = HostKey[n]
    /\ opPc[p] \in {"r_cjq", "r_cmv", "r_njq", "r_nmv", "r_restart"} => confExists
    /\ opPc[p] = "r_cmv" => cfgTmp = conf \ {k}
    /\ opPc[p] = "r_nmv" => nodesTmp = [nodes EXCEPT ![n] = NoKey]
    /\ opPc[p] \in {"r_restart", "r_sql"} => nodes[n] = NoKey

\* The coordinator's config was generated and its entrypoint will not
\* rewrite it again: nothing but the scripts writes yggdrasil.conf.tmp.
CoordInstalled == confExists /\ coordPc \notin {"gen", "jq"}

WhitelistInv ==
    /\ TypeInv
    /\ CoordInstalled
    /\ RecordedKeysWhitelisted
    /\ FilesInv
    /\ \A p \in Procs : ShellInv(p)

LEMMA InitWhitelistInv == ~FirstStart /\ Init => WhitelistInv
BY InitTypeInv DEF Init, WhitelistInv, CoordInstalled, RecordedKeysWhitelisted,
                   FilesInv, ShellInv

\* Once its config is generated, the coordinator's entrypoint never runs
\* its genconf, jq and mv again: a boot or a restart finds the config.
LEMMA CoordInstalledStable ==
    ASSUME CoordInstalled, [Next]_vars
    PROVE  CoordInstalled'
<1>1. CASE CoordGenerate \/ CoordJq \/ CoordMv
    BY <1>1 DEF CoordInstalled, CoordGenerate, CoordJq, CoordMv
<1>2. CASE CoordBoot \/ CoordKill
    BY <1>2 DEF CoordInstalled, CoordBoot, CoordBootState, CoordKill, files
<1>3. CASE \E n \in Names : StorageGenerate(n) \/ StorageConfigure(n)
                            \/ StorageBoot(n) \/ StorageKill(n)
    BY <1>3 DEF CoordInstalled, StorageGenerate, StorageConfigure, StorageBoot,
                StorageKill, files, daemons
<1>4. CASE \E p \in Procs : \/ \E n \in Names, k \in Keys \cup {NoKey} : StartAdd(p, n, k)
                            \/ \E n \in Names : StartRemove(p, n)
                            \/ OpCrash(p)
    BY <1>4 DEF CoordInstalled, StartAdd, StartRemove, OpCrash, files, daemons
<1>5. CASE \E p \in Procs : Restart(p)
    BY <1>5 DEF CoordInstalled, Restart, CoordBootState
<1>6. CASE \E p \in Procs : ScriptStep(p) /\ ~Restart(p)
    BY <1>6 DEF CoordInstalled, ScriptStep, AddCheck, AddConfJq, AddNodesJq, AddSql,
                RemoveRead, RemoveConfJq, RemoveNodesJq, RemoveSql, ConfMv, NodesMv,
                files, daemons
<1>7. CASE UNCHANGED vars
    BY <1>7 DEF CoordInstalled, vars, files, daemons
<1>. QED
    BY <1>1, <1>2, <1>3, <1>4, <1>5, <1>6, <1>7 DEF Next

LEMMA NextWhitelistInv ==
    ASSUME SingleShell, DistinctHostKeys, WhitelistInv, [Next]_vars
    PROVE  WhitelistInv'
<1>. USE DEF WhitelistInv, TypeInv, TypeOK
<1>0. TypeInv'
    BY NextTypeInv
<1>a. CoordInstalled'
    BY CoordInstalledStable
<1>. DEFINE Rest == RecordedKeysWhitelisted' /\ FilesInv' /\ \A q \in Procs : ShellInv(q)'
<1>. SUFFICES Rest
    BY <1>0, <1>a
<1>1. CASE CoordGenerate
    BY <1>1 DEF CoordGenerate, CoordInstalled
<1>2. CASE CoordJq \/ CoordMv
    BY <1>2 DEF CoordJq, CoordMv, CoordInstalled
<1>3. CASE CoordBoot
    BY <1>3 DEF CoordBoot, CoordBootState, RecordedKeysWhitelisted, FilesInv,
                ShellInv, ops, db
<1>4. CASE CoordKill
    BY <1>4 DEF CoordKill, RecordedKeysWhitelisted, FilesInv, ShellInv, files, ops, db
<1>5. CASE \E n \in Names : StorageGenerate(n) \/ StorageConfigure(n)
                            \/ StorageBoot(n) \/ StorageKill(n)
    <2>1. PICK n \in Names : StorageGenerate(n) \/ StorageConfigure(n)
                             \/ StorageBoot(n) \/ StorageKill(n)
        BY <1>5
    <2>. QED
        BY <2>1 DEF StorageGenerate, StorageConfigure, StorageBoot, StorageKill,
                    RecordedKeysWhitelisted, FilesInv, ShellInv, files, ops, db
<1>6. CASE \E p \in Procs, n \in Names, k \in Keys \cup {NoKey} : StartAdd(p, n, k)
    <2>1. PICK p \in Procs, n \in Names, k \in Keys \cup {NoKey} : StartAdd(p, n, k)
        BY <1>6
    <2>. QED
        BY <2>1 DEF StartAdd, Goto, RecordedKeysWhitelisted, FilesInv, ShellInv,
                    SingleShell, files, daemons
<1>7. CASE \E p \in Procs, n \in Names : StartRemove(p, n)
    <2>1. PICK p \in Procs, n \in Names : StartRemove(p, n)
        BY <1>7
    <2>. QED
        BY <2>1 DEF StartRemove, Goto, RecordedKeysWhitelisted, FilesInv, ShellInv,
                    SingleShell, files, daemons
<1>8. CASE \E p \in Procs : ScriptStep(p)
    <2>1. PICK p \in Procs : ScriptStep(p)
        BY <1>8
    <2>. USE DEF RecordedKeysWhitelisted, FilesInv, ShellInv, SingleShell, Goto
    <2>2. CASE AddCheck(p)
        BY <2>2 DEF AddCheck, files, daemons, db
    <2>3. CASE AddConfJq(p)
        BY <2>3 DEF AddConfJq, daemons, db
    <2>4. CASE AddNodesJq(p)
        BY <2>4 DEF AddNodesJq, daemons, db
    <2>5. CASE AddSql(p)
        BY <2>5 DEF AddSql, files, daemons
    <2>6. CASE RemoveRead(p)
        BY <2>6 DEF RemoveRead, files, daemons, db
    <2>7. CASE RemoveConfJq(p)
        BY <2>7 DEF RemoveConfJq, daemons, db
    <2>8. CASE RemoveNodesJq(p)
        <3>1. RecordedKeysWhitelisted' /\ FilesInv'
            BY <2>8 DEF RemoveNodesJq, daemons, db
        <3>2. opPc'[p] = "r_nmv" /\ opName' = opName /\ removing' = removing
              /\ confExists'
            BY <2>8 DEF RemoveNodesJq, daemons, db
        <3>3. nodesTmp' = [nodes' EXCEPT ![opName'[p]] = NoKey]
            BY <2>8 DEF RemoveNodesJq, daemons, db
        <3>4. opName[p] \in removing
            BY <2>8 DEF RemoveNodesJq
        <3>. QED
            BY <3>1, <3>2, <3>3, <3>4
    <2>9. CASE RemoveSql(p)
        BY <2>9 DEF RemoveSql, files, daemons
    <2>10. CASE ConfMv(p)
        BY <2>10, DistinctHostKeys DEF ConfMv, AfterMv, daemons, db, DistinctHostKeys
    <2>11. CASE NodesMv(p)
        BY <2>11 DEF NodesMv, AfterMv, daemons, db
    <2>12. CASE Restart(p)
        BY <2>12 DEF Restart, CoordBootState, db
    <2>. QED
        BY <2>1, <2>2, <2>3, <2>4, <2>5, <2>6, <2>7, <2>8, <2>9, <2>10,
           <2>11, <2>12 DEF ScriptStep
<1>9. CASE \E p \in Procs : OpCrash(p)
    <2>1. PICK p \in Procs : OpCrash(p)
        BY <1>9
    <2>. QED
        BY <2>1 DEF OpCrash, Goto, RecordedKeysWhitelisted, FilesInv, ShellInv,
                    SingleShell, files, daemons, db
<1>10. CASE UNCHANGED vars
    BY <1>10 DEF vars, files, daemons, ops, db, RecordedKeysWhitelisted, FilesInv,
                 ShellInv
<1>. QED
    BY <1>1, <1>2, <1>3, <1>4, <1>5, <1>6, <1>7, <1>8, <1>9, <1>10 DEF Next

\* With one operator at a time, one key per host and a coordinator past its
\* first start, every state satisfies WhitelistInv, whichever shells and
\* containers are killed: what each shell's earlier steps wrote into its
\* tmp files is what its mv installs, and every recorded key is its name's
\* host key.
THEOREM WhitelistInvariant ==
    ASSUME SingleShell, DistinctHostKeys, ~FirstStart
    PROVE  Spec => []WhitelistInv
BY InitWhitelistInv, NextWhitelistInv, PTL DEF Spec

\* With one operator at a time, one key per host and a coordinator past its
\* first start, every key nodes.json records for a node that is not being
\* removed is in yggdrasil.conf's AllowedPublicKeys, however the shells and
\* containers are killed and the scripts re-run.
THEOREM WhitelistCoversRegistry ==
    ASSUME SingleShell, DistinctHostKeys, ~FirstStart
    PROVE  Spec => []RecordedKeysWhitelisted
<1>1. Spec => []WhitelistInv
    BY WhitelistInvariant
<1>. QED
    BY <1>1, PTL DEF WhitelistInv

=============================================================================
