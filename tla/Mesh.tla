------------------------------- MODULE Mesh -------------------------------
(***************************************************************************)
(* The Yggdrasil whitelist of the coordinator and the node registry        *)
(* nodes.json, as add-storage-node.sh (lines 60-98 and its SQL heredoc)    *)
(* and remove-storage-node.sh (src/unnamed/part_000) change them, with the *)
(* coordinator and storage-node entrypoints that generate the configs and  *)
(* start the daemons.                                                      *)
(*                                                                         *)
(* Each `jq ... FILE > FILE.tmp && mv FILE.tmp FILE` is two steps: jq      *)
(* writes the shared temporary file, mv installs it.  Two scripts run by   *)
(* two operators share both temporary files.  A script may be killed       *)
(* between any two steps; a failing mv (its tmp gone) ends it under set    *)
(* -e.  A failing jq is the left side of `&&` and does not end it.  The    *)
(* daemon reads AllowedPublicKeys only when its container starts; `docker *)
(* restart` re-runs the entrypoint.                                        *)
(*                                                                         *)
(* The SQL heredoc (FDW objects, ATTACH, DETACH) is one step here.  The    *)
(* ATTACH of a foreign table is always refused, because events has a      *)
(* PRIMARY KEY (part_001:64), so no partition state is kept: the database *)
(* part of the state is the history of what the scripts did.  Keys are    *)
(* model values; an empty AllowedPublicKeys lets every node peer.          *)
(***************************************************************************)
EXTENDS FiniteSets, Naturals

CONSTANTS
    Names,          \* node names given to the scripts
    Keys,           \* Yggdrasil public keys
    HostKey,        \* name -> key the storage node's genconf produced
    NoKey,          \* no key: --pubkey omitted, or no entry in nodes.json
    NoFile,         \* a temporary file that does not exist
    Procs,          \* operator shells that may run the scripts at once
    OpMayCrash,     \* TRUE: a script can be killed between two steps
    ContainerMayCrash, \* TRUE: a container can be killed during its entrypoint
    FirstStart      \* TRUE: the coordinator has never started; FALSE: it is up

ASSUME NamesAssumption == Names # {}
ASSUME HostKeyAssumption == HostKey \in [Names -> Keys]
ASSUME SentinelAssumption == NoKey \notin Keys
\* A missing nodes.json.tmp is not a registry nodes.json could hold.
ASSUME NoFileAssumption == NoFile \notin [Names -> Keys \cup {NoKey}]
ASSUME MeshFlagsAssumption ==
    {OpMayCrash, ContainerMayCrash, FirstStart} \subseteq BOOLEAN

VARIABLES
    confExists,   \* yggdrasil.conf exists
    conf,         \* its AllowedPublicKeys
    listen,       \* its Listen was set by the coordinator entrypoint
    cfgTmp,       \* yggdrasil.conf.tmp: its AllowedPublicKeys, or NoFile
    tmpListen,    \* yggdrasil.conf.tmp: its Listen is set
    nodesExists,  \* nodes.json exists
    nodes,        \* nodes.json: name -> key or NoKey
    nodesTmp,     \* nodes.json.tmp: such a function or NoFile
    coordPc,      \* coordinator container: "down", "gen", "jq", "init", "up"
    loaded,       \* AllowedPublicKeys the running daemon read at its start
    storagePc,    \* storage container per name: "down", "gen", "up"
    storageCfg,   \* storage config per name: "none", "open", "closed"
    opPc,         \* per shell: the script step it is at
    opName,       \* per shell: NODE_NAME
    opKey,        \* per shell: STORAGE_PUBKEY (add) or STORED_KEY (remove)
    keyed,        \* names whose last registration ran to Done with --pubkey (history)
    removing,     \* names whose removal started, not finished nor re-keyed since (history)
    removed       \* names whose removal ran to its end, with no add started since (history)

files == <<confExists, conf, listen, cfgTmp, tmpListen, nodesExists, nodes, nodesTmp>>
daemons == <<coordPc, loaded, storagePc, storageCfg>>
ops == <<opPc, opName, opKey>>
db == <<keyed, removing, removed>>
vars == <<files, daemons, ops, db>>

AddSteps == {"a_check", "a_cjq", "a_cmv", "a_njq", "a_nmv", "a_restart", "a_sql"}
RemoveSteps == {"r_read", "r_cjq", "r_cmv", "r_njq", "r_nmv", "r_restart", "r_sql"}

\* The step after each mv.
AfterMv == [s \in {"a_cmv", "r_cmv", "a_nmv", "r_nmv"} |->
              CASE s = "a_cmv" -> "a_njq" [] s = "r_cmv" -> "r_njq"
                [] s = "a_nmv" -> "a_restart" [] s = "r_nmv" -> "r_restart"]

\* No script is running.
AllIdle == \A p \in Procs : opPc[p] = "idle"

\* The coordinator lets key k peer.
Allowed(k) == loaded = {} \/ k \in loaded

-----------------------------------------------------------------------------
\* A fresh install, or one whose coordinator completed its first start.
Init ==
    /\ confExists = ~FirstStart /\ conf = {} /\ listen = ~FirstStart
    /\ cfgTmp = NoFile /\ tmpListen = FALSE
    /\ nodesExists = ~FirstStart /\ nodes = [n \in Names |-> NoKey]
    /\ nodesTmp = NoFile
    /\ coordPc = IF FirstStart THEN "down" ELSE "up"
    /\ loaded = {}
    /\ storagePc = [n \in Names |-> "down"]
    /\ storageCfg = [n \in Names |-> "none"]
    /\ opPc = [p \in Procs |-> "idle"]
    /\ opName = [p \in Procs |-> CHOOSE n \in Names : TRUE]
    /\ opKey = [p \in Procs |-> NoKey]
    /\ keyed = {} /\ removing = {} /\ removed = {}

(***************************************************************************)
(* Coordinator entrypoint.  On a first start genconf writes a config with  *)
(* an empty AllowedPublicKeys, then `jq '.Listen = ...' > CONFIG.tmp && mv` *)
(* rewrites the whole config through the yggdrasil.conf.tmp the scripts   *)
(* also write (one bind-mounted directory); a failed mv ends the           *)
(* entrypoint under set -e.  A config that exists is used as it is.        *)
(* nodes.json is created as {} if missing, and the daemon starts with the  *)
(* config's whitelist.                                                     *)
(***************************************************************************)
CoordGenerate ==
    /\ coordPc = "down" /\ ~confExists
    /\ confExists' = TRUE /\ conf' = {} /\ listen' = FALSE
    /\ coordPc' = "gen"
    /\ UNCHANGED <<cfgTmp, tmpListen, nodesExists, nodes, nodesTmp, loaded, storagePc, storageCfg, ops, db>>

\* jq reads the config as it is now and writes it, with Listen, to the tmp.
CoordJq ==
    /\ coordPc = "gen"
    /\ cfgTmp' = conf /\ tmpListen' = TRUE
    /\ coordPc' = "jq"
    /\ UNCHANGED <<confExists, conf, listen, nodesExists, nodes, nodesTmp, loaded,
                   storagePc, storageCfg, ops, db>>

\* mv installs whatever the tmp holds now; with the tmp gone, set -e ends
\* the entrypoint and the container stops.
CoordMv ==
    /\ coordPc = "jq"
    /\ \/ /\ cfgTmp # NoFile
          /\ conf' = cfgTmp /\ listen' = tmpListen /\ cfgTmp' = NoFile
          /\ coordPc' = "init"
       \/ /\ cfgTmp = NoFile
          /\ coordPc' = "down"
          /\ UNCHANGED <<conf, listen, cfgTmp>>
    /\ UNCHANGED <<confExists, tmpListen, nodesExists, nodes, nodesTmp, loaded,
                   storagePc, storageCfg, ops, db>>

\* Also what `docker restart` of a script does to the coordinator.
CoordBootState ==
    /\ nodesExists' = TRUE
    /\ loaded' = conf
    /\ coordPc' = "up"

CoordBoot ==
    /\ \/ coordPc = "init"
       \/ coordPc = "down" /\ confExists
    /\ CoordBootState
    /\ UNCHANGED <<confExists, conf, listen, cfgTmp, tmpListen, nodes, nodesTmp, storagePc,
                   storageCfg, ops, db>>

CoordKill ==
    /\ ContainerMayCrash /\ coordPc # "down"
    /\ coordPc' = "down"
    /\ UNCHANGED <<files, loaded, storagePc, storageCfg, ops, db>>

(***************************************************************************)
(* Storage-node entrypoint: on a first start genconf writes an open config *)
(* and jq then sets Peers and AllowedPublicKeys = [coordinator key].       *)
(***************************************************************************)
StorageGenerate(n) ==
    /\ storagePc[n] = "down" /\ storageCfg[n] = "none"
    /\ storageCfg' = [storageCfg EXCEPT ![n] = "open"]
    /\ storagePc' = [storagePc EXCEPT ![n] = "gen"]
    /\ UNCHANGED <<files, coordPc, loaded, ops, db>>

StorageConfigure(n) ==
    /\ storagePc[n] = "gen"
    /\ storageCfg' = [storageCfg EXCEPT ![n] = "closed"]
    /\ storagePc' = [storagePc EXCEPT ![n] = "up"]
    /\ UNCHANGED <<files, coordPc, loaded, ops, db>>

StorageBoot(n) ==
    /\ storagePc[n] = "down" /\ storageCfg[n] # "none"
    /\ storagePc' = [storagePc EXCEPT ![n] = "up"]
    /\ UNCHANGED <<files, coordPc, loaded, storageCfg, ops, db>>

StorageKill(n) ==
    /\ ContainerMayCrash /\ storagePc[n] # "down"
    /\ storagePc' = [storagePc EXCEPT ![n] = "down"]
    /\ UNCHANGED <<files, coordPc, loaded, storageCfg, ops, db>>

(***************************************************************************)
(* add-storage-node.sh, step 1.  Shell p is started for node n with        *)
(* --pubkey k, or without it (k = NoKey: warning, straight to the SQL).    *)
(* The operator copies k from the storage node's startup banner.           *)
(***************************************************************************)
Goto(p, s) == opPc' = [opPc EXCEPT ![p] = s]

StartAdd(p, n, k) ==
    /\ opPc[p] = "idle"
    /\ k \in {HostKey[n], NoKey}
    /\ k # NoKey => storagePc[n] = "up"
    /\ opName' = [opName EXCEPT ![p] = n]
    /\ opKey' = [opKey EXCEPT ![p] = k]
    /\ Goto(p, IF k = NoKey THEN "a_sql" ELSE "a_check")
    /\ removed' = removed \ {n}
    /\ UNCHANGED <<files, daemons, keyed, removing>>

\* Mutant of AddCheck: a new key skips the whitelist rewrite.
AddCheckSkipConf(p) ==
    /\ opPc[p] = "a_check"
    /\ \/ ~confExists /\ Goto(p, "idle")
       \/ confExists /\ opKey[p] \in conf /\ Goto(p, "a_sql")
       \/ confExists /\ opKey[p] \notin conf /\ Goto(p, "a_njq")
    /\ UNCHANGED <<files, daemons, opName, opKey, db>>

\* No config: exit 1.  EXISTING: the key is listed, skip to the SQL.
AddCheck(p) ==
    /\ opPc[p] = "a_check"
    /\ \/ ~confExists /\ Goto(p, "idle")
       \/ confExists /\ opKey[p] \in conf /\ Goto(p, "a_sql")
       \/ confExists /\ opKey[p] \notin conf /\ Goto(p, "a_cjq")
    /\ UNCHANGED <<files, daemons, opName, opKey, db>>

\* Mutant of AddConfJq: the node name is passed as the key.
AddConfJqName(p) ==
    /\ opPc[p] = "a_cjq"
    /\ cfgTmp' = conf \cup {opName[p]} /\ tmpListen' = listen
    /\ Goto(p, "a_cmv")
    /\ UNCHANGED <<confExists, conf, listen, nodesExists, nodes, nodesTmp,
                   daemons, opName, opKey, db>>

\* Mutant of AddConfJq: '.AllowedPublicKeys = [$k]' replaces the whitelist.
AddConfJqReplace(p) ==
    /\ opPc[p] = "a_cjq"
    /\ cfgTmp' = {opKey[p]} /\ tmpListen' = listen
    /\ Goto(p, "a_cmv")
    /\ UNCHANGED <<confExists, conf, listen, nodesExists, nodes, nodesTmp,
                   daemons, opName, opKey, db>>

\* jq '.AllowedPublicKeys += [$k]' yggdrasil.conf > yggdrasil.conf.tmp
AddConfJq(p) ==
    /\ opPc[p] = "a_cjq"
    /\ cfgTmp' = conf \cup {opKey[p]} /\ tmpListen' = listen
    /\ Goto(p, "a_cmv")
    /\ UNCHANGED <<confExists, conf, listen, nodesExists, nodes, nodesTmp,
                   daemons, opName, opKey, db>>

\* mv yggdrasil.conf.tmp yggdrasil.conf; with the tmp gone, set -e ends the script.
ConfMv(p) ==
    /\ opPc[p] \in {"a_cmv", "r_cmv"}
    /\ \/ /\ cfgTmp # NoFile
          /\ conf' = cfgTmp /\ listen' = tmpListen /\ cfgTmp' = NoFile
          /\ Goto(p, AfterMv[opPc[p]])
       \/ /\ cfgTmp = NoFile
          /\ Goto(p, "idle")
          /\ UNCHANGED <<conf, listen, cfgTmp>>
    /\ UNCHANGED <<confExists, tmpListen, nodesExists, nodes, nodesTmp, daemons,
                   opName, opKey, db>>

\* Mutant of AddNodesJq: the name -> key record is left out.
AddNodesJqSkipped(p) ==
    /\ opPc[p] = "a_njq"
    /\ Goto(p, "a_restart")
    /\ UNCHANGED <<files, daemons, opName, opKey, db>>

(***************************************************************************)
(* jq '.[$name] = $key' nodes.json > nodes.json.tmp.  Without nodes.json   *)
(* jq fails; `&&` skips the mv and the script goes on.                     *)
(***************************************************************************)
AddNodesJq(p) ==
    /\ opPc[p] = "a_njq"
    /\ \/ /\ nodesExists
          /\ nodesTmp' = [nodes EXCEPT ![opName[p]] = opKey[p]]
          /\ Goto(p, "a_nmv")
       \/ /\ ~nodesExists
          /\ Goto(p, "a_restart")
          /\ UNCHANGED nodesTmp
    /\ UNCHANGED <<confExists, conf, listen, cfgTmp, tmpListen, nodesExists, nodes,
                   daemons, opName, opKey, db>>

\* mv nodes.json.tmp nodes.json; with the tmp gone, set -e ends the script.
NodesMv(p) ==
    /\ opPc[p] \in {"a_nmv", "r_nmv"}
    /\ \/ /\ nodesTmp # NoFile
          /\ nodes' = nodesTmp /\ nodesTmp' = NoFile
          /\ Goto(p, AfterMv[opPc[p]])
       \/ /\ nodesTmp = NoFile
          /\ Goto(p, "idle")
          /\ UNCHANGED <<nodes, nodesTmp>>
    /\ UNCHANGED <<confExists, conf, listen, cfgTmp, tmpListen, nodesExists, daemons,
                   opName, opKey, db>>

\* docker restart: the coordinator entrypoint runs again on the existing
\* config (lines 8-18 are skipped) and the script goes on to its SQL.  A
\* failing docker restart ends the script under set -euo pipefail: that is
\* OpCrash at "a_restart" or "r_restart".
Restart(p) ==
    /\ opPc[p] \in {"a_restart", "r_restart"}
    /\ CoordBootState
    /\ Goto(p, IF opPc[p] = "a_restart" THEN "a_sql" ELSE "r_sql")
    /\ UNCHANGED <<confExists, conf, listen, cfgTmp, tmpListen, nodes, nodesTmp,
                   storagePc, storageCfg, opName, opKey, db>>

(***************************************************************************)
(* Step 2: psql runs the heredoc without ON_ERROR_STOP, each statement in  *)
(* its own transaction.  The CREATE ... IF NOT EXISTS statements succeed.  *)
(* PostgreSQL refuses to attach a foreign table to a partitioned table     *)
(* with a unique index, and events has PRIMARY KEY (id, event_created_at), *)
(* so the ATTACH fails whatever the range; psql still exits 0 and the      *)
(* script prints Done.  The node is now registered with its --pubkey, or  *)
(* without one.                                                            *)
(***************************************************************************)
AddSql(p) ==
    /\ opPc[p] = "a_sql"
    /\ LET n == opName[p] IN
       /\ keyed' = IF opKey[p] # NoKey THEN keyed \cup {n} ELSE keyed \ {n}
       /\ removing' = IF opKey[p] # NoKey THEN removing \ {n} ELSE removing
    /\ Goto(p, "idle")
    /\ UNCHANGED <<files, daemons, opName, opKey, removed>>

(***************************************************************************)
(* remove-storage-node.sh.  With both files present, STORED_KEY is         *)
(* nodes.json's entry for n (`// empty`); an entry leads to the whitelist  *)
(* and registry rewrites and a restart, no entry straight to the DETACH.   *)
(***************************************************************************)
StartRemove(p, n) ==
    /\ opPc[p] = "idle"
    /\ opName' = [opName EXCEPT ![p] = n]
    /\ Goto(p, "r_read")
    /\ removing' = removing \cup {n}
    /\ UNCHANGED <<files, daemons, opKey, keyed, removed>>

\* Mutant of RemoveRead: the whitelist is never looked at.
RemoveReadSkip(p) ==
    /\ opPc[p] = "r_read"
    /\ opKey' = [opKey EXCEPT ![p] = NoKey]
    /\ Goto(p, "r_sql")
    /\ UNCHANGED <<files, daemons, opName, db>>

RemoveRead(p) ==
    /\ opPc[p] = "r_read"
    /\ LET stored == IF nodesExists /\ confExists THEN nodes[opName[p]] ELSE NoKey
       IN  /\ opKey' = [opKey EXCEPT ![p] = stored]
           /\ Goto(p, IF stored # NoKey THEN "r_cjq" ELSE "r_sql")
    /\ UNCHANGED <<files, daemons, opName, db>>

\* jq '.AllowedPublicKeys -= [$k]' yggdrasil.conf > yggdrasil.conf.tmp
RemoveConfJq(p) ==
    /\ opPc[p] = "r_cjq"
    /\ cfgTmp' = conf \ {opKey[p]} /\ tmpListen' = listen
    /\ Goto(p, "r_cmv")
    /\ UNCHANGED <<confExists, conf, listen, nodesExists, nodes, nodesTmp,
                   daemons, opName, opKey, db>>

\* jq 'del(.[$name])' nodes.json > nodes.json.tmp (nodes.json is never deleted).
RemoveNodesJq(p) ==
    /\ opPc[p] = "r_njq"
    /\ nodesTmp' = [nodes EXCEPT ![opName[p]] = NoKey]
    /\ Goto(p, "r_nmv")
    /\ UNCHANGED <<confExists, conf, listen, cfgTmp, tmpListen, nodesExists, nodes,
                   daemons, opName, opKey, db>>

\* Step 2: DETACH PARTITION ... CONCURRENTLY, then the FDW drops.  The
\* DETACH fails, since the refused ATTACH left no partition to detach;
\* psql goes on, the drops succeed, and it exits 0.
RemoveSql(p) ==
    /\ opPc[p] = "r_sql"
    /\ LET n == opName[p] IN
       /\ keyed' = keyed \ {n}
       /\ removing' = removing \ {n}
       /\ removed' = removed \cup {n}
    /\ Goto(p, "idle")
    /\ UNCHANGED <<files, daemons, opName, opKey>>

\* The operator's shell is killed (Ctrl-C, lost session) between two steps.
OpCrash(p) ==
    /\ OpMayCrash /\ opPc[p] # "idle"
    /\ Goto(p, "idle")
    /\ UNCHANGED <<files, daemons, opName, opKey, db>>

\* The steps of a running script.
ScriptStep(p) ==
    \/ AddCheck(p) \/ AddConfJq(p) \/ AddNodesJq(p) \/ AddSql(p)
    \/ RemoveRead(p) \/ RemoveConfJq(p) \/ RemoveNodesJq(p) \/ RemoveSql(p)
    \/ ConfMv(p) \/ NodesMv(p) \/ Restart(p)

Next ==
    \/ CoordGenerate \/ CoordJq \/ CoordMv \/ CoordBoot \/ CoordKill
    \/ \E n \in Names :
          StorageGenerate(n) \/ StorageConfigure(n) \/ StorageBoot(n) \/ StorageKill(n)
    \/ \E p \in Procs :
          \/ \E n \in Names, k \in Keys \cup {NoKey} : StartAdd(p, n, k)
          \/ \E n \in Names : StartRemove(p, n)
          \/ ScriptStep(p)
          \/ OpCrash(p)

Spec == Init /\ [][Next]_vars

-----------------------------------------------------------------------------
(***************************************************************************)
(* Properties.                                                             *)
(***************************************************************************)

\* Every file, tmp file, daemon and shell variable ranges over its type.
TypeOK ==
    /\ confExists \in BOOLEAN /\ listen \in BOOLEAN /\ nodesExists \in BOOLEAN
    /\ tmpListen \in BOOLEAN
    /\ conf \subseteq Keys
    /\ cfgTmp = NoFile \/ cfgTmp \subseteq Keys
    /\ nodes \in [Names -> Keys \cup {NoKey}]
    /\ nodesTmp \in [Names -> Keys \cup {NoKey}] \cup {NoFile}
    /\ coordPc \in {"down", "gen", "jq", "init", "up"}
    /\ loaded \subseteq Keys
    /\ storagePc \in [Names -> {"down", "gen", "up"}]
    /\ storageCfg \in [Names -> {"none", "open", "closed"}]
    /\ opPc \in [Procs -> {"idle"} \cup AddSteps \cup RemoveSteps]
    /\ opName \in [Procs -> Names]
    /\ opKey \in [Procs -> Keys \cup {NoKey}]
    /\ keyed \subseteq Names
    /\ removing \subseteq Names /\ removed \subseteq Names

\* A key nodes.json records for a node that is not being removed is in the
\* whitelist file: registration writes the whitelist before the registry
\* and removal the registry after the whitelist, whatever is killed when.
RecordedKeysWhitelisted ==
    \A n \in Names : nodes[n] # NoKey /\ n \notin removing => nodes[n] \in conf

\* When no script runs, every whitelisted key is recorded in nodes.json
\* under some name, so that remove-storage-node.sh can revoke it.
WhitelistRecorded ==
    AllIdle => \A k \in conf : \E n \in Names : nodes[n] = k

\* A node registered with --pubkey, and not being removed, can peer with
\* the running coordinator daemon (the registration promise).
RegisteredReachable ==
    \A n \in keyed \ removing : Allowed(HostKey[n])

\* When no script runs, a removed node's key is no longer loaded by the
\* daemon, unless a registered node has the same key ("Removes it from
\* AllowedPublicKeys and restarts Yggdrasil").
RevokedOnRemoval ==
    AllIdle =>
        \A n \in removed :
            HostKey[n] \notin loaded \/ \E m \in keyed : HostKey[m] = HostKey[n]

\* A running daemon runs with the config its entrypoint meant to write: the
\* coordinator listens for peers, a storage node admits only the coordinator.
EntrypointsConfigured ==
    /\ coordPc = "up" => listen
    /\ \A n \in Names : storagePc[n] = "up" => storageCfg[n] = "closed"

=============================================================================
