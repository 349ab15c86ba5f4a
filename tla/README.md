# TLA+ models of nostream's distributed storage

This directory holds TLA+ models of the distributed-storage tooling of
nostream, described in `src/DISTRIBUTED-STORAGE.md`. It has TLC
configurations that check those models on small instances, and TLAPS proofs
that hold for every value of the constants.

## The system

The relay stores events in a PostgreSQL table `events`. The migration in
`src/unnamed/part_001` turns `events` into a table partitioned by
`event_created_at`. Its one local partition, `events_hot`, covers
`MINVALUE..MAXVALUE`. The row trigger `insert_event_tags`
(`process_event_tags`) keeps the flat table `event_tags` in step with every
insert, update and delete.

Storage nodes are separate PostgreSQL hosts. They are reached over a
Yggdrasil mesh and are meant to be attached as `postgres_fdw` foreign
partitions. The parts are these:

| Part | Source | State it changes |
|---|---|---|
| Partitioning migration, tag trigger | `src/unnamed/part_001` | `events`, `events_hot`, `event_tags` |
| Registration (`add-storage-node.sh`) | `src/scripts/add-storage-node.sh` 1-156 | whitelist in `yggdrasil.conf`, `nodes.json`, running daemon, FDW server, foreign table, partition bounds |
| Archive mover (`archive-events.sh`) | same file, 158-390 | rows of `events_hot`, the node's `events_data`, `event_tags` |
| Storage node schema | same file, 391-424 | `events_data` with a unique `event_id` |
| Removal (`remove-storage-node.sh`) | `src/unnamed/part_000` | whitelist, `nodes.json`, the partition, the FDW objects |
| Yggdrasil entrypoints | `src/docker/yggdrasil/*.sh` | the config generated on first start, the whitelist loaded at start |
| Message dispatch | `src/unnamed/part_002` | none: it picks a handler |
| `add-users.ts` | `src/scripts/add-users.ts` | one user row |

The parts interact in a fixed sequence:

1. The operator registers a node. This changes the whitelist, restarts the
   daemon and tries to attach a range partition.
2. The operator archives old rows from `events_hot` into that node's foreign
   table while the relay keeps inserting.
3. The operator may narrow `events_hot`, and later remove the node.

Every script step is its own psql statement, so it is its own transaction.
Any script can be killed between two of them.

## What is modelled

### `ArchiveEvents` (the archive mover)

The state has two parts.

The tables:
- `hot` holds the rows of `events_hot`.
- `remote` holds the node's `events_data`.
- `tags` holds the events that have `event_tags` rows.
- `accepted` is a history variable: every event ever stored.

The script's shell variables:
- `pc`
- `batchStart` and `batchEnd` (`BATCH_START`, `BATCH_END`)
- `windowCount` (`WINDOW_COUNT`)
- `subOffset` (`SUB_OFFSET`)
- `archived` and `deleted` (`ARCHIVED`, `DELETED`)

An event is a model value. Its partition key is `CreatedAt[e]`. A table is a
set of events, because both `events_hot` and `events_data` have a unique
index on `event_id`.

Each action is one statement, or one stretch of shell code, of the script:

| Action | Code |
|---|---|
| `RelayInsert(e)` | a relay insert into `events`, with the AFTER INSERT trigger that adds the tag rows |
| `Plan` | the partition check, `TOTAL`, `MIN_TS` and the plan; `TOTAL = 0` is a stutter |
| `Confirm`, `Abort` | the `[y/N]` prompt, and the loop setup |
| `OpenWindow`, `SkipEmptyWindow`, `EndLoop` | the loop head: `BATCH_END` clamped to the cutoff, `WINDOW_COUNT`, `continue` on an empty window, and the exit |
| `CopySubBatch` | one `INSERT ... SELECT ... ORDER BY ... LIMIT/OFFSET ... ON CONFLICT (event_id) DO NOTHING` into the foreign table, with the counter updates, whether or not the INSERT fails |
| `DeleteWindow` | the window `DELETE` with the AFTER DELETE trigger that removes the tag rows; a failing DELETE counts 0 |
| `Report` | the closing report |
| `Crash` | a kill at any point, or a failing count query under `set -e`; the shell variables are lost and committed statements stay |

Ties in `ORDER BY event_created_at` are modelled by `SortedOrders`. Every
sub-batch statement may read the window in any order that respects the
timestamps. `SubBatch` is `LIMIT BatchSize OFFSET subOffset` of that order.

The constants switch on the environment's misbehaviour:
- `CopyMayFail`: a failing INSERT.
- `DeleteMayFail`: a failing DELETE.
- `LateInserts`: relay inserts below the cutoff.

As the code stands, the INSERT fails every time. Its conflict target
`(event_id)` must be inferred from a unique index of the target table, and
the foreign table `events_archive_<name>` has none: the index is on the
node's `events_data`. `|| echo 0` swallows the error. So the code is the
instance with `CopyMayFail` and no successful copy. `archive_copy_fail`
shows what follows: every window is deleted uncopied. The runs with
`CopyMayFail = FALSE` check the loop as it would behave with that target
dropped (plain `ON CONFLICT DO NOTHING` is allowed on a foreign table).

### Properties of `ArchiveEvents`

- `TypeOK`: the type invariant. It also says that the window never passes
  the cutoff.
- `NoEventLost`: every event ever accepted is in `events_hot` or on the
  node. This is the script's header promise: "Data is NEVER deleted from
  events_hot until it is confirmed present on the remote". It must hold
  across kills, re-runs and sub-batches.
- `ArchiveComplete`: when a run reaches its report, every row below the
  cutoff still in `events_hot` is also on the node. It breaks if the windows
  do not cover `[MIN_TS, CUTOFF)`, or if a window is not copied in full.
- `TagsRetained`: archived rows keep their `event_tags` rows. The
  migration's header promises this.
- `Termination`: a confirmed run reaches its end, or is killed.

Two defects were found while modelling and are not given runs. Both are
hazards in `PROJECT.json`.
- `ARCHIVED` grows by `BATCH_SIZE`, not by the rows copied. So the report's
  "counts differ" warning fires even with nothing concurrent.
- `--batch-size 0` is accepted, and then the sub-batch loop never advances.
  `Termination` would catch it, but the passing run uses `BATCH_SIZE` 1.

### `ArchiveMover` (what the archive job promises)

`ArchiveMover` is an abstract specification with only the four tables:
`events_hot`, its tags, the node's `events_data` and the events the relay
accepted. It has no windows, pages, counters or kills. A table changes in
one of three ways only:
- `Accept(e)`: the relay stores an event. An event older than the cutoff
  arrives only with `LateInserts`.
- `Copy(S)`: some rows of `events_hot` below the cutoff are copied to the
  node.
- `Evict(S)`: some rows below the cutoff that the node already holds leave
  `events_hot`, and the tag trigger drops their tags.

`ScopeSpec` is a weaker promise: rows leave `events_hot` by `Discard(S)`,
which asks only that they are below the cutoff, whether or not the node
holds them. `Evict(S)` is `Discard(S)` for rows the node holds.

`ArchiveRefinement` maps the job onto both by the identity on the four
tables, with the shell variables hidden:
- `MoverSpec` is `ArchiveMover`'s `Spec` under that mapping. It holds only
  when the INSERTs succeed. `archive_safe` checks it as a PROPERTY, and
  `archive_copy_fail` shows that a failing INSERT breaks it.
- `MoverScope` is `ScopeSpec` under that mapping. It holds whatever fails:
  the job copies and deletes only rows below its cutoff. That rests on the
  clamp of `BATCH_END` to `CUTOFF`. `archive_safe` checks it, and
  `ArchiveWithinScope` proves it.

### `Mesh` (the whitelist, the registry and the entrypoints)

`Mesh` models the files and daemons that decide who may peer with whom.

**Files:**
- `confExists`, `conf` and `listen`: the coordinator's `yggdrasil.conf`,
  with its `AllowedPublicKeys` and whether `Listen` was set.
- `cfgTmp` and `tmpListen`: `yggdrasil.conf.tmp`, with its whitelist and
  whether its `Listen` is set.
- `nodesExists` and `nodes`: `nodes.json`, a map from name to key.
- `nodesTmp`: `nodes.json.tmp`.

**Daemons:**
- `coordPc`: the coordinator container.
- `loaded`: the whitelist its daemon read at its last start.
- `storagePc` and `storageCfg`: each storage node's container and config.

**Shells:** for each operator shell, `opPc`, `opName` and `opKey`.

**Database** (history sets):
- `keyed`: names whose last registration ran to `Done` with `--pubkey`.
- `removing`: names whose removal started.
- `removed`: names whose removal ran to its end, with no add started since.

Names, keys and shells are model values. `HostKey` maps each name to the
key its host generated.

No partition state is kept. The ATTACH is always refused, whatever the
range: `events` has `PRIMARY KEY (id, event_created_at)` (`part_001` line
64), and PostgreSQL cannot attach a foreign table to a partitioned table
with a unique index. psql runs the heredoc without `ON_ERROR_STOP`, so it
exits 0 and the script prints `Done` for a node that owns no data. The
spec's "all four systems must agree" is broken on every registration.
That is a rule of PostgreSQL's DDL, true in every state, so it has no run.

Each `jq ... f > f.tmp && mv f.tmp f` of the scripts is two actions:
- jq writes the shared tmp file;
- mv installs it, or, with the tmp gone, ends the script under `set -e`.

A jq that fails (no `nodes.json` yet) skips its mv, and the script goes on.
The coordinator entrypoint's own `jq .Listen ... > yggdrasil.conf.tmp && mv`
(lines 13-15) goes through the same tmp file, and its failed mv stops the
container.

| Action | Code |
|---|---|
| `StartAdd(p, n, k)` | `add-storage-node.sh` arguments; without `--pubkey` straight to the SQL |
| `AddCheck` | the config check (exit 1) and the `EXISTING` test that skips step 1 |
| `AddConfJq`, `ConfMv` | `.AllowedPublicKeys += [$k]` and its mv |
| `AddNodesJq`, `NodesMv` | `.[$name] = $key` and its mv |
| `Restart` | `docker restart`: the coordinator entrypoint runs again on the existing config and the daemon loads its whitelist; a failing `docker restart` ends the script under `set -e`, which is `OpCrash` at that step |
| `AddSql` | the psql heredoc as one step: the `IF NOT EXISTS` statements succeed and `ATTACH PARTITION` is refused; psql has no `ON_ERROR_STOP`, so it exits 0 and the script prints `Done` |
| `StartRemove`, `RemoveRead` | `remove-storage-node.sh` arguments and `STORED_KEY` (`// empty`) |
| `RemoveConfJq`, `RemoveNodesJq` | `-= [$k]` and `del(.[$name])` |
| `RemoveSql` | `DETACH PARTITION` and the drops, as one step: the DETACH fails on the partition that was never attached, psql goes on and the drops succeed |
| `OpCrash(p)` | the operator's shell is killed between two steps |
| `CoordGenerate`, `CoordJq`, `CoordMv`, `CoordBoot`, `CoordKill` | the coordinator entrypoint: genconf only if the config is missing; the jq that writes the config with `Listen` set into `yggdrasil.conf.tmp`; its mv, which stops the container when the tmp file is gone; `nodes.json` created and the daemon start; and a kill |
| `StorageGenerate`, `StorageConfigure`, `StorageBoot`, `StorageKill` | the storage entrypoint: genconf (open to all), the jq that sets `Peers` and `AllowedPublicKeys`, start, and a kill |

The constants switch on the environment's misbehaviour:
- `OpMayCrash`: shells may be killed.
- `ContainerMayCrash`: containers may be killed.
- `FirstStart`: the coordinator has not yet started; otherwise it is up.
  When it has not, a script can run before `nodes.json` exists, and
  alongside the entrypoint's own rewrite of `yggdrasil.conf`.

The properties:
- `TypeOK`.
- `RecordedKeysWhitelisted`: a key that `nodes.json` records for a node not
  being removed is in `AllowedPublicKeys`.
- `WhitelistRecorded`: when no script runs, every whitelisted key is
  recorded under some name. Otherwise removal can never revoke it.
- `RegisteredReachable`: a node registered with `--pubkey` can peer with the
  running daemon. An empty whitelist admits everyone.
- `RevokedOnRemoval`: when no script runs, a removed node's key is no longer
  loaded, unless a node registered with `--pubkey` has the same key.
- `EntrypointsConfigured`: a running coordinator listens, and a running
  storage node admits only the coordinator.

### `AddUsers` (`add-users.ts`)

`AddUsers` models the whole script for a set `Invocations` of runs that
may overlap and share only the users table. Per run: `pc`, `arg`
(`process.argv[2]`, a model value with a length, or `NoArg`) and
`exitCode`. Shared: `admitted`, the pubkeys whose row has
`is_admitted = true`.

| Action | Code |
|---|---|
| `Validate(i)` | lines 6-25: the `!pubkey \|\| length !== 64` check (usage, exit 1), then the pool and the record |
| `Upsert(i)` | line 27 and the `.catch` handler: the awaited upsert commits; or rejects without committing (`UpsertMayFail`); or commits and its reply is lost (`AckMayBeLost`), exit 1 |
| `Destroy(i)` | lines 29-33: the log, `dbClient.destroy()` and exit 0; a rejected destroy goes to the `.catch` handler, exit 1 |

The hex alphabet is not modelled: the code never looks at it, so a
64-character non-hex argument is admitted (a hazard in `PROJECT.json`).

Properties:
- `TypeOK`: the table only holds 64-character pubkeys.
- `SuccessMeansAdmitted`: a run that exits 0 has its pubkey admitted. The
  converse does not hold: a lost reply or a failing destroy exits 1 with
  the user admitted.
- `AdmissionSpec`: the script implements `UserAdmission`, an abstract
  specification of what a run promises, with `pc` hidden. A run ends once,
  with 0 or 1. Only a run still going admits a pubkey, and only its own
  checked one. It may admit the pubkey and still end with 1. It ends with 0
  only when the pubkey is admitted.

## Runs

`MCArchiveEvents` uses:
- four events, with timestamps 0, 1, 2 and 3;
- `Cutoff = 3` and `BatchWindow = 2`, which give the windows `[0,2)` and
  `[2,3)`. The second one is clamped, and it is empty when `e3` is not
  stored.
- `BatchSize = 1`, so the first window takes two sub-batches.

These bounds make every interesting case happen:
- a clamp;
- an empty window;
- a window that takes several pages;
- a kill between copy and delete;
- a relay insert during the job.

The initial `events_hot` is any subset of the events.

`MCMesh` uses two names with distinct keys. Two names let one key stay
listed while another is added or removed, so an empty, open whitelist
cannot hide a missing key. Some runs use variants:
- one name with two shells, for the races on the tmp files;
- one name with everything killed;
- one name and one shell during the coordinator's first start.

The second variant is one name because two names with container kills
reach 9 million states. The runs with `FirstStart = FALSE` start from a
coordinator that is up, with its config and `nodes.json` written.

| Run | Expect | Shows |
|---|---|---|
| `archive_safe` | pass | `TypeOK`, `NoEventLost`, `ArchiveComplete`, `Termination` hold when copies succeed, timestamps are distinct and no old event arrives during the job. Deletes may fail and the script may be killed anywhere. The inductive invariant `ArchiveInv` of the conditional lemmas holds too. The job implements the abstract mover (`MoverSpec`) and stays within its cutoff (`MoverScope`). |
| `archive_copy_fail` | violation of `NoEventLost` | a failed copy is swallowed by `\|\| echo 0` and the window is deleted anyway; with the conflict target on a foreign table, every copy fails |
| `archive_ties` | violation of `NoEventLost` | with two rows at one timestamp, two LIMIT/OFFSET pages return the same row; the other is deleted uncopied |
| `archive_tags` | violation of `TagsRetained` | the window DELETE fires the tag trigger, and archived events lose their tag rows |
| `mesh_sequential` | pass | one operator, nothing killed, a coordinator that is up: `RegisteredReachable`, `WhitelistRecorded`, `RevokedOnRemoval` |
| `mesh_crash` | pass | a coordinator that is up, with shells and containers killed anywhere and scripts re-run: `RecordedKeysWhitelisted` and the proof's `WhitelistInv` |
| `mesh_concurrent` | pass | two shells, killed anywhere, during the coordinator's first start with containers killed: `TypeOK` |
| `mesh_rerun_unloaded` | violation of `RegisteredReachable` | a registration killed after the whitelist mv and re-run finds the key listed, skips the restart, and the daemon never loads the key |
| `mesh_two_operators` | violation of `RecordedKeysWhitelisted` | two registrations at once lose one key through the shared `yggdrasil.conf.tmp` |
| `mesh_entrypoint_crash` | violation of `EntrypointsConfigured` | a container killed between genconf and its jq rewrite keeps the unedited config forever: no `Listen`, or a storage node open to all |
| `mesh_first_start` | violation of `RecordedKeysWhitelisted` | one registration during the coordinator's first start, nothing killed: the entrypoint's jq overwrites the script's `yggdrasil.conf.tmp`, the script's mv installs the entrypoint's copy, the entrypoint's mv fails and stops the container, and the key the script records was never whitelisted |
| `addusers_safe` | pass | two overlapping runs, valid and short arguments, failing and reply-losing upserts, failing destroys: `TypeOK`, `SuccessMeansAdmitted`, `AdmissionSpec` |

Every violation is a finding listed in `PROJECT.json`.

Three cases were checked while modelling and have no run of their own:
- a removal killed after its `nodes.json` mv and before `docker restart`
  is re-run, finds no stored key and skips the restart; and an add killed
  between its two mv leaves a listed key that no removal finds. Both break
  `RevokedOnRemoval`. They are the removal's form of the re-run defect
  that `mesh_rerun_unloaded` shows.
- two names for one host share its key; removing one revokes the key the
  other needs (`RegisteredReachable`). The runs take distinct host keys.
- a relay insert into a window after its copy is deleted with the window
  (`NoEventLost`). The spec (section 4.5) accepts late inserts into an
  archived range, so `archive_safe` leaves them out.

**Fairness.** `ArchiveEvents!FairSpec` puts weak fairness on the loop's
actions only. Once the operator has confirmed, the script waits on nothing
but its own statements. No fairness is assumed for the operator (`Plan`,
`Confirm`), for the relay, or for `Crash`. The `Mesh` runs check safety
only and use `Spec`.

**Deadlock.** Deadlock is not checked.
- An archive with nothing left to do only stutters.
- The mesh is at rest when no script runs and every container is up, or
  when a coordinator whose entrypoint failed stays down.

`Termination` covers the stall that matters in the archive loop.

**Mutants.** Each property of a passing run is broken by a plausible bug in
the code it names:

| Property | Mutant |
|---|---|
| `TypeOK` (archive) | `WindowEndUnclamped`: the clamp is dropped |
| `NoEventLost` | `DeleteWindowEarly`: the delete runs before the copy loop ends |
| `ArchiveComplete` | `EndLoopEarly`: the loop test is off by one |
| `Termination` | `SkipEmptyWindowStuck`: `continue` without advancing the window |
| `ArchiveInv` | `OpenWindowCountShort`: `WINDOW_COUNT` is one short |
| `MoverSpec` | `DeleteWindowEarly`: the window's DELETE is an eviction of rows the node does not hold |
| `MoverScope` | `WindowEndUnclamped`: the last window runs past the cutoff, and rows the job must keep are copied and deleted |
| `TypeOK` (mesh) | `AddConfJqName`: jq is given the name for the key |
| `RecordedKeysWhitelisted` | `AddCheckSkipConf`: a new key skips the whitelist rewrite |
| `WhitelistInv` | `RemoveReadSkip`: removal never looks the key up |
| `RegisteredReachable` | `AddConfJqReplace`: `.AllowedPublicKeys = [$k]` replaces the whitelist instead of appending |
| `WhitelistRecorded` | `AddNodesJqSkipped`: the registry write is left out |
| `RevokedOnRemoval` | `RemoveReadSkip` |
| `TypeOK` (add-users) | `ValidateNoLength`: only a missing argument is refused |
| `SuccessMeansAdmitted` | `UpsertNotAwaited`: the upsert promise is not awaited |
| `AdmissionSpec` | `UpsertNotAwaited` |

## What is proved

`ArchiveEventsProofs` proves `TypeCorrect == Spec => []TypeOK` for every
finite set of events and every natural cutoff, window and batch size, under
the assumptions of `ArchiveEvents`:
- `Events` is finite.
- `CreatedAt \in [Events -> Nat]`.
- `Cutoff`, `BatchWindow` and `BatchSize` are in `Nat`.
- The three flags are Boolean.

The proof has these parts:
- `TypeOK` is inductive, with one proof step per action.
- Three lemmas cover the helpers:
  - `WindowFinite`: a window is a finite subset of `Events`, so its
    `COUNT(*)` is a natural number.
  - `WindowEndType`: the clamped `BATCH_END` stays in `0..Cutoff`.
  - `SubBatchType`: a page is a subset of its window.
- `MIN_TS` is stated as the existential `IsEarliest`, not as a `CHOOSE`,
  so the type proof needs no induction over the set.

`MeshProofs` proves two theorems, for any sets of names, keys and shells.

The first is `TypeCorrect == Spec => []TypeOK`. `TypeOK` alone is not
inductive. The strengthening `TypeInv` adds that a shell at `a_check` or
`a_cjq` holds a real key, because jq writes that key into the tmp file.

The second is `WhitelistCoversRegistry`:
- assuming `SingleShell` (one operator shell at a time),
  `DistinctHostKeys` and `~FirstStart` (the coordinator is past its first
  start),
- it proves `Spec => []RecordedKeysWhitelisted`,
- with shells and containers killed anywhere, scripts re-run, and any
  number of nodes.

Each assumption excludes a way the property breaks:
- `mesh_two_operators` breaks it with two shells;
- `mesh_first_start` breaks it during the first start, with nothing killed;
- two names sharing a host key break it when one is removed.

The inductive invariant `WhitelistInv` has four parts:
- `CoordInstalled`: the config exists and the entrypoint is past its jq and
  mv. The lemma `CoordInstalledStable` shows that no step undoes it: a boot
  or a restart finds the config and skips lines 8-18. Only the scripts
  write `yggdrasil.conf.tmp` from then on.
- `FilesInv`: a recorded key is its name's host key.
- `ShellInv(p)`: what the shell's earlier steps established about the file
  it is about to install:
  - the tmp file is the config plus or minus its key;
  - `nodes.json.tmp` is `nodes.json` with its entry changed;
  - its key is already listed from `a_njq` on;
  - its name is in `removing` during a removal;
  - the entry is gone by `r_restart`.
- `RecordedKeysWhitelisted` itself.

Without `ShellInv`, an `mv` could install any content. The removal's
whitelist `mv` keeps the property only because the key it deletes is the
host key of a name being removed, and no other name has it.
`WhitelistInvariant` states `Spec => []WhitelistInv` under the same
assumptions, and `mesh_crash` checks `WhitelistInv` on its instance.

`AddUsersProofs` proves `AddUsersTypeCorrect == Spec => []TypeOK` and
`SuccessImpliesAdmitted == Spec => []SuccessMeansAdmitted` for any runs,
arguments and failure flags. Neither is inductive alone. The invariant
`IInv` adds, per run: at `upsert` or `destroy` the argument passed the
length check; at `destroy` it is already admitted; after exit 0 it is
admitted. The table only grows, so no other run can undo the last two.

`AddUsersImplementsAdmission == Spec => AdmissionSpec` is the refinement
of `UserAdmission`, for the same range of constants. The mapping is the
identity on `arg`, `admitted` and `exitCode`. Its invariant `RunInv` adds
to `IInv` that a run is `"done"` exactly when it has an exit status. The
lemma `StepRefines` maps each step:
- a failed check is a `Fail`;
- an upsert, committed or not, with or without its reply, is an `Admit`
  or a `Fail`;
- a destroy is a `Succeed`, because at `destroy` the key is admitted, or a
  `Fail`.

`ArchiveRefinement` proves `ArchiveWithinScope == Spec => MoverScope`,
with no hypothesis beyond the assumptions on the constants. So for every
finite set of events and every cutoff, window and batch size, across
failed INSERTs, failed DELETEs, kills, re-runs and relay inserts, the job
implements `ArchiveMover`'s `ScopeSpec`. The proof has three steps:
- an initial state of the job is one of the mover;
- `TypeOK` holds, by `TypeCorrect`; in particular `BATCH_END <= CUTOFF`;
- under `TypeOK`, each step of the job is a step of `ScopeNext` or leaves
  the tables alone (`NextWithinScope`).

In `NextWithinScope`:
- a relay insert is an `Accept`;
- a successful sub-batch copy is a `Copy` of its page, which lies in the
  window, below the cutoff (`SubBatchType`, `WindowInScope`);
- a successful window DELETE is a `Discard` of the whole window;
- a failed INSERT, a failed DELETE and every other step are stutters.

**Copy before delete is not claimed as a theorem.** `NoEventLost`,
`ArchiveComplete` and `MoverSpec` hold only when every sub-batch INSERT
succeeds, and in the code none does (see `ArchiveEvents` above). The
lemmas `InitArchiveInv` and `NextArchiveInv` of `ArchiveEventsProofs`
prove the inductive invariant `ArchiveInv` under `CopyConditions`:
- every sub-batch copy succeeds (`~CopyMayFail`);
- no row older than the cutoff arrives during the job (`~LateInserts`);
- no two events share a `created_at` (`DistinctTimestamps`).

They say what the loop would guarantee with the conflict target dropped.
The code does not meet the first condition, so no theorem about the code
rests on them. `ArchiveInv` adds three facts to `TypeOK`:
- `CopiedBelowStart`: every hot event older than `BATCH_START` is already
  in the archive;
- `CopiedPrefix`: in the copy loop, `WINDOW_COUNT` is the window's size,
  and every event whose rank in the window (1 for the oldest) is at most
  `SUB_OFFSET` is archived;
- `LoopDone`: at the report, `BATCH_START` has reached the cutoff.

Lemmas about the sorted page order carry the argument:
- `SortedOrderOnto`: each row of the window is the k-th row for some k. It
  rests on `FS_Injection` of the library's `FiniteSetTheorems`.
- `SortedOrderRank`: with distinct timestamps, the k-th row has rank k.
  So the pages `OFFSET SUB_OFFSET LIMIT BATCH_SIZE` extend the archived
  prefix exactly.
- `RankBounds`: a rank lies in `1..COUNT(*)`.

**Registration theorems are not claimed either.** `RegisteredReachable`,
`WhitelistRecorded` and `RevokedOnRemoval` hold only with shells that are
never killed. A proof under that hypothesis would exclude the case that
matters, which `mesh_rerun_unloaded` shows.

So these properties are only model-checked: on `mesh_sequential`, and by
the violation runs.

Only TLC checks the following:
- `Termination`. TLAPS does not reason about liveness under fairness or
  about `ENABLED`.
- `NoEventLost`, `ArchiveComplete`, `ArchiveInv` and `MoverSpec`, on
  instances where the copies succeed.
- `RegisteredReachable`, `WhitelistRecorded` and `RevokedOnRemoval`, on
  an instance with no kills.
- `EntrypointsConfigured`, `TagsRetained` and the other
  properties of the violation runs, which the code breaks.

## What is not modelled, and the plan

Not modelled, because nothing in them can interleave or fail halfway:
- message dispatch (`part_002`) is a stateless switch;
- the dry run, the timing estimate and the `echo` output change nothing.

The SQL of registration is one step in `Mesh`, whose ATTACH is refused.
The SQL of removal is one step, whose DETACH fails on the partition that was
never attached. Partition ranges and the narrowing of `events_hot` are not
modelled: no foreign table can become a partition of `events` as long as
it has a primary key.
`UserRepository` and the database pool of `add-users.ts` are not in this
repository; the upsert is modelled by what the script asks of it.

Planned:

1. **The migration's up and down steps.** The down migration's
   `replaceable_events_idx` leaves out kind 41, which the up migration
   includes.
2. **The archive INSERT and the node's range.** The archive writes to the
   foreign table directly, where PostgreSQL does not check a partition
   constraint, so once an ATTACH can succeed, rows can land outside the
   node's range.
