# TLA+ models of ivy_mooncake

`pg_mooncake` is a Postgres extension that keeps a columnstore *mirror* of a
table. The mirroring itself is done by moonlink, a service that the extension
runs in a background worker and talks to over a Unix socket; queries of a mirror
go to DuckDB, which reads from moonlink. The extension's own logic is what lies
between: one RPC stream per backend, the mirrors that have to exist both in the
Postgres catalog and in moonlink, the names they go by, the position of the WAL a
query has to see, an access method of stubs, and the replication slots that
moonlink leaves behind. That is what the modules here describe, check with TLC
and prove things about with TLAPS.

## The system

| Part | Source | State | Operations | Talks to | Module |
|---|---|---|---|---|---|
| RPC stream | `src/src/utils.rs` | per backend: a `LazyLock` holding a `Mutex` holding a connected socket | `get_stream`, `block_on` | worker's socket | `MoonlinkClient` |
| Background worker | `src/src/bgworker.rs`, `guc.rs`, `lib.rs` | registered or not; starting, listening, waiting for its restart | `_PG_init`, `init`, `moonlink_main`, `start` | postmaster, moonlink | `MoonlinkClient` |
| Status probe | `functions.rs` 291-346 | a probing thread and its channel | `bgworker_status` | socket and its file | `BgworkerStatus` |
| Mirror tables | `functions.rs` 27-92, 208-289, `sql/bootstrap.sql` | catalog tables using the `mooncake` access method; moonlink's registrations; callbacks of open transactions | `create_table`, `drop_mooncake_table`, `drop_trigger` and its callbacks | moonlink, loopback sessions, lock manager | `MirrorTables` |
| Names | `functions.rs` 62-66, 156-206 | none of their own | `parse_table`, `get_loopback_uri`, `uri_encode` | Postgres's parser, the client library | `MirrorNames` |
| Slot maintenance | `functions.rs` 348-598, `sql/bootstrap.sql` | replication slots and their walsenders, publication `moonlink_pub`, the disowned event trigger | `list_orphan_slots`, `drop_orphan_slots`, the DROP EXTENSION watcher | walsenders, catalog | `OrphanSlots` |
| Read path | `duckdb_mooncake.rs`, `functions.rs` 12-22 | the backend's `XactLastCommitEnd` | init query, `pgmooncake_get_lsn`, `create_snapshot` | DuckDB, moonlink | `ReadPath` |
| Table access method | `table.rs` | none | callbacks, most of them `unimplemented!()` | Postgres | `TableAm` |
| Other RPC procedures | `functions.rs` 102-154 | none | `list_tables`, `load_files`, `optimize_table` | moonlink | as callers in `MoonlinkClient` |
| Packaging, CI, tests | `Makefile`, `Dockerfile`, `scripts/`, `.github/`, `tests/` | | | | none |

What is hard about it:

* Panics poison. A panic while the stream is opened poisons the `LazyLock`, a
  panic while its guard is alive poisons the `Mutex`; nothing clears either.
* Two stores, no common commit. A mirror is committed by a loopback session
  before moonlink hears of it, and a call that panics in between leaves it there;
  a drop is forwarded in a `PreCommit` callback, after which the transaction may
  still abort, and which survives `ROLLBACK TO SAVEPOINT`. DROP EXTENSION forwards
  nothing.
* Names are the only link between the two stores, and they are derived twice:
  from the caller's argument, and from the catalog when the table is dropped. The
  catalog cuts long names, moonlink does not.
* Waits that Postgres cannot see. A backend in `block_on` waits for moonlink,
  which waits for transactions; the deadlock detector knows nothing of it.
* Slots are not transactional, and terminating their holder is asynchronous.
* Three positions of the WAL (written, flushed, replicated) and one of Iceberg
  move on their own, and go back at a restart.
* Stubs. A panic in the middle of a maintenance command ends it.

`PROJECT.json` lists these hazards line by line.

## Modules

| Module | Contents |
|---|---|
| `MoonlinkClient`, `MoonlinkClientProofs` | stream, lock and worker, in discrete time |
| `BgworkerStatus`, `BgworkerStatusProofs` | the status probe beside them |
| `MirrorRegistry` | abstract: what the catalog and moonlink promise each other about mirrors |
| `MirrorTables` | mirrors in the catalog and in moonlink, transactions, savepoints, restarts, DROP EXTENSION |
| `MCMirrorTables` | the symmetry sets for TLC |
| `MirrorTablesProofs` | types, callbacks before commits, where orphans come from |
| `MirrorSyncProofs` | when catalog and moonlink agree, and the refinement |
| `MirrorNames`, `MCMirrorNames`, `MirrorNamesProofs` | names, their quoting and the loopback URI; texts for TLC |
| `OrphanSlots`, `OrphanSlotsProofs` | both ways of dropping slots, walsenders, clients |
| `SessionReads` | abstract: what a client may count on when it queries a mirror |
| `ReadPath`, `ReadPathProofs` | how queries and snapshots get it, and the refinement |
| `TableAm`, `TableAmProofs` | the access method's stubs under statements and maintenance |

`BgworkerStatus` extends `MoonlinkClient`; `MirrorTables` instantiates
`MirrorRegistry`, and `ReadPath` `SessionReads`. The other components meet in an action: what `MoonlinkClient`
says of poisoned sessions and of calls that cannot get a stream is `poisoned`,
`GetStreamPanics` and `RpcLost` in `MirrorTables` and `RequestFails` in `ReadPath`; a mirror of `MirrorNames` is made
in one step, of which `MirrorTables` has the steps in between; `creating` in
`OrphanSlots` stands for the calls that `MirrorTables` follows.

### MoonlinkClient

`cell[b]` is the `LazyLock` of backend `b` (`unset`, `connecting`, `ready`,
`poisoned`), `lock[b]` its `Mutex`, `peer[b]` the incarnation of the worker its
socket leads to. `waited[b]`, `nextTry[b]` and `delay[b]` are the clock, the end
of the sleep and the next delay of the loop in `get_stream`. `ConnectOk`,
`ConnectRetry` and `ConnectGiveUp` are the three arms of its `match`;
`LastAttempt` and `NextDelay` are its two computations, and the loop's variables
end with it (`ResetRetries`). The six RPC procedures
take the lock with `GetStream`, and differ in `BindsResult`: only `create_table`
releases the guard before it looks at the result. A call on something poisoned
panics without changing anything, so no action stands for it.

The worker starts only when the GUC is on, binds within `MaxStartup`, and may
exit `MaxExits` times: with a panic (the postmaster restarts it after
`RestartTime`) or normally (it is forgotten). A peer's death is discovered by the
next call, which fails. The time of a step is zero; `Tick` stops at
every due attempt, bind and restart, so the waits are exact.

### BgworkerStatus

The probe looks for the socket's file (`socketFile`), then lets a thread connect
(`ProbeConnects`) and reports what has arrived (`StatusReturns`) or, after 250 ms,
that nothing has (`StatusGivesUp`; the code reports this as "not listening").
Between the two the worker does whatever `MoonlinkClient` lets it. A crash leaves
the file behind, and so may a server that ran before. `seen` remembers
whether somebody was listening at the moments of the call. `StatusSpec` implies
the client's `Spec` (theorem `ProbeOnlyWatches`), so the client's properties are
checked in the same run and its theorems hold here.

### MirrorRegistry and MirrorTables

`MirrorRegistry` knows names and mirrors, but neither sessions nor transactions: a
mirror is made (`Make`), registered under its name at most once while its creation
lasts (`Register`), forgotten (`Forget`), and leaves the catalog only when moonlink
does not know it and will not come to know it (`Drop`). The exceptions are the
`late` mirrors, whose creation was still going on when they were to be forgotten,
and those that went with the extension (`DropAll`). The refinement maps the
variables of the same name to themselves, `pending` to the calls in flight and
`late` to `raced`; a failed call or a crash is a `GiveUp`, and all that
transactions do before and after their callbacks is a stutter or a `Drop`.

In `MirrorTables`, `mirror[n]` is the committed table of name `n`, as the oid it
got when it was created; `registered[n]` is the oid of the mirror for which
moonlink registered that name. Oids exist for comparison only, the code exchanges names. `txn`,
`xid`, `dropped`, `savepoints`, `hooks` and `acked` describe the transaction of
each backend: each session has its own backend, and a loopback backend for
the clean-up. `pc`, `name`, `oid` and `waitFor` follow a `create_table` call:

    loopback -> send -> waiting -> accepted -> idle
                             |         |
                             +---------+-> refused -> cleanup -> idle

`CreateMirror` is the whole of `create_mooncake_table`, whose `CREATE TABLE`
commits at once in its own session. `SendRpc` notes every transaction that has
an xid, since the slot that moonlink creates waits for them. `Cleanup` is the
`DROP TABLE IF EXISTS` of `drop_mooncake_table`, which fires the same trigger and
goes through the same commit as everybody's. `PreCommitOk` and `PreCommitFails`
are one callback of `drop_trigger`; after the last one `Commit` takes the dropped
tables out of the catalog, or `CommitFails` aborts the transaction after all.
A call that panics, like any statement that fails, ends the transaction or sends
the client back to its savepoint (`StatementFails`); callbacks belong to the
transaction and survive the latter. `DropExtension` takes every mirror with it
(CASCADE) and runs no callback: the drop trigger is a member of the extension.
`Faults` says what may go wrong; the server may restart any number of times.

`poisoned` is what `MoonlinkClient` says in detail: the sessions whose stream, or
the lock on it, is poisoned. An error that moonlink reports to any call but
`create_table` does it (`OtherRpcFails`, `PreCommitFails`), and so does a stream
that cannot be opened. A poisoned session's `create_table` commits its mirror and
then panics in `get_stream`, and its callbacks panic. Only the client helps
itself, with another session (`Reconnect`); a clean-up has a session of its own.

`WaitsFor(b, c)` says that backend `b` cannot go on before `c` does: a call waits
in moonlink for the transactions its slot awaits, of clients and of other calls'
clean-ups, or for its own loopback session; a clean-up waits for whoever has
dropped, and locks, its table. With `DropWaits` a commit also waits in moonlink
for the creation of the mirror it drops. `NoWaitCycle` says that no set of
backends wait for one another. Whether moonlink makes a drop wait for a creation
of the same name is not in this repository: if it does, TLC finds a circle (a
client drops the mirror between its creation and the RPC, which then waits for the
dropping client's xid, while its callback waits for the creation), so the run and
the theorem have `DropWaits = FALSE`, and say so. Waits of one
client for another's lock are left out: these Postgres sees.

`InSync(n)` says that moonlink knows the mirror `n`, or that `n` is being created
or dropped. `MirrorsAreRegistered` says it of every state, provided that moonlink
refuses nothing but the creation of tables, no commit fails after its callbacks,
and there are no savepoints, lost connections or restarts; `LostOnlyWithAnError`
says of every fault which steps may end it.

Transactions, savepoints and locks are Postgres's, and moonlink's answers are
moonlink's; these are modelled as the code relies on them and are marked
external in the map. Of moonlink, the model assumes that `drop_table` of an
unknown name is no error (the trigger sends it for every table of the database,
mirror or not) and that `create_table` of a known name is.

The `ParallelPreCommit` callback (`functions.rs` 82-89) does the same as the
other one in a parallel worker; those run no DDL, so it never fires and is not
modelled. `hooks` holds the other callback only.

### MirrorNames

Texts are sequences over a few characters, each there for a purpose: `a` and `A`
for the folding of case, `$` as a word character that is no letter, the dot and
the double quote for `parse_table`, and the characters that a URI treats
specially: the comma that separates socket directories, and the blank that is
trimmed, among them. `Ident` and `Matches` are the regular expression, `Parsed` its result;
`Host`, `uri_encode` and `get_loopback_uri` build the URI. Against them stand
two reference decoders, marked external: `Spelled` and `Named`, what Postgres
reads in an identifier and what it keeps of it (`Cut`: the first `MaxLen` characters
of a name), and `Place`, what the client library reads in the URI. The
state machine makes, renames and drops mirrors under these names, each in one
step. `cut` remembers that a table was made under a shorter name than the one that
was registered; its drop sends the shorter one, and the registration stays. A
renamed mirror is no longer found under the name moonlink has for it; the
properties speak of mirrors that were never renamed, and renamed ones are there to
get in their way.

### OrphanSlots

`admin` is a call of `drop_orphan_slots`, `watcher` a DROP EXTENSION; both list
pairs of a slot and its `active_pid` into `todo` and take them one by one:
`Terminate` signals the *listed* pid, `DropSlot` needs the slot to exist and to be
free. When it is not, the error unwinds `drop_orphan_slots` (`DropSlotFails`: the
error of `client.update` is raised, never returned as `Err`), while the trigger's
handler skips the slot (`WatcherSkipsSlot`). Walsenders attach, detach and, once
signalled, exit in their own time. Dropped slots stay dropped whatever becomes of
the transaction. The order in which listed slots are handled is left open.
A `create_table` call commits its mirror first (`CreateMirror`) and gets its slot
later (`CreateReturns`), possibly after the extension is gone. `createdSince` and
`spared` are history, for two properties that say exactly what a race may cost.

### SessionReads and ReadPath

`SessionReads` is a log of commits, and queries that show prefixes of it: never
less than the session's own commits, never less than before unless the mirror was
restarted, and never what a crash of the server could undo. `ReadPath` has the
parts: `lsn` and `flushed` are the WAL, `replicated` and `iceberg` moonlink's two
positions (`commit_lsn` and `flush_lsn` of `list_tables`), `XactLastCommitEnd`
the Postgres variable that `pgmooncake_get_lsn` hands to DuckDB and
`create_snapshot` to moonlink. Commits may be asynchronous. `WorkerExit` takes
moonlink back to its last Iceberg snapshot; `ServerCrash` also loses the WAL that
was not flushed. The refinement maps `lsn`, `flushed` and `XactLastCommitEnd` to
themselves and forgets `shown` at a restart.

### TableAm

Each callback of `table.rs` is classed by its outcome: it panics, does nothing,
or says that there is nothing (`scan_analyze_next_block`,
`relation_needs_toast_table`, an invalid `freeze_xid`). `Reached` lists which of
them a statement cannot avoid on an empty table, which is Postgres's part, like
`CREATE TABLE` itself, and external in the map; `Works` combines the two. Clients, `VACUUM` and `ANALYZE` of the whole database
and autovacuum run into tables of either kind. `age` is that of `relfrozenxid`;
`NoXid` is what mirrors have.

## Runs

| Run | Instance | Shows |
|---|---|---|
| `client_live` | 2 backends, 1 exit of the worker, the probe | `TypeOK`, `BoundedConnect`, `FirstCallNeverPoisons`, `StatusIsEvidence`, `CreateTableKeepsLock`, `OnlyReconnectRepairs`, `ListeningInTimeConnects`, `EveryCallEnds`, `StatusEnds` |
| `mirror_faults` | 2 sessions with savepoints, 2 names, all faults, 2 mirrors made, 2 drops in a transaction | `TypeOK`, `OrphanOnlyByRace`, `DropAckedBeforeCommit`, `LostOnlyWithAnError`, `RegistryKept` |
| `mirror_sync` | 2 sessions, 2 names, refused tables and DROP EXTENSION only, 3 mirrors made | `MirrorsAreRegistered`, `NoWaitCycle`, `FailedCreateLeavesNoMirror`, `RefusedNameIsFreed`, `EveryCallEnds` |
| `names` | 12 names, one of 4 characters and two too long among them, and 6 texts that are none, names cut at 4, 32 callers, 2 mirrors at a time, 3 names in moonlink | `LoopbackComesHome`, `MirrorsKeepTheirNames`, `DroppedIsForgotten` |
| `slots_live` | a slot of moonlink, a lookalike, one of another database, 1 mirror, 2 walsenders | `TypeOK`, `OtherDatabasesKept`, `LiveSlotLostOnlyByRace`, `OnlyHeldSlotsStay`, `DropExtensionEnds`, `RetriesClean` |
| `reads` | 2 sessions, 3 commits, 1 restart of worker or server | `TypeOK`, `SnapshotSurvives`, `ReadsAsPromised`, `EveryRequestEnds` |
| `table_am` | 3 tables, freezing at age 1, end of the xids at 2 | `TypeOK`, `MirrorsHoldNothing`, `KindsDoNotChange`, `AnalyzeCoversDatabase`, `XidsGoOn` |

Why the bounds are enough:

* The durations of the client runs keep the order of the source's (first delay 50
  ms, longest 1 s, deadline 10 s, restart 15 s): one delay below the cap and one
  at it, a deadline longer than either, a restart longer than that. The theorems
  cover all durations. Two backends are needed for the case that one holds a
  stream to a worker which the other, later, cannot reach.
* Two sessions are needed for a drop to race a creation or a clean-up; the third
  oid of `mirror_sync` lets a name be used again after a refusal.
  Two drops in a transaction let the second callback fail after the first has been
  served, or the first be rolled back to a savepoint and the second kept, so that two
  callbacks have one name. `OneRollsBack` keeps savepoints, and the callbacks that
  they leave over, to one session at a time, and `MirrorsMade` the mirrors to two;
  `mirror_sync`, with fewer faults, has neither bound. `mirror_faults` uses the symmetry of sessions and names; `mirror_sync` has
  liveness properties and does not.
* The texts of `names` cover every form the regular expression tells apart, with
  and without a schema, with doubled quotes and dots inside quotes; two mirrors
  are enough for one to take the name of the other, the third name in moonlink
  is one left behind by a renamed mirror. Of `aaaa` and `aaaaa` the second is cut to
  the first.
* Two slots to drop let the first fail before the second; the second walsender
  can attach to a slot after it was listed, or again after the first was
  terminated.
* Two sessions, since `XactLastCommitEnd` is one per session; three commits let one
  be written, one flushed and one replicated; the restart can come between
  any two of them.
* Three tables let a command that a mirror stops have one before it and one after.

### Disagreements between code and documentation

Each of these runs ends with a counterexample; PROJECT.json quotes the lines.

| Run | Property | What happens |
|---|---|---|
| `client_error` | `ErrorKeepsLock` | any error of a call other than `create_table` breaks the session |
| `mirror_savepoint` | `MirrorsAreRegistered` | a drop rolled back to a savepoint is forwarded all the same |
| `mirror_poisoned` | `FailedCreateLeavesNoMirror` | with moonlink in reach, after one refused call the session's `create_table` leaves its mirror |
| `slots_active` | `DropOrphanSlotsGoesOn` | the drop races the termination, and its error ends the function |
| `names_lexical` | `NamesFollowPostgres` | a quoted identifier is quoted again, an unquoted one keeps its capitals |

### Further behaviours

The models contain what a reader may not expect and no document contradicts:

* `FirstCallNeverPoisons` holds only while the worker has not exited. Its restart
  takes 15 s and the retries 10 s: a first call made soon after an exit poisons
  its cell.
* A probe whose connect stalls reports a socket that nobody listens on
  (`StatusGivesUp`), and says so of a worker that is only slow to accept.
* A callback that fails aborts the DROP TABLE, but not what moonlink has done for
  earlier callbacks or for this one: the mirror stays, unregistered. This is one
  of the losses that `LostOnlyWithAnError` admits. So are a commit that Postgres
  aborts after the callbacks (a serialization failure, an error in a callback of
  another extension), a `create_table` that cannot reach moonlink at all, and a
  crash of the server between the creation of a mirror and its registration.
* A session poisoned by a refused call cannot drop a table any more, mirror or
  not: the callback panics and the transaction is aborted.
* The clean-up of a refused `create_table` drops by name, and may meet a mirror
  that another session has made under that name since.
* DROP EXTENSION CASCADE leaves every registration in moonlink. The name is freed
  by the first `create_table` that is refused because of it, by the callback of its
  own clean-up (`RefusedNameIsFreed`): the second attempt succeeds.
* ROLLBACK of a DROP EXTENSION brings back the mirrors, not their slots.
* DROP EXTENSION leaves the slots that are still held when it comes to them
  (`OnlyHeldSlotsStay`), and the one of a `create_table` under way is made after it.
* `drop_orphan_slots` counts the mirrors once. A mirror made after the count loses
  its slot; `LiveSlotLostOnlyByRace` says that this is the only way.
* `LIKE 'moonlink_slot_%'` takes each `_` for any character: slots of
  `LookalikeSlots` are listed and dropped like moonlink's, although the doc comment
  (`functions.rs` 432) speaks of `moonlink_slot_*`.
* A name longer than Postgres keeps is registered whole, but cut in the catalog: the
  trigger sends the cut name, and moonlink never forgets the mirror
  (`DroppedIsForgotten` excepts it).
* A mirror that was renamed is unknown to moonlink under its new name, and dropping
  it leaves the old name registered.
* The README's "reflects the up-to-date state" (`src/README.md` 81) holds for the
  session's own commits. `SessionReads` promises nothing of other sessions'
  commits, since a query does not wait for them.
* When `src_uri` names another server, mirrors are filled from there, but
  `pgmooncake_get_lsn` is a position of this one: the two do not compare. `ReadPath`
  has one server.

## Fairness

* Client: an attempt, a bind and a restart that are due happen (`WF`), and
  moonlink answers or its death is seen (`WF` of `RpcOk \/ RpcError`; the kernel
  closes a dead peer's socket). Time goes on although clients interrupt it with
  steps that take none, hence `SF` of `Tick`. Nothing makes a client call, or the
  worker exit. The probe's own loop goes on (`WF` of `StatusReturns \/
  StatusGivesUp`); nothing makes its thread's connect return.
* Mirrors: calls, commits and moonlink's answers go on (`WF` of `CallAdvances` and
  `TxnStep`), and no fault is counted on: a wait that only a refusal or a failed
  connection would end does not end. The lock of a table is first come, first
  served, hence `SF` of `Cleanup`. Clients end the transactions they have begun:
  with a client that sits in a transaction for ever moonlink waits for ever, as
  does every `CREATE_REPLICATION_SLOT`.
* Slots: a statement that has begun goes on, and a signalled walsender exits.
  `RetrySpec` adds an administrator who calls again. That `MaxPid` walsenders
  attach in all stands for a moonlink that gives up coming back; against one
  that always wins the race no number of retries helps.
* Reads: the WAL writer flushes, moonlink replicates and answers. Nobody is made to
  commit or to take a snapshot: a request must not need more WAL than there is.
* Access method: autovacuum comes to every table that is old and that it can
  vacuum. It is not counted on for mirrors, on which it panics.

## Proofs

TLAPS checks every proof. The assumptions are those on the constants, stated in
the modules (`TimingAssumption`, `FaultsAssumption`, `SlotsAssumption`,
`BoundAssumption`, `AgeAssumption`, `TextAssumption`), plus the hypotheses of a theorem where it
has any. The bounds are arbitrary numbers in the proofs.

* `MoonlinkClientProofs`. `IInv` is `TypeOK` with `RetryInv` (while connecting,
  `nextTry` is at most one capped delay past an attempt made before the deadline,
  which is why the wait is bounded) and `StreamInv` (a stream's peer is an
  incarnation that has been, so a broken stream can never become connected when
  the worker comes back). From it: `TypeCorrect`, `ConnectIsBounded`,
  `CreateTableNeverPoisons`, `BrokenForGood`. `FreshClusterNeverPoisons` assumes
  the GUC on and a startup shorter than the deadline; `FreshInv` relates a
  backend's wait to the worker's clock for as long as the worker has not exited.
* `BgworkerStatusProofs`. `ProbeInv` says that a listening worker has its file,
  and that the current moment is among those the probe has seen;
  `ReportIsEvidence` follows. Every step of `StatusSpec` is one of `MoonlinkClient`
  or a stutter.
* `MirrorTablesProofs`. `CommitInv` says of every transaction that each table
  it has dropped is either acknowledged or still has its callback
  (`BackendInv`), that a loopback transaction belongs to a clean-up
  (`LoopbackInv`), and that no table is dropped by two transactions (`LockInv`).
  `DropIsAcked` follows. `RaceInv` adds that oids are
  fresh (`OidInv`), that a call in flight has a mirror that is there or was
  raced (`FlightInv`), and that an acknowledged name is unregistered or raced
  (`AckInv`); `OrphansComeFromRaces` follows, for all sessions, names, faults.
  `WaitInv` is about the waits: whoever has dropped a table or is awaited by a
  slot has an xid, and no caller has. So a client who waits waits for a clean-up or
  for a client who makes no call, a clean-up waits only before it has begun, and then
  for somebody who has an xid and waits for nobody: `CallsDoNotDeadlock`, under the
  hypotheses that clients call in transactions that have written nothing, and that
  moonlink makes no drop wait for a creation. Both are needed: a caller with an
  xid waits for itself, and for the other see `DropWaits` above.
* `MirrorSyncProofs` builds on it. `CallerInv` (a call is made in a transaction
  that stays open) holds whatever fails, and with it each action that can end
  `InSync(n)` is one that `LostOnlyWithAnError` names: `NoSilentLoss`. The
  hypothesis `Calm` (no fault but refused tables and DROP EXTENSION) means that no
  session is ever poisoned (`Healthy`), and gives `CleanInv` (a clean-up commits the
  drop of its mirror, or the mirror is gone) and with it `FailedCallsCleanUp`.
  `Quiet` (`Calm`, and no savepoints) gives `HookInv` (a callback still to run is for
  a table that its transaction does drop); with `OwnInv` (a call has a mirror once
  it is past the loopback) this makes `SyncInv` inductive, and gives
  `MirrorsStayRegistered`. The refinement of `MirrorRegistry` needs no such
  hypothesis: `OnceInv` says that a mirror has one name and one call, so that a
  registration uses its creation up; with `AckInv` and `BackendInv` each step is
  one of `MirrorRegistry` or a stutter (`RegistryStep`), which is `KeepsRegistry`.
  The hypotheses are needed: `mirror_savepoint` shows what happens with savepoints,
  `mirror_poisoned` what happens after any other refusal, and of commits that fail
  after their callbacks see above.
* `OrphanSlotsProofs`. `TodoInv` says that only slots of the current database
  are ever listed (`OtherDatabasesAreKept`); `CountInv` that a list exists only
  if the count was zero, and is still true while no mirror was created
  (`LiveSlotsAreKept`); `SparedInv` that during DROP EXTENSION each slot is spared
  or still to be dropped (`OnlyHeldSlotsAreLeft`).
* `ReadPathProofs`. `RequestInv` says that whoever waits, waits for its own last
  commit. `QueriesKeepPromises` is the refinement: initial states map to initial
  states, and each action to the one of `SessionReads` it implements, or to a
  stutter (`Replicate`, `FlushIceberg`, the requests that only begin or fail).
* `MirrorNamesProofs` proves that texts survive the ways they take, whatever
  characters they have: `DecodeEncode` (the client library reads in the URI what
  `uri_encode` wrote), `NamedQualified` (Postgres reads in a quoted name what was
  quoted, as far as it keeps it, and in no other way: `Matches` has one member). A text that is built by
  flattening sequences is followed place by place: `EncodedAt` and `QuotedAt` say
  where each character of the original begins, and that these places cover the
  result. The existence of the places is an induction over `Nat`, for which the
  library's theorem is out of reach (it takes an operator as a parameter);
  `SetInduction` states it for sets, and follows from the pigeonhole principle:
  were `n` missing from a set that has 0 and with each number the next, then
  `k |-> k + 1` would map its members up to `n`, finitely many, one to one into
  those but 0. From the round trips come `LoopbackIsHome`, and
  `QualifiedInjective`: different tables are registered under different names,
  which is why `MirrorTables` may tell mirrors by their names. The inductive
  invariant `IInv` says that no two mirrors have one name (`Distinct`), and that
  moonlink knows one which was never renamed by the name it was made with
  (`Registered`), which is the name the trigger will send unless Postgres has cut
  it (`MadeAs`); it gives `NamesAreKept` and `DropForgets`. What Postgres keeps of a
  name is not cut again (`CutKept`), so that what the trigger sends for one table is
  never the uncut name of another.
* `TableAmProofs`. Only heap tables hold anything, by the list of stubs that the
  writing statements reach; `MirrorsStayEmpty` and `KindsStay` follow. ANALYZE
  gets past a mirror because none of the callbacks it reaches panics:
  `AnalyzeComesToAll`.

Only model-checked: the liveness properties (`ListeningInTimeConnects`,
`EveryCallEnds`, `StatusEnds`, `RefusedNameIsFreed`, `DropExtensionEnds`,
`RetriesClean`, `EveryRequestEnds`, `XidsGoOn`), which are beyond the prover. Every
other property of a passing run is a theorem.

## Not modelled, and the plan

1. *(done)* `MoonlinkClient`, `MirrorTables`, `OrphanSlots` with their first
   theorems; `BgworkerStatus`, `ReadPath` with its refinement, `MirrorNames`,
   `TableAm`; DROP EXTENSION CASCADE and the proofs of agreement in
   `MirrorSyncProofs`.
2. *(done)* `MirrorRegistry`, an abstract registry that `MirrorTables` implements,
   with its refinement proved; the names' round trips and properties proved for all
   texts (`MirrorNamesProofs`); poisoned sessions, aborted commits and failed
   statements with savepoints in `MirrorTables`; circles of waits (`NoWaitCycle`);
   names that Postgres cuts.
3. More of the waits across Postgres and moonlink: a wait-for graph with the locks
   of the source table and callers that have written. So far: callers without an
   xid, and the locks of drops.
4. PREPARE TRANSACTION: whether the callbacks run is decided in pgrx, whose source
   is not in the repository.

Left out for good: packaging and CI, which have no run-time state; the insides of
moonlink, DuckDB and Postgres; the SQL text that `create_mooncake_table` builds
from the source's columns; what `load_files` and `optimize_table` make moonlink
do; socket directories in quotes (`functions.rs` 177), for which Postgres's rules
would have to be modelled; a source on another server.
