----------------------------- MODULE MirrorTables -----------------------------
(***************************************************************************)
(* A mooncake mirror lives twice: as a table of the Postgres catalog, and  *)
(* as a registration in moonlink.  mooncake.create_table makes the first   *)
(* over a loopback session of its own (committed at once), then asks       *)
(* moonlink for the second; the event trigger mooncake_drop_trigger asks   *)
(* moonlink to forget every dropped table just before the dropping         *)
(* transaction commits (src/src/functions.rs).                             *)
(*                                                                         *)
(* Each client session has its own backend, and another one while a call   *)
(* of create_table cleans up over the loopback.  Mirrors are told apart by *)
(* their oids, which only the model knows: all that the code and moonlink  *)
(* exchange is the mirror's name.                                          *)
(***************************************************************************)
EXTENDS Naturals, FiniteSets, Sequences

CONSTANTS
  Sessions,           \* client sessions
  Names,              \* qualified names of mirrors
  Faults,             \* what goes wrong: see FaultsAssumption
  Savepoints,         \* whether clients use savepoints
  CallInWritingTxn,   \* whether a client calls create_table with an xid
  DropWaits,          \* whether moonlink forgets a name only after it is done
                      \* with the creation of a mirror of that name
  MaxOid,             \* bound: no call starts once so many mirrors were made
  MaxHooks            \* bound: drops in a transaction

\* What may go wrong.  "reject": moonlink or the source refuses a table;
\* "refusal": moonlink answers any other call (a snapshot, a list, a drop) with
\* an error; "rpc": moonlink cannot be reached, or goes away before it answers;
\* "abort": Postgres aborts a transaction whose callbacks have run;
\* "connect": the clean-up cannot connect; "crash": the server restarts;
\* "cascade": somebody drops the extension.
ASSUME FaultsAssumption ==
  /\ Faults \subseteq {"reject", "refusal", "rpc", "abort", "connect", "crash",
                       "cascade"}
  /\ Savepoints \in BOOLEAN
  /\ CallInWritingTxn \in BOOLEAN
  /\ DropWaits \in BOOLEAN

ASSUME BoundAssumption ==
  /\ MaxOid \in Nat
  /\ MaxHooks \in Nat

VARIABLES
  installed,   \* whether pg_mooncake is installed
  mirror,      \* mirror[n]: oid of the committed table n, or NoOid
  registered,  \* registered[n]: oid of the mirror whose creation made
               \* moonlink register the name n, or NoOid
  nextOid,     \* the next oid
  txn,         \* txn[b]: state of backend b's transaction
  xid,         \* xid[b]: whether that transaction has a transaction id
  dropped,     \* dropped[b]: tables it has dropped (and locks)
  savepoints,  \* savepoints[b]: dropped[b] as it was at each open savepoint
  hooks,       \* hooks[b]: names whose PreCommit callback is still to run
  acked,       \* acked[b]: names for which a PreCommit callback was answered
  pc,          \* pc[s]: how far the create_table call of session s is
  name,        \* name[s]: the mirror it creates (dst), or none
  oid,         \* oid[s]: the oid of the mirror it made, or NoOid
  waitFor,     \* waitFor[s]: transactions its replication slot still awaits
  poisoned,    \* sessions whose stream, or the lock on it, is poisoned
  raced        \* history: oids of mirrors that were dropped while the call
               \* that creates them waited for moonlink, or with the extension

callVars == <<pc, name, oid, waitFor>>
txnVars  == <<txn, xid, dropped, savepoints, hooks, acked>>
vars == <<installed, mirror, registered, nextOid, txnVars, callVars, poisoned, raced>>

-----------------------------------------------------------------------------

NoOid == 0
none  == "none"

Backends == Sessions \X {"client", "loopback"}
Client(s)   == <<s, "client">>
Loopback(s) == <<s, "loopback">>

Calling(s) == pc[s] # "idle"
\* The call of s may yet lead to a registration.
InFlight(s) == pc[s] \in {"send", "waiting"}

\* A dropped table stays locked until its transaction ends.
Locked(n) == \E b \in Backends : n \in dropped[b]

TypeOK ==
  /\ installed \in BOOLEAN
  /\ nextOid \in Nat \ {NoOid}
  /\ mirror \in [Names -> Nat]
  /\ registered \in [Names -> Nat]
  /\ txn \in [Backends -> {"idle", "open", "committing"}]
  /\ xid \in [Backends -> BOOLEAN]
  /\ dropped \in [Backends -> SUBSET Names]
  /\ savepoints \in [Backends -> Seq(SUBSET Names)]
  /\ hooks \in [Backends -> Seq(Names)]
  /\ acked \in [Backends -> SUBSET Names]
  /\ pc \in [Sessions -> {"idle", "loopback", "send", "waiting", "accepted",
                          "refused", "cleanup"}]
  /\ name \in [Sessions -> Names \cup {none}]
  /\ \A s \in Sessions : Calling(s) => name[s] \in Names
  /\ oid \in [Sessions -> Nat]
  /\ waitFor \in [Sessions -> SUBSET Backends]
  /\ poisoned \subseteq Sessions
  /\ raced \subseteq Nat

Init ==
  /\ installed = TRUE
  /\ mirror = [n \in Names |-> NoOid]
  /\ registered = [n \in Names |-> NoOid]
  /\ nextOid = 1
  /\ txn = [b \in Backends |-> "idle"]
  /\ xid = [b \in Backends |-> FALSE]
  /\ dropped = [b \in Backends |-> {}]
  /\ savepoints = [b \in Backends |-> <<>>]
  /\ hooks = [b \in Backends |-> <<>>]
  /\ acked = [b \in Backends |-> {}]
  /\ pc = [s \in Sessions |-> "idle"]
  /\ name = [s \in Sessions |-> none]
  /\ oid = [s \in Sessions |-> NoOid]
  /\ waitFor = [s \in Sessions |-> {}]
  /\ poisoned = {}
  /\ raced = {}

\* The transactions of the backends in B end: their locks, subtransactions and
\* callbacks go, and nothing waits for them any more.
EndTxns(B) ==
  /\ txn' = [b \in Backends |-> IF b \in B THEN "idle" ELSE txn[b]]
  /\ xid' = [b \in Backends |-> xid[b] /\ b \notin B]
  /\ dropped' = [b \in Backends |-> IF b \in B THEN {} ELSE dropped[b]]
  /\ savepoints' = [b \in Backends |-> IF b \in B THEN <<>> ELSE savepoints[b]]
  /\ hooks' = [b \in Backends |-> IF b \in B THEN <<>> ELSE hooks[b]]
  /\ acked' = [b \in Backends |-> IF b \in B THEN {} ELSE acked[b]]

\* The client's transaction is rolled back, and no slot awaits it any more.
RollsBack(s) ==
  /\ EndTxns({Client(s)})
  /\ waitFor' = [t \in Sessions |-> waitFor[t] \ {Client(s)}]

\* It is rolled back to its savepoint, which brings back the tables dropped since
\* and unlocks them.  Their callbacks stay: they belong to the transaction, not to
\* the subtransaction.  (Releasing the savepoint as well changes nothing else.)
BackToSavepoint(s) ==
  /\ savepoints[Client(s)] # <<>>
  /\ dropped' = [dropped EXCEPT ![Client(s)] = Head(savepoints[Client(s)])]
  /\ savepoints' = [savepoints EXCEPT ![Client(s)] = <<>>]
  /\ UNCHANGED <<txn, xid, hooks, acked, waitFor>>

\* A statement fails, and the client gives up its transaction, or what came after
\* the savepoint.
StatementFails(s) == RollsBack(s) \/ BackToSavepoint(s)

-----------------------------------------------------------------------------
(***************************************************************************)
(* Client transactions.  Clients run no statement while a call of theirs   *)
(* is in progress.                                                         *)
(***************************************************************************)

Ready(s) == txn[Client(s)] = "open" /\ ~Calling(s)

Begin(s) ==
  /\ txn[Client(s)] = "idle"
  /\ txn' = [txn EXCEPT ![Client(s)] = "open"]
  /\ UNCHANGED <<installed, mirror, registered, nextOid, xid, dropped, savepoints,
                 hooks, acked, callVars, poisoned, raced>>

\* Any statement that writes: the transaction gets its xid.
Write(s) ==
  /\ Ready(s)
  /\ ~xid[Client(s)]
  /\ xid' = [xid EXCEPT ![Client(s)] = TRUE]
  /\ UNCHANGED <<installed, mirror, registered, nextOid, txn, dropped, savepoints,
                 hooks, acked, callVars, poisoned, raced>>

\* drop_trigger: what moonlink will be asked to forget.
HookName_Oid(n) == mirror[n]
HookName(n) == n

DropTable_NoHook(s, n) ==
  /\ Ready(s)
  /\ mirror[n] # NoOid /\ ~Locked(n)
  /\ Len(hooks[Client(s)]) < MaxHooks
  /\ dropped' = [dropped EXCEPT ![Client(s)] = @ \cup {n}]
  /\ xid' = [xid EXCEPT ![Client(s)] = TRUE]
  /\ hooks' = [hooks EXCEPT ![Client(s)] = IF @ = <<>> THEN <<HookName(n)>> ELSE @]
  /\ UNCHANGED <<installed, mirror, registered, nextOid, txn, savepoints, acked,
                 callVars, poisoned, raced>>

DropTable_AtOnce(s, n) ==
  /\ Ready(s)
  /\ mirror[n] # NoOid /\ ~Locked(n)
  /\ Len(hooks[Client(s)]) < MaxHooks
  /\ dropped' = [dropped EXCEPT ![Client(s)] = @ \cup {n}]
  /\ xid' = [xid EXCEPT ![Client(s)] = TRUE]
  /\ registered' = [registered EXCEPT ![n] = NoOid]
  /\ UNCHANGED <<installed, mirror, nextOid, txn, savepoints, hooks, acked,
                 callVars, poisoned, raced>>

\* DROP TABLE n: the trigger registers a callback for the dropped table.
DropTable(s, n) ==
  /\ Ready(s)
  /\ mirror[n] # NoOid /\ ~Locked(n)
  /\ Len(hooks[Client(s)]) < MaxHooks
  /\ dropped' = [dropped EXCEPT ![Client(s)] = @ \cup {n}]
  /\ xid' = [xid EXCEPT ![Client(s)] = TRUE]
  /\ hooks' = [hooks EXCEPT ![Client(s)] = Append(@, HookName(n))]
  /\ UNCHANGED <<installed, mirror, registered, nextOid, txn, savepoints, acked,
                 callVars, poisoned, raced>>

\* One savepoint at a time.
Savepoint(s) ==
  /\ Savepoints
  /\ Ready(s)
  /\ savepoints[Client(s)] = <<>>
  /\ savepoints' = [savepoints EXCEPT ![Client(s)] = <<dropped[Client(s)]>>]
  /\ UNCHANGED <<installed, mirror, registered, nextOid, txn, xid, dropped, hooks,
                 acked, callVars, poisoned, raced>>

RollbackTo_ForgetsHooks(s) ==
  /\ Ready(s)
  /\ savepoints[Client(s)] # <<>>
  /\ dropped' = [dropped EXCEPT ![Client(s)] = Head(savepoints[Client(s)])]
  /\ savepoints' = [savepoints EXCEPT ![Client(s)] = <<>>]
  /\ hooks' = [hooks EXCEPT ![Client(s)] = <<>>]
  /\ UNCHANGED <<installed, mirror, registered, nextOid, txn, xid, acked, callVars,
                 poisoned, raced>>

\* ROLLBACK TO SAVEPOINT.
RollbackTo(s) ==
  /\ Ready(s)
  /\ BackToSavepoint(s)
  /\ UNCHANGED <<installed, mirror, registered, nextOid, pc, name, oid, poisoned,
                 raced>>

Rollback(s) ==
  /\ Ready(s)
  /\ RollsBack(s)
  /\ UNCHANGED <<installed, mirror, registered, nextOid, pc, name, oid, poisoned,
                 raced>>

\* create_snapshot, list_tables, load_files or optimize_table gets an error from
\* moonlink, or no answer.  They unwrap it with the stream still locked: the panic
\* poisons the lock, for every later call of this session.
OtherRpcFails(s) ==
  /\ Ready(s)
  /\ Faults \cap {"refusal", "rpc"} # {}
  /\ StatementFails(s)
  /\ poisoned' = poisoned \cup {s}
  /\ UNCHANGED <<installed, mirror, registered, nextOid, pc, name, oid, raced>>

\* The client opens another session in place of a poisoned one.
Reconnect(s) ==
  /\ s \in poisoned
  /\ ~Calling(s) /\ txn[Client(s)] # "committing"
  /\ RollsBack(s)
  /\ poisoned' = poisoned \ {s}
  /\ UNCHANGED <<installed, mirror, registered, nextOid, pc, name, oid, raced>>

\* COMMIT: the callbacks come first.
StartCommit(s) ==
  /\ Ready(s)
  /\ txn' = [txn EXCEPT ![Client(s)] = "committing"]
  /\ UNCHANGED <<installed, mirror, registered, nextOid, xid, dropped, savepoints,
                 hooks, acked, callVars, poisoned, raced>>

-----------------------------------------------------------------------------
(***************************************************************************)
(* The end of a transaction, of a client's or of a loopback's backend.     *)
(***************************************************************************)

\* moonlink forgets the name n, whatever mirror it stands for; forgetting a
\* name it does not know is no error.
Forget(n) == registered' = [registered EXCEPT ![n] = NoOid]

\* The mirror n is dropped although its creation has not been answered yet.
NoteRace(b, n) ==
  raced' = IF n \in dropped[b] /\ \E s \in Sessions : InFlight(s) /\ oid[s] = mirror[n]
           THEN raced \cup {mirror[n]}
           ELSE raced

\* get_stream panics in a session whose stream was poisoned before.  A clean-up
\* has a session of its own.
Poisoned(b) == \E s \in poisoned : b = Client(s)

\* A creation of a mirror of that name waits in moonlink.
CreationWaits(s, n) == pc[s] = "waiting" /\ name[s] = n

PreCommitOk(b) ==
  /\ txn[b] = "committing"
  /\ hooks[b] # <<>>
  /\ ~Poisoned(b)
  /\ DropWaits => ~\E s \in Sessions : CreationWaits(s, Head(hooks[b]))
  /\ Forget(Head(hooks[b]))
  /\ NoteRace(b, Head(hooks[b]))
  /\ acked' = [acked EXCEPT ![b] = @ \cup {Head(hooks[b])}]
  /\ hooks' = [hooks EXCEPT ![b] = Tail(@)]
  /\ UNCHANGED <<installed, mirror, nextOid, txn, xid, dropped, savepoints,
                 callVars, poisoned>>

\* The transaction is aborted although it was to be committed.
CommitAborts(b) ==
  /\ txn[b] = "committing"
  /\ EndTxns({b})
  /\ waitFor' = [s \in Sessions |-> waitFor[s] \ {b}]
  /\ UNCHANGED <<installed, mirror, nextOid, pc, name, oid, raced>>

\* "drop_table failed", or no stream to ask over: a callback's panic aborts the
\* transaction, and poisons the session's stream.  moonlink may have served the
\* request without the answer getting through; earlier ones it has served.
PreCommitFails(b) ==
  /\ hooks[b] # <<>>
  /\ CommitAborts(b)
  /\ \/ "rpc" \in Faults /\ ~Poisoned(b) /\ Forget(Head(hooks[b]))
     \/ Faults \cap {"refusal", "rpc"} # {} /\ UNCHANGED registered
     \/ Poisoned(b) /\ UNCHANGED registered
  /\ poisoned' = poisoned \cup {s \in Sessions : b = Client(s)}

\* What Postgres does after the last callback fails: a serialization failure, or
\* an error in a callback of another extension.  moonlink has been told already.
CommitFails(b) ==
  /\ "abort" \in Faults
  /\ hooks[b] = <<>>
  /\ CommitAborts(b)
  /\ UNCHANGED <<registered, poisoned>>

Commit(b) ==
  /\ txn[b] = "committing"
  /\ hooks[b] = <<>>
  /\ mirror' = [n \in Names |-> IF n \in dropped[b] THEN NoOid ELSE mirror[n]]
  /\ EndTxns({b})
  /\ waitFor' = [s \in Sessions |-> waitFor[s] \ {b}]
  /\ UNCHANGED <<installed, registered, nextOid, pc, name, oid, poisoned, raced>>

-----------------------------------------------------------------------------
(***************************************************************************)
(* mooncake.create_table(n, ...).                                          *)
(***************************************************************************)

\* propagate_compatible_mode reads a setting in the caller's transaction,
\* over the read-only path of SPI.
XidAfterSelect_GetOne(x) == TRUE
XidAfterSelect(x) == x

create_table(s, n) ==
  /\ Ready(s)
  /\ installed
  /\ xid[Client(s)] => CallInWritingTxn
  /\ nextOid <= MaxOid
  /\ pc' = [pc EXCEPT ![s] = "loopback"]
  /\ name' = [name EXCEPT ![s] = n]
  /\ xid' = [xid EXCEPT ![Client(s)] = XidAfterSelect(@)]
  /\ UNCHANGED <<installed, mirror, registered, nextOid, txn, dropped, savepoints,
                 hooks, acked, oid, waitFor, poisoned, raced>>

CallEnds(s) ==
  /\ pc' = [pc EXCEPT ![s] = "idle"]
  /\ name' = [name EXCEPT ![s] = none]
  /\ oid' = [oid EXCEPT ![s] = NoOid]

\* A panic: the call ends, and so does the statement that made it.
CallFails(s) ==
  /\ CallEnds(s)
  /\ StatementFails(s)
  /\ UNCHANGED <<installed, mirror, registered, nextOid, raced>>

\* CREATE TABLE ... USING mooncake, committed by the loopback session.
CreateMirror(s) ==
  /\ pc[s] = "loopback"
  /\ installed
  /\ mirror[name[s]] = NoOid
  /\ mirror' = [mirror EXCEPT ![name[s]] = nextOid]
  /\ oid' = [oid EXCEPT ![s] = nextOid]
  /\ nextOid' = nextOid + 1
  /\ pc' = [pc EXCEPT ![s] = "send"]
  /\ UNCHANGED <<installed, registered, txnVars, name, waitFor, poisoned, raced>>

\* "error creating table", or no such source, or no connection to it.
CreateMirrorFails(s) ==
  /\ pc[s] = "loopback"
  /\ ~installed \/ mirror[name[s]] # NoOid \/ "reject" \in Faults \/ "connect" \in Faults
  /\ CallFails(s)
  /\ UNCHANGED poisoned

\* The stream cannot be opened, or is poisoned: get_stream panics after the mirror
\* was committed, and nothing is cleaned up.
GetStreamPanics(s) ==
  /\ "rpc" \in Faults \/ s \in poisoned
  /\ pc[s] = "send"
  /\ CallFails(s)
  /\ poisoned' = poisoned \cup {s}

\* moonlink creates a replication slot with a snapshot, and to that end waits
\* for every transaction that has an xid at this moment, the caller's included.
SendRpc(s) ==
  /\ pc[s] = "send"
  /\ s \notin poisoned
  /\ pc' = [pc EXCEPT ![s] = "waiting"]
  /\ waitFor' = [waitFor EXCEPT ![s] = {b \in Backends : xid[b]}]
  /\ UNCHANGED <<installed, mirror, registered, nextOid, txnVars, name, oid,
                 poisoned, raced>>

RpcAccepted(s) ==
  /\ pc[s] = "waiting"
  /\ waitFor[s] = {}
  /\ registered[name[s]] = NoOid
  /\ registered' = [registered EXCEPT ![name[s]] = oid[s]]
  /\ pc' = [pc EXCEPT ![s] = "accepted"]
  /\ UNCHANGED <<installed, mirror, nextOid, txnVars, name, oid, waitFor, poisoned,
                 raced>>

RpcRejected_NoCleanup(s) ==
  /\ pc[s] = "waiting"
  /\ registered[name[s]] # NoOid \/ "reject" \in Faults
  /\ CallFails(s)
  /\ UNCHANGED poisoned

\* A name that moonlink knows already, or a table it cannot store.
RpcRejected(s) ==
  /\ pc[s] = "waiting"
  /\ registered[name[s]] # NoOid \/ "reject" \in Faults
  /\ pc' = [pc EXCEPT ![s] = "refused"]
  /\ waitFor' = [waitFor EXCEPT ![s] = {}]
  /\ UNCHANGED <<installed, mirror, registered, nextOid, txnVars, name, oid,
                 poisoned, raced>>

\* moonlink goes away before its answer arrives: to the code the same Err.
RpcLost(s) ==
  /\ "rpc" \in Faults
  /\ pc[s] \in {"waiting", "accepted"}
  /\ pc' = [pc EXCEPT ![s] = "refused"]
  /\ waitFor' = [waitFor EXCEPT ![s] = {}]
  /\ UNCHANGED <<installed, mirror, registered, nextOid, txnVars, name, oid,
                 poisoned, raced>>

CallReturns(s) ==
  /\ pc[s] = "accepted"
  /\ CallEnds(s)
  /\ UNCHANGED <<installed, mirror, registered, nextOid, txnVars, waitFor,
                 poisoned, raced>>

\* drop_mooncake_table: DROP TABLE IF EXISTS n in a loopback session.  The
\* statement waits for the lock, fires the same trigger, and is committed (or
\* aborted) like the transaction of any backend.
Cleanup(s) ==
  LET n == name[s]
      b == Loopback(s)
  IN /\ pc[s] = "refused"
     /\ mirror[n] # NoOid /\ ~Locked(n)
     /\ txn' = [txn EXCEPT ![b] = "committing"]
     /\ xid' = [xid EXCEPT ![b] = TRUE]
     /\ dropped' = [dropped EXCEPT ![b] = {n}]
     /\ hooks' = [hooks EXCEPT ![b] = <<HookName(n)>>]
     /\ pc' = [pc EXCEPT ![s] = "cleanup"]
     /\ UNCHANGED <<installed, mirror, registered, nextOid, savepoints, acked, name,
                    oid, waitFor, poisoned, raced>>

\* There is no such table any more, or no connection to be had.
NothingToClean(s) ==
  /\ pc[s] = "refused"
  /\ mirror[name[s]] = NoOid \/ "connect" \in Faults
  /\ CallFails(s)
  /\ UNCHANGED poisoned

\* Errors of the clean-up are swallowed; the call fails either way.
CleanupEnds(s) ==
  /\ pc[s] = "cleanup"
  /\ txn[Loopback(s)] = "idle"
  /\ CallFails(s)
  /\ UNCHANGED poisoned

-----------------------------------------------------------------------------

\* The server restarts: every transaction and every call is gone.  What is
\* committed, and what moonlink has registered, stays.
Crash ==
  /\ "crash" \in Faults
  /\ EndTxns(Backends)
  /\ pc' = [s \in Sessions |-> "idle"]
  /\ name' = [s \in Sessions |-> none]
  /\ oid' = [s \in Sessions |-> NoOid]
  /\ waitFor' = [s \in Sessions |-> {}]
  /\ poisoned' = {}
  /\ UNCHANGED <<installed, mirror, registered, nextOid, raced>>

\* moonlink knows the mirror n, or will if the call that makes it succeeds.
Known(n) ==
  /\ mirror[n] # NoOid
  /\ registered[n] = mirror[n] \/ \E s \in Sessions : InFlight(s) /\ oid[s] = mirror[n]

\* DROP EXTENSION pg_mooncake CASCADE drops every mirror, as soon as nobody else
\* is dropping one.  The trigger is a member of the extension and does not fire
\* for that command: moonlink is not told.
DropExtension ==
  /\ "cascade" \in Faults
  /\ installed
  /\ \A n \in Names : ~Locked(n)
  /\ installed' = FALSE
  /\ mirror' = [n \in Names |-> NoOid]
  /\ raced' = raced \cup {mirror[n] : n \in {m \in Names : Known(m)}}
  /\ UNCHANGED <<registered, nextOid, txnVars, callVars, poisoned>>

CreateExtension ==
  /\ ~installed
  /\ installed' = TRUE
  /\ UNCHANGED <<mirror, registered, nextOid, txnVars, callVars, poisoned, raced>>

ClientStep(s) ==
  \/ Begin(s) \/ Write(s) \/ Savepoint(s) \/ RollbackTo(s)
  \/ Rollback(s) \/ StartCommit(s) \/ OtherRpcFails(s) \/ Reconnect(s)
  \/ \E n \in Names : DropTable(s, n) \/ create_table(s, n)

CallStep(s) ==
  \/ CreateMirror(s) \/ CreateMirrorFails(s)
  \/ GetStreamPanics(s) \/ SendRpc(s)
  \/ RpcAccepted(s) \/ RpcRejected(s) \/ RpcLost(s) \/ CallReturns(s)
  \/ Cleanup(s) \/ NothingToClean(s) \/ CleanupEnds(s)

TxnStep(b) == PreCommitOk(b) \/ PreCommitFails(b) \/ CommitFails(b) \/ Commit(b)

Next ==
  \/ \E s \in Sessions : ClientStep(s) \/ CallStep(s)
  \/ \E b \in Backends : TxnStep(b)
  \/ Crash \/ DropExtension \/ CreateExtension

Spec == Init /\ [][Next]_vars

(***************************************************************************)
(* Fairness: the code of a call and of a commit goes on, moonlink answers  *)
(* once it waits for nothing any more, the queue of a table's lock is      *)
(* first come, first served (hence strong fairness of Cleanup), and        *)
(* clients end the transactions they have begun.  Nothing makes a client   *)
(* start anything, and nothing makes a fault happen: no wait may end only  *)
(* because moonlink refuses a table or a connection fails.                 *)
(***************************************************************************)
CallAdvances(s) ==
  \/ CreateMirror(s) \/ SendRpc(s) \/ RpcAccepted(s) \/ CallReturns(s)
  \/ Cleanup(s) \/ CleanupEnds(s)
  \/ GetStreamPanics(s) /\ s \in poisoned
  \/ CreateMirrorFails(s) /\ (~installed \/ mirror[name[s]] # NoOid)
  \/ RpcRejected(s) /\ registered[name[s]] # NoOid
  \/ NothingToClean(s) /\ mirror[name[s]] = NoOid

Fairness ==
  /\ \A s \in Sessions :
       /\ WF_vars(CallAdvances(s))
       /\ SF_vars(Cleanup(s))
       /\ WF_vars(Rollback(s) \/ StartCommit(s))
  /\ \A b \in Backends : WF_vars(TxnStep(b))

FairSpec == Spec /\ Fairness

-----------------------------------------------------------------------------
(***************************************************************************)
(* Properties.                                                             *)
(***************************************************************************)

\* A table leaves the catalog only in a transaction in which moonlink has
\* acknowledged that it forgets that table: no commit overtakes the callbacks
\* of drop_trigger, whatever was rolled back to a savepoint or dropped again.
\* (Dropping the extension drops the trigger as well.)
DropAckedBeforeCommit ==
  [][\A n \in Names : mirror[n] # NoOid /\ mirror'[n] = NoOid /\ installed'
       => \E b \in Backends : n \in dropped[b] /\ n \in acked[b]]_vars

\* moonlink mirrors into a table that is no more only if that table was dropped
\* while the create_table call that made it still waited for moonlink, or with
\* the extension.  No crash, lost answer, abort, savepoint or failed clean-up
\* leads to it.
OrphanOnlyByRace ==
  \A n \in Names : registered[n] # NoOid =>
    registered[n] = mirror[n] \/ registered[n] \in raced

Registry == INSTANCE MirrorRegistry WITH
              pending <- {<<name[s], oid[s]>> : s \in {t \in Sessions : InFlight(t)}},
              late    <- raced

\* Sessions, transactions and faults together keep the promises of MirrorRegistry:
\* a mirror is registered once at most, under the name and by the call it was made
\* with, and one that leaves the catalog forgotten is never heard of again.
RegistryKept == Registry!Spec

\* n is being created (the call of s has made it, and has no answer yet) or being
\* dropped.
Creating(s, n) == /\ pc[s] \in {"send", "waiting", "refused", "cleanup"}
                  /\ name[s] = n /\ oid[s] = mirror[n]
Changing(n) ==
  \/ \E s \in Sessions : Creating(s, n)
  \/ \E b \in Backends : n \in acked[b] /\ n \in dropped[b]

InSync(n) == mirror[n] = NoOid \/ Changing(n) \/ registered[n] = mirror[n]

\* "stays in sync": moonlink knows every mirror of the catalog, except while
\* the mirror is being created or dropped.  That is so when moonlink refuses
\* nothing but the creation of tables (a refusal of anything else poisons the
\* session), no commit fails after drop_trigger's callbacks, clients use no
\* savepoints and the server does not restart.
MirrorsAreRegistered == \A n \in Names : InSync(n)

\* b commits the drop of n; the next callback of b forgets n, of which b has
\* rolled back the drop.
Dropping(b, n) == txn[b] = "committing" /\ n \in dropped[b]
HasStaleHook(b, n) == /\ txn[b] = "committing" /\ n \notin dropped[b]
                      /\ hooks[b] # <<>> /\ Head(hooks[b]) = n

\* Whatever fails, crashes or comes in between, moonlink loses a mirror of the
\* catalog only in a step that ends, with an error, the create_table call which
\* made the mirror or a transaction that drops it, or that runs the callback of
\* a drop which was rolled back to a savepoint.
LostOnlyWithAnError ==
  [][\A n \in Names : InSync(n) /\ ~InSync(n)' =>
       \/ \E s \in Sessions : Creating(s, n) /\ pc'[s] = "idle"
       \/ \E b \in Backends : Dropping(b, n) /\ txn'[b] = "idle"
       \/ \E b \in Backends : HasStaleHook(b, n) /\ hooks'[b] # hooks[b]]_vars

\* A create_table call that fails after it has made the mirror does not leave
\* behind a mirror that moonlink has no knowledge of (create_table).  That is so
\* when its session is not poisoned, by an earlier refusal or an earlier callback,
\* moonlink is reached, and its clean-up gets a connection and its commit.
FailedCreateLeavesNoMirror ==
  [][\A s \in Sessions :
       oid[s] # NoOid /\ pc[s] # "accepted" /\ pc'[s] = "idle"
         => mirror'[name[s]] # oid[s] \/ registered'[name[s]] = oid[s]]_vars

\* A registration that DROP EXTENSION has left in moonlink does not bar its name
\* for ever: the first call that is refused because of it makes moonlink forget
\* the name, by the callback of its own clean-up, and another call can succeed.
RefusedNameIsFreed ==
  \A n \in Names :
    (/\ mirror[n] # NoOid /\ registered[n] # NoOid
     /\ \E s \in Sessions : pc[s] = "waiting" /\ name[s] = n)
      ~> (registered[n] = NoOid \/ ~installed)

\* b cannot go on before c does.  A call waits in moonlink for the transactions
\* its slot awaits, clients' and clean-ups' alike, and else for its own loopback
\* session; a clean-up waits for whoever has dropped, and locks, its table; a
\* commit may wait in moonlink for the creation of the mirror it drops.
WaitsFor(b, c) ==
  \/ \E s \in Sessions : b = Client(s) /\ pc[s] = "waiting" /\ c \in waitFor[s]
  \/ \E s \in Sessions : /\ b = Client(s) /\ c = Loopback(s)
                        /\ pc[s] \in {"loopback", "refused", "cleanup"}
  \/ \E s \in Sessions : b = Loopback(s) /\ pc[s] = "refused" /\ name[s] \in dropped[c]
  \/ /\ DropWaits
     /\ txn[b] = "committing" /\ hooks[b] # <<>>
     /\ \E s \in Sessions : c = Client(s) /\ CreationWaits(s, Head(hooks[b]))

\* No circle of waits runs through a call of create_table, where no deadlock
\* detector would see it: some of those waits are in moonlink, and some are for
\* the answer of another session.  In any set of backends one waits for no other
\* of the set, nor for itself.  (create_table, drop_mooncake_table, drop_trigger)
NoWaitCycle ==
  LET waits == {p \in Backends \X Backends : WaitsFor(p[1], p[2])}
  IN \A B \in (SUBSET Backends) \ {{}} : \E b \in B : \A c \in B : <<b, c>> \notin waits

\* Every call of create_table ends, when its caller has written nothing.
EveryCallEnds == \A s \in Sessions : Calling(s) ~> ~Calling(s)
=============================================================================
