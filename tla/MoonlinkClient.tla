---------------------------- MODULE MoonlinkClient ----------------------------
(***************************************************************************)
(* The client side of the moonlink RPC, and the background worker it talks *)
(* to.  Every Postgres backend owns one connection to the socket that the  *)
(* worker listens on (get_stream, src/src/utils.rs): it is opened by the   *)
(* first call, with retries, and kept for the life of the backend behind a *)
(* LazyLock (the cell) and a Mutex (the lock).  A panic while the cell is  *)
(* being initialised poisons the cell, a panic while the lock is held      *)
(* poisons the lock; both are for good.                                    *)
(*                                                                         *)
(* Time is discrete.  Waiting is exact: a sleeping backend tries again at  *)
(* the very tick its delay ends.                                           *)
(***************************************************************************)
EXTENDS Naturals

CONSTANTS
  Backends,        \* the Postgres backends that call moonlink
  EnableBgworker,  \* pg_mooncake.enable_bgworker
  FirstDelay,      \* first delay between two connection attempts
  MaxDelay,        \* the longest delay between two attempts
  Deadline,        \* an attempt that fails this late is the last one
  RestartTime,     \* what the postmaster waits before it restarts the worker
  MaxStartup,      \* longest time from the worker's launch to its bind
  MaxExits         \* bound: how often the worker exits

ASSUME TimingAssumption ==
  /\ FirstDelay \in Nat \ {0}
  /\ MaxDelay \in Nat /\ FirstDelay <= MaxDelay
  /\ Deadline \in Nat \ {0}
  /\ RestartTime \in Nat
  /\ MaxStartup \in Nat

ASSUME BoundAssumption ==
  /\ EnableBgworker \in BOOLEAN
  /\ MaxExits \in Nat

VARIABLES
  worker,       \* life cycle of the moonlink background worker
  timer,        \* ticks since the worker's last launch, or since its crash
  incarnation,  \* how often the worker has bound its socket
  exits,        \* how often the worker has exited (bounded by MaxExits)
  cell,         \* cell[b]: state of backend b's LazyLock STREAM
  lock,         \* lock[b]: state of the Mutex in it
  peer,         \* peer[b]: the incarnation b's stream is connected to
  waited,       \* waited[b]: ticks since b began to initialise the cell
  nextTry,      \* nextTry[b]: the value of waited[b] at the next attempt
  delay,        \* delay[b]: how long the next sleep of b is
  call          \* call[b]: the RPC whose answer b waits for, or none

workerVars == <<worker, timer, incarnation, exits>>
retryVars  == <<waited, nextTry, delay>>
vars == <<workerVars, cell, lock, peer, retryVars, call>>

-----------------------------------------------------------------------------
(***************************************************************************)
(* The RPCs of functions.rs.  In all but create_table, the statement that  *)
(* takes the lock also unwraps the result, so that an error panics with    *)
(* the guard alive.  create_table binds the result first.                  *)
(***************************************************************************)

Rpcs == {"create_snapshot", "create_table", "drop_table", "list_tables",
         "load_files", "optimize_table"}

BindsResult_Never == {}
BindsResult == {"create_table"}

none == "none"

Calling(b)    == call[b] # none
Connecting(b) == cell[b] = "connecting"
Listening     == worker = "listening"
\* The stream of b leads to the worker that listens now.
Connected(b)  == Listening /\ peer[b] = incarnation

TypeOK ==
  /\ worker \in {"off", "starting", "listening", "restarting"}
  /\ timer \in Nat
  /\ incarnation \in Nat
  /\ exits \in 0..MaxExits
  /\ cell \in [Backends -> {"unset", "connecting", "ready", "poisoned"}]
  /\ lock \in [Backends -> {"free", "held", "poisoned"}]
  /\ peer \in [Backends -> Nat]
  /\ waited \in [Backends -> Nat]
  /\ nextTry \in [Backends -> Nat]
  /\ delay \in [Backends -> 1..MaxDelay]
  /\ call \in [Backends -> Rpcs \cup {none}]

\* bgworker::init registers the worker only when the GUC is on.
Init ==
  /\ worker = IF EnableBgworker THEN "starting" ELSE "off"
  /\ timer = 0
  /\ incarnation = 0
  /\ exits = 0
  /\ cell = [b \in Backends |-> "unset"]
  /\ lock = [b \in Backends |-> "free"]
  /\ peer = [b \in Backends |-> 0]
  /\ waited = [b \in Backends |-> 0]
  /\ nextTry = [b \in Backends |-> 0]
  /\ delay = [b \in Backends |-> FirstDelay]
  /\ call = [b \in Backends |-> none]

-----------------------------------------------------------------------------
(***************************************************************************)
(* The background worker: bgworker.rs and the postmaster that runs it.     *)
(***************************************************************************)

\* The service binds the socket, at the latest MaxStartup after its launch.
WorkerBind ==
  /\ worker = "starting"
  /\ worker' = "listening"
  /\ timer' = 0
  /\ incarnation' = incarnation + 1
  /\ UNCHANGED <<exits, cell, lock, peer, retryVars, call>>

\* The service fails: the unwrap in start() panics, the worker exits with an
\* error, and the postmaster will restart it.
WorkerCrash ==
  /\ worker \in {"starting", "listening"}
  /\ exits < MaxExits
  /\ exits' = exits + 1
  /\ worker' = "restarting"
  /\ timer' = 0
  /\ UNCHANGED <<incarnation, cell, lock, peer, retryVars, call>>

\* The service returns Ok: the worker exits normally, and the postmaster
\* forgets it.
WorkerReturn ==
  /\ Listening
  /\ exits < MaxExits
  /\ exits' = exits + 1
  /\ worker' = "off"
  /\ UNCHANGED <<timer, incarnation, cell, lock, peer, retryVars, call>>

WorkerRestart ==
  /\ worker = "restarting"
  /\ timer = RestartTime
  /\ worker' = "starting"
  /\ timer' = 0
  /\ UNCHANGED <<incarnation, exits, cell, lock, peer, retryVars, call>>

-----------------------------------------------------------------------------
(***************************************************************************)
(* get_stream, and the calls that use it.                                  *)
(***************************************************************************)

\* The clock and the delay of b's loop, at its start; they end with the loop.
ResetRetries(b) ==
  /\ waited' = [waited EXCEPT ![b] = 0]
  /\ nextTry' = [nextTry EXCEPT ![b] = 0]
  /\ delay' = [delay EXCEPT ![b] = FirstDelay]

\* The first call of a backend: the cell starts to be initialised.
BeginConnect(b, rpc) ==
  /\ cell[b] = "unset"
  /\ cell' = [cell EXCEPT ![b] = "connecting"]
  /\ ResetRetries(b)
  /\ call' = [call EXCEPT ![b] = rpc]
  /\ UNCHANGED <<workerVars, lock, peer>>

\* A later call: the stream is there, and the lock is taken.
TakeLock(b, rpc) ==
  /\ cell[b] = "ready"
  /\ lock[b] = "free"
  /\ lock' = [lock EXCEPT ![b] = "held"]
  /\ call' = [call EXCEPT ![b] = rpc]
  /\ UNCHANGED <<workerVars, cell, peer, retryVars>>

GetStream_RetryingCell(b, rpc) ==
  /\ ~Calling(b)
  /\ \/ BeginConnect(b, rpc)
     \/ TakeLock(b, rpc)
     \/ /\ cell[b] = "poisoned"
        /\ cell' = [cell EXCEPT ![b] = "connecting"]
        /\ call' = [call EXCEPT ![b] = rpc]
        /\ UNCHANGED <<workerVars, lock, peer, retryVars>>

\* A call on a poisoned cell, or on a poisoned lock, panics at once and
\* changes nothing: no disjunct stands for it.
GetStream(b, rpc) ==
  /\ ~Calling(b)
  /\ \/ BeginConnect(b, rpc)
     \/ TakeLock(b, rpc)

create_snapshot(b) == GetStream(b, "create_snapshot")
create_table(b)    == GetStream(b, "create_table")
drop_table(b)      == GetStream(b, "drop_table")
list_tables(b)     == GetStream(b, "list_tables")
load_files(b)      == GetStream(b, "load_files")
optimize_table(b)  == GetStream(b, "optimize_table")

NextDelay_Uncapped(d) == 2 * d
NextDelay(d) == IF 2 * d < MaxDelay THEN 2 * d ELSE MaxDelay

LastAttempt_NoRetry(w) == TRUE
LastAttempt_Late(w) == w > Deadline
LastAttempt(w) == w >= Deadline

AttemptNow(b) == Connecting(b) /\ waited[b] = nextTry[b]

ConnectOk(b) ==
  /\ AttemptNow(b)
  /\ Listening
  /\ cell' = [cell EXCEPT ![b] = "ready"]
  /\ lock' = [lock EXCEPT ![b] = "held"]
  /\ peer' = [peer EXCEPT ![b] = incarnation]
  /\ ResetRetries(b)
  /\ UNCHANGED <<workerVars, call>>

ConnectRetry(b) ==
  /\ AttemptNow(b)
  /\ ~Listening
  /\ ~LastAttempt(waited[b])
  /\ nextTry' = [nextTry EXCEPT ![b] = waited[b] + delay[b]]
  /\ delay' = [delay EXCEPT ![b] = NextDelay(@)]
  /\ UNCHANGED <<workerVars, cell, lock, peer, waited, call>>

ConnectGiveUp_NoLastAttempt(b) ==
  /\ AttemptNow(b)
  /\ LastAttempt(waited[b])
  /\ cell' = [cell EXCEPT ![b] = "poisoned"]
  /\ call' = [call EXCEPT ![b] = none]
  /\ ResetRetries(b)
  /\ UNCHANGED <<workerVars, lock, peer>>

\* "Failed to connect to moonlink": the panic poisons the cell.
ConnectGiveUp(b) ==
  /\ AttemptNow(b)
  /\ ~Listening
  /\ LastAttempt(waited[b])
  /\ cell' = [cell EXCEPT ![b] = "poisoned"]
  /\ call' = [call EXCEPT ![b] = none]
  /\ ResetRetries(b)
  /\ UNCHANGED <<workerVars, lock, peer>>

Rpc(b) == lock[b] = "held"

RpcOk(b) ==
  /\ Rpc(b)
  /\ Connected(b)
  /\ lock' = [lock EXCEPT ![b] = "free"]
  /\ call' = [call EXCEPT ![b] = none]
  /\ UNCHANGED <<workerVars, cell, peer, retryVars>>

\* What an Err leaves of the lock.
LockAfterError(rpc) == IF rpc \in BindsResult THEN "free" ELSE "poisoned"

RpcError_NoEof(b) ==
  /\ Rpc(b)
  /\ Connected(b)
  /\ lock' = [lock EXCEPT ![b] = LockAfterError(call[b])]
  /\ call' = [call EXCEPT ![b] = none]
  /\ UNCHANGED <<workerVars, cell, peer, retryVars>>

\* moonlink rejects the request, or its end of the stream is gone.
RpcError(b) ==
  /\ Rpc(b)
  /\ lock' = [lock EXCEPT ![b] = LockAfterError(call[b])]
  /\ call' = [call EXCEPT ![b] = none]
  /\ UNCHANGED <<workerVars, cell, peer, retryVars>>

\* The client ends its session and opens another: a new backend process.
Reconnect(b) ==
  /\ ~Calling(b)
  /\ cell[b] # "unset"
  /\ cell' = [cell EXCEPT ![b] = "unset"]
  /\ lock' = [lock EXCEPT ![b] = "free"]
  /\ peer' = [peer EXCEPT ![b] = 0]
  /\ UNCHANGED <<workerVars, retryVars, call>>

-----------------------------------------------------------------------------
(***************************************************************************)
(* Time passes while something waits for it, and never past the moment an  *)
(* attempt, a bind or a restart is due.                                    *)
(***************************************************************************)

Tick ==
  /\ worker \in {"starting", "restarting"} \/ \E b \in Backends : Connecting(b)
  /\ \A b \in Backends : Connecting(b) => waited[b] < nextTry[b]
  /\ worker = "starting" => timer < MaxStartup
  /\ worker = "restarting" => timer < RestartTime
  /\ timer' = IF worker \in {"starting", "restarting"} THEN timer + 1 ELSE timer
  /\ waited' = [b \in Backends |->
                  IF Connecting(b) THEN waited[b] + 1 ELSE waited[b]]
  /\ UNCHANGED <<worker, incarnation, exits, cell, lock, peer, nextTry, delay, call>>

Worker == WorkerBind \/ WorkerCrash \/ WorkerReturn \/ WorkerRestart

Call(b) ==
  \/ create_snapshot(b) \/ create_table(b) \/ drop_table(b)
  \/ list_tables(b) \/ load_files(b) \/ optimize_table(b)

Connect(b) == ConnectOk(b) \/ ConnectRetry(b) \/ ConnectGiveUp(b)

Next ==
  \/ Worker
  \/ \E b \in Backends : Call(b) \/ Connect(b) \/ RpcOk(b) \/ RpcError(b) \/ Reconnect(b)
  \/ Tick

Spec == Init /\ [][Next]_vars

(***************************************************************************)
(* Fairness: attempts and sleeps are the backend's own code, the bind and  *)
(* the restart are due at a known time, and moonlink answers what it is    *)
(* asked or its death is seen by the reader of the stream.  Nothing makes  *)
(* a client call or reconnect, or the worker exit.  Time is strongly fair: *)
(* it goes on although the instantaneous steps of a client that calls and  *)
(* reconnects over and over keep interrupting it.                          *)
(***************************************************************************)
Fairness ==
  /\ SF_vars(Tick)
  /\ WF_vars(WorkerBind)
  /\ WF_vars(WorkerRestart)
  /\ \A b \in Backends : WF_vars(Connect(b)) /\ WF_vars(RpcOk(b) \/ RpcError(b))

FairSpec == Spec /\ Fairness

-----------------------------------------------------------------------------
(***************************************************************************)
(* Properties.                                                             *)
(***************************************************************************)

\* The first call of a backend hangs for less than the deadline and one
\* longest delay, whatever the worker does: the doubling delay is capped, and
\* no sleep starts after the deadline.
BoundedConnect == \A b \in Backends : waited[b] < Deadline + MaxDelay

\* The retries are there so that a first call made before the worker has bound
\* its socket does not fail the backend (the comment in get_stream).  They do
\* so as long as the worker has not exited: the restart takes longer than they.
FirstCallNeverPoisons == exits = 0 => \A b \in Backends : cell[b] # "poisoned"

\* A create_table that moonlink refuses leaves the backend able to go on: its
\* lock is never poisoned by that call (the comment in create_table).
CreateTableKeepsLock ==
  [][\A b \in Backends : lock[b] = "held" /\ call[b] = "create_table"
       => lock'[b] # "poisoned"]_vars

\* The same, of every call: an error that moonlink reports over a stream that
\* works must not break every later mooncake call in this backend.
ErrorKeepsLock ==
  [][\A b \in Backends : Rpc(b) /\ Connected(b) => lock'[b] # "poisoned"]_vars

\* No call of this session can succeed any more.
Broken(b) ==
  \/ cell[b] = "poisoned"
  \/ lock[b] = "poisoned"
  \/ cell[b] = "ready" /\ ~Connected(b)

\* Once the worker has gone away under a stream, or a panic has poisoned the
\* cell or the lock, nothing the backend or the worker does repairs the session:
\* a new call, a retry and a worker restart included.  Only a reconnect does.
OnlyReconnectRepairs ==
  [][\A b \in Backends : Broken(b) => Broken(b)' \/ cell'[b] = "unset"]_vars

\* A worker that listens before the deadline of a first call, and stays, is
\* found by it: the loop makes an attempt at or after the deadline.
ListeningInTimeConnects ==
  \A b \in Backends :
    (Connecting(b) /\ waited[b] <= Deadline /\ Listening)
      ~> (cell[b] = "ready" \/ ~Listening)

\* Every call returns to its client, whether or not a worker ever listens.
EveryCallEnds == \A b \in Backends : Calling(b) ~> ~Calling(b)
=============================================================================
