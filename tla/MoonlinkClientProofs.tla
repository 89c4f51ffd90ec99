------------------------- MODULE MoonlinkClientProofs -------------------------
(***************************************************************************)
(* Theorems about MoonlinkClient, for any number of backends, any timing   *)
(* and any number of worker exits.                                         *)
(***************************************************************************)
EXTENDS MoonlinkClient, TLAPS

\* A sleep begun before the deadline ends less than one longest delay after it.
RetryInv ==
  \A b \in Backends :
    /\ waited[b] < Deadline + MaxDelay
    /\ Connecting(b) => waited[b] <= nextTry[b] /\ nextTry[b] < Deadline + MaxDelay

\* The lock exists once the cell is initialised, and a stream never leads to
\* an incarnation of the worker that is yet to come.
StreamInv ==
  \A b \in Backends :
    /\ peer[b] <= incarnation
    /\ lock[b] # "free" => cell[b] = "ready"

IInv == TypeOK /\ RetryInv /\ StreamInv

\* Doubling and capping keeps a delay within bounds.
LEMMA DelayRange ==
  ASSUME NEW d \in 1..MaxDelay
  PROVE  NextDelay(d) \in 1..MaxDelay
BY TimingAssumption DEF NextDelay

\* The invariant holds when the postmaster starts.
LEMMA InitIInv == Init => IInv
<1> SUFFICES ASSUME Init PROVE IInv
  OBVIOUS
<1>1. TypeOK
  BY TimingAssumption, BoundAssumption DEF Init, TypeOK
<1>2. RetryInv
  <2>1. 0 < Deadline + MaxDelay
    BY TimingAssumption
  <2>2. \A b \in Backends : waited[b] = 0 /\ cell[b] # "connecting"
    BY DEF Init
  <2> QED
    BY <2>1, <2>2 DEF RetryInv, Connecting
<1>3. StreamInv
  <2> SUFFICES ASSUME NEW b \in Backends
               PROVE  peer[b] <= incarnation /\ (lock[b] # "free" => cell[b] = "ready")
    BY DEF StreamInv
  <2>1. incarnation = 0 /\ peer[b] = 0
    BY DEF Init
  <2>2. lock[b] = "free"
    BY DEF Init
  <2> QED
    BY <2>1, <2>2
<1> QED
  BY <1>1, <1>2, <1>3 DEF IInv

\* Every step is a stutter, a step of the worker, the passing of time, or a
\* step of one backend.
LEMMA StepCases ==
  ASSUME [Next]_vars
  PROVE  \/ UNCHANGED vars
         \/ WorkerBind \/ WorkerCrash \/ WorkerReturn \/ WorkerRestart
         \/ Tick
         \/ \E b \in Backends :
              \/ \E rpc \in Rpcs : ~Calling(b) /\ BeginConnect(b, rpc)
              \/ \E rpc \in Rpcs : ~Calling(b) /\ TakeLock(b, rpc)
              \/ ConnectOk(b) \/ ConnectRetry(b) \/ ConnectGiveUp(b)
              \/ RpcOk(b) \/ RpcError(b) \/ Reconnect(b)
<1>1. CASE Worker
  BY <1>1 DEF Worker
<1>2. ASSUME NEW b \in Backends, Call(b)
      PROVE  \E rpc \in Rpcs : ~Calling(b) /\ (BeginConnect(b, rpc) \/ TakeLock(b, rpc))
  <2>1. \E rpc \in Rpcs : GetStream(b, rpc)
    BY <1>2 DEF Call, create_snapshot, create_table, drop_table, list_tables,
                load_files, optimize_table, Rpcs
  <2> QED
    BY <2>1 DEF GetStream
<1> QED
  BY <1>1, <1>2 DEF Next, Connect

\* Every step keeps the types.
LEMMA TypeStep == TypeOK /\ [Next]_vars => TypeOK'
<1> SUFFICES ASSUME TypeOK, [Next]_vars PROVE TypeOK'
  OBVIOUS
<1> USE TimingAssumption, BoundAssumption DEF TypeOK, workerVars, retryVars
<1>1. CASE UNCHANGED vars
  BY <1>1 DEF vars
<1>2. CASE WorkerBind
  BY <1>2 DEF WorkerBind
<1>3. CASE WorkerCrash
  BY <1>3 DEF WorkerCrash
<1>4. CASE WorkerReturn
  BY <1>4 DEF WorkerReturn
<1>5. CASE WorkerRestart
  BY <1>5 DEF WorkerRestart
<1>6. CASE Tick
  BY <1>6 DEF Tick
<1>7. ASSUME NEW b \in Backends, NEW rpc \in Rpcs, BeginConnect(b, rpc)
      PROVE  TypeOK'
  BY <1>7 DEF ResetRetries, BeginConnect
<1>8. ASSUME NEW b \in Backends, NEW rpc \in Rpcs, TakeLock(b, rpc)
      PROVE  TypeOK'
  BY <1>8 DEF TakeLock
<1>9. ASSUME NEW b \in Backends, ConnectOk(b) PROVE TypeOK'
  BY <1>9 DEF ResetRetries, ConnectOk
<1>10. ASSUME NEW b \in Backends, ConnectRetry(b) PROVE TypeOK'
  BY <1>10, DelayRange DEF ConnectRetry
<1>11. ASSUME NEW b \in Backends, ConnectGiveUp(b) PROVE TypeOK'
  BY <1>11 DEF ResetRetries, ConnectGiveUp
<1>12. ASSUME NEW b \in Backends, RpcOk(b) PROVE TypeOK'
  BY <1>12 DEF RpcOk
<1>13. ASSUME NEW b \in Backends, RpcError(b) PROVE TypeOK'
  BY <1>13 DEF RpcError, LockAfterError
<1>14. ASSUME NEW b \in Backends, Reconnect(b) PROVE TypeOK'
  BY <1>14 DEF Reconnect
<1> QED
  BY StepCases, <1>1, <1>2, <1>3, <1>4, <1>5, <1>6, <1>7, <1>8, <1>9, <1>10,
     <1>11, <1>12, <1>13, <1>14

\* Every step keeps the bounds of the retry loop.
LEMMA RetryStep == TypeOK /\ RetryInv /\ [Next]_vars => RetryInv'
<1> SUFFICES ASSUME TypeOK, RetryInv, [Next]_vars, NEW c \in Backends
             PROVE  /\ waited'[c] < Deadline + MaxDelay
                    /\ cell'[c] = "connecting" =>
                         waited'[c] <= nextTry'[c] /\ nextTry'[c] < Deadline + MaxDelay
  BY DEF RetryInv, Connecting
<1> USE TimingAssumption DEF TypeOK, RetryInv, Connecting, workerVars, retryVars
<1>1. CASE UNCHANGED vars
  BY <1>1 DEF vars
<1>2. CASE WorkerBind \/ WorkerCrash \/ WorkerReturn \/ WorkerRestart
  BY <1>2 DEF WorkerBind, WorkerCrash, WorkerReturn, WorkerRestart
<1>3. CASE Tick
  <2>1. CASE cell[c] = "connecting"
    <3>1. waited[c] < nextTry[c] /\ waited'[c] = waited[c] + 1
      BY <1>3, <2>1 DEF Tick
    <3> QED
      BY <1>3, <2>1, <3>1 DEF Tick
  <2>2. CASE cell[c] # "connecting"
    BY <1>3, <2>2 DEF Tick
  <2> QED
    BY <2>1, <2>2
<1>4. ASSUME NEW b \in Backends, NEW rpc \in Rpcs,
             BeginConnect(b, rpc) \/ TakeLock(b, rpc)
      PROVE  /\ waited'[c] < Deadline + MaxDelay
             /\ cell'[c] = "connecting" =>
                  waited'[c] <= nextTry'[c] /\ nextTry'[c] < Deadline + MaxDelay
  BY <1>4 DEF ResetRetries, BeginConnect, TakeLock
<1>5. ASSUME NEW b \in Backends, ConnectRetry(b)
      PROVE  /\ waited'[c] < Deadline + MaxDelay
             /\ cell'[c] = "connecting" =>
                  waited'[c] <= nextTry'[c] /\ nextTry'[c] < Deadline + MaxDelay
  <2>1. waited[b] < Deadline
    BY <1>5 DEF ConnectRetry, LastAttempt
  <2>2. nextTry' = [nextTry EXCEPT ![b] = waited[b] + delay[b]]
        /\ waited' = waited /\ cell' = cell
    BY <1>5 DEF ConnectRetry
  <2> QED
    BY <2>1, <2>2
<1>6. ASSUME NEW b \in Backends,
             \/ ConnectOk(b) \/ ConnectGiveUp(b)
             \/ RpcOk(b) \/ RpcError(b) \/ Reconnect(b)
      PROVE  /\ waited'[c] < Deadline + MaxDelay
             /\ cell'[c] = "connecting" =>
                  waited'[c] <= nextTry'[c] /\ nextTry'[c] < Deadline + MaxDelay
  BY <1>6 DEF ResetRetries, ConnectOk, ConnectGiveUp, RpcOk, RpcError, Reconnect
<1> QED
  BY StepCases, <1>1, <1>2, <1>3, <1>4, <1>5, <1>6

\* Every step keeps the facts about streams and locks.
LEMMA StreamStep == TypeOK /\ StreamInv /\ [Next]_vars => StreamInv'
<1> SUFFICES ASSUME TypeOK, StreamInv, [Next]_vars, NEW c \in Backends
             PROVE  /\ peer'[c] <= incarnation'
                    /\ lock'[c] # "free" => cell'[c] = "ready"
  BY DEF StreamInv
<1> USE DEF TypeOK, StreamInv, workerVars, retryVars
<1>1. CASE UNCHANGED vars
  BY <1>1 DEF vars
<1>2. CASE WorkerBind \/ WorkerCrash \/ WorkerReturn \/ WorkerRestart \/ Tick
  BY <1>2 DEF WorkerBind, WorkerCrash, WorkerReturn, WorkerRestart, Tick
<1>3. ASSUME NEW b \in Backends, NEW rpc \in Rpcs,
             BeginConnect(b, rpc) \/ TakeLock(b, rpc)
      PROVE  /\ peer'[c] <= incarnation'
             /\ lock'[c] # "free" => cell'[c] = "ready"
  BY <1>3 DEF ResetRetries, BeginConnect, TakeLock
<1>4. ASSUME NEW b \in Backends,
             ConnectOk(b) \/ ConnectRetry(b) \/ ConnectGiveUp(b)
      PROVE  /\ peer'[c] <= incarnation'
             /\ lock'[c] # "free" => cell'[c] = "ready"
  BY <1>4 DEF ResetRetries, ConnectOk, ConnectRetry, ConnectGiveUp, AttemptNow, Connecting
<1>5. ASSUME NEW b \in Backends, RpcOk(b) \/ RpcError(b) \/ Reconnect(b)
      PROVE  /\ peer'[c] <= incarnation'
             /\ lock'[c] # "free" => cell'[c] = "ready"
  BY <1>5 DEF RpcOk, RpcError, Rpc, Reconnect
<1> QED
  BY StepCases, <1>1, <1>2, <1>3, <1>4, <1>5

\* The inductive invariant of the module.
LEMMA IInvHolds == Spec => []IInv
<1>1. IInv /\ [Next]_vars => IInv'
  BY TypeStep, RetryStep, StreamStep DEF IInv
<1> QED
  BY InitIInv, <1>1, PTL DEF Spec

\* The state of every backend and of the worker stays within its type.
THEOREM TypeCorrect == Spec => []TypeOK
<1>1. IInv => TypeOK
  BY DEF IInv
<1> QED
  BY <1>1, IInvHolds, PTL

\* However the worker behaves, no first call waits in get_stream for the
\* deadline and a longest delay more.
THEOREM ConnectIsBounded == Spec => []BoundedConnect
<1>1. IInv => BoundedConnect
  BY DEF IInv, RetryInv, BoundedConnect
<1> QED
  BY <1>1, IInvHolds, PTL

\* create_table binds the result of its RPC, so whatever moonlink answers, the
\* guard is released before the panic and the lock is not poisoned.
THEOREM CreateTableNeverPoisons == Spec => CreateTableKeepsLock
<1>1. ASSUME TypeOK, [Next]_vars, NEW c \in Backends,
             lock[c] = "held", call[c] = "create_table"
      PROVE  lock'[c] # "poisoned"
  <2> USE <1>1 DEF TypeOK, workerVars, retryVars
  <2>1. CASE UNCHANGED vars
    BY <2>1 DEF vars
  <2>2. CASE WorkerBind \/ WorkerCrash \/ WorkerReturn \/ WorkerRestart \/ Tick
    BY <2>2 DEF WorkerBind, WorkerCrash, WorkerReturn, WorkerRestart, Tick
  <2>3. ASSUME NEW b \in Backends, NEW rpc \in Rpcs,
               BeginConnect(b, rpc) \/ TakeLock(b, rpc)
        PROVE  lock'[c] # "poisoned"
    BY <2>3 DEF ResetRetries, BeginConnect, TakeLock
  <2>4. ASSUME NEW b \in Backends, RpcError(b)
        PROVE  lock'[c] # "poisoned"
    BY <2>4 DEF RpcError, LockAfterError, BindsResult
  <2>5. ASSUME NEW b \in Backends,
               \/ ConnectOk(b) \/ ConnectRetry(b) \/ ConnectGiveUp(b)
               \/ RpcOk(b) \/ Reconnect(b)
        PROVE  lock'[c] # "poisoned"
    BY <2>5 DEF ResetRetries, ConnectOk, ConnectRetry, ConnectGiveUp, RpcOk, Reconnect
  <2> QED
    BY StepCases, <2>1, <2>2, <2>3, <2>4, <2>5
<1>2. TypeOK /\ [Next]_vars =>
        [\A b \in Backends : lock[b] = "held" /\ call[b] = "create_table"
           => lock'[b] # "poisoned"]_vars
  BY <1>1
<1> QED
  BY <1>2, TypeCorrect, PTL DEF Spec, CreateTableKeepsLock

\* A session that is broken stays broken through every step of any process,
\* until its client opens a new one.
THEOREM BrokenForGood == Spec => OnlyReconnectRepairs
<1>1. ASSUME IInv, [Next]_vars, NEW c \in Backends, Broken(c)
      PROVE  Broken(c)' \/ cell'[c] = "unset"
  <2> USE <1>1 DEF IInv, TypeOK, StreamInv, Broken, Connected, Listening,
                   workerVars, retryVars
  <2>1. CASE UNCHANGED vars
    BY <2>1 DEF vars
  <2>2. CASE WorkerBind
    BY <2>2 DEF WorkerBind
  <2>3. CASE WorkerCrash \/ WorkerReturn \/ WorkerRestart \/ Tick
    BY <2>3 DEF WorkerCrash, WorkerReturn, WorkerRestart, Tick
  <2>4. ASSUME NEW b \in Backends, NEW rpc \in Rpcs,
               BeginConnect(b, rpc) \/ TakeLock(b, rpc)
        PROVE  Broken(c)' \/ cell'[c] = "unset"
    BY <2>4 DEF ResetRetries, BeginConnect, TakeLock
  <2>5. ASSUME NEW b \in Backends,
               ConnectOk(b) \/ ConnectRetry(b) \/ ConnectGiveUp(b)
        PROVE  Broken(c)' \/ cell'[c] = "unset"
    BY <2>5 DEF ResetRetries, ConnectOk, ConnectRetry, ConnectGiveUp, AttemptNow, Connecting
  <2>6. ASSUME NEW b \in Backends, RpcOk(b) \/ RpcError(b) \/ Reconnect(b)
        PROVE  Broken(c)' \/ cell'[c] = "unset"
    BY <2>6 DEF RpcOk, RpcError, Rpc, Reconnect
  <2> QED
    BY StepCases, <2>1, <2>2, <2>3, <2>4, <2>5, <2>6
<1>2. IInv /\ [Next]_vars =>
        [\A b \in Backends : Broken(b) => Broken(b)' \/ cell'[b] = "unset"]_vars
  BY <1>1
<1> QED
  BY <1>2, IInvHolds, PTL DEF Spec, OnlyReconnectRepairs

-----------------------------------------------------------------------------
(***************************************************************************)
(* A worker that does not exit.  While it starts, no backend has waited    *)
(* longer than it has.                                                      *)
(***************************************************************************)

FreshInv ==
  exits = 0 =>
    /\ worker \in {"starting", "listening"}
    /\ worker = "starting" =>
         /\ timer <= MaxStartup
         /\ \A b \in Backends : Connecting(b) => waited[b] <= timer
    /\ \A b \in Backends : cell[b] # "poisoned"

\* The purpose of the retries: if the worker binds its socket sooner than the
\* deadline after its launch, no first call panics until the worker exits.
THEOREM FreshClusterNeverPoisons ==
  ASSUME EnableBgworker = TRUE, MaxStartup < Deadline
  PROVE  Spec => []FirstCallNeverPoisons
<1> USE TimingAssumption
<1>1. Init => FreshInv
  BY DEF Init, FreshInv, Connecting
<1>2. ASSUME TypeOK, FreshInv, [Next]_vars PROVE FreshInv'
  <2> USE <1>2 DEF FreshInv, TypeOK, Connecting, Listening, workerVars, retryVars
  <2>1. CASE UNCHANGED vars
    BY <2>1 DEF vars
  <2>2. CASE WorkerBind
    BY <2>2 DEF WorkerBind
  <2>3. CASE WorkerCrash \/ WorkerReturn
    BY <2>3 DEF WorkerCrash, WorkerReturn
  <2>4. CASE WorkerRestart
    BY <2>4 DEF WorkerRestart
  <2>5. CASE Tick
    BY <2>5 DEF Tick
  <2>6. ASSUME NEW b \in Backends, NEW rpc \in Rpcs,
               BeginConnect(b, rpc) \/ TakeLock(b, rpc)
        PROVE  FreshInv'
    BY <2>6 DEF ResetRetries, BeginConnect, TakeLock
  <2>7. ASSUME NEW b \in Backends, ConnectOk(b) \/ ConnectRetry(b)
        PROVE  FreshInv'
    BY <2>7 DEF ResetRetries, ConnectOk, ConnectRetry
  <2>8. ASSUME NEW b \in Backends, ConnectGiveUp(b)
        PROVE  FreshInv'
    BY <2>8 DEF ResetRetries, ConnectGiveUp, AttemptNow, LastAttempt
  <2>9. ASSUME NEW b \in Backends, RpcOk(b) \/ RpcError(b) \/ Reconnect(b)
        PROVE  FreshInv'
    BY <2>9 DEF RpcOk, RpcError, Reconnect
  <2> QED
    BY StepCases, <2>1, <2>2, <2>3, <2>4, <2>5, <2>6, <2>7, <2>8, <2>9
<1>3. FreshInv => FirstCallNeverPoisons
  BY DEF FreshInv, FirstCallNeverPoisons
<1> QED
  BY <1>1, <1>2, <1>3, TypeCorrect, PTL DEF Spec
=============================================================================
