--------------------------- MODULE MirrorSyncProofs ---------------------------
(***************************************************************************)
(* When moonlink and the catalog agree, and what they promise each other:  *)
(* theorems about MirrorTables, for any number of sessions and mirrors.    *)
(***************************************************************************)
EXTENDS MirrorTablesProofs

\* A statement that fails leaves all other transactions alone, and ends the
\* client's own or takes nothing from it but drops.
LEMMA StatementFailsEffect ==
  ASSUME NEW s \in Sessions, StatementFails(s)
  PROVE  /\ \A b \in Backends : b # Client(s) =>
              /\ txn'[b] = txn[b] /\ dropped'[b] = dropped[b] /\ acked'[b] = acked[b]
              /\ hooks'[b] = hooks[b] /\ savepoints'[b] = savepoints[b]
         /\ \/ EndTxns({Client(s)})
            \/ savepoints[Client(s)] # <<>> /\ txn' = txn /\ acked' = acked
<1>1. CASE RollsBack(s)
  BY <1>1, BackendsDiffer, EndTxnsEffect DEF RollsBack
<1>2. CASE BackToSavepoint(s)
  BY <1>2 DEF BackToSavepoint
<1> QED
  BY <1>1, <1>2 DEF StatementFails

\* A call is made in a transaction that stays open until the call ends.
CallerInv == \A s \in Sessions : Calling(s) => txn[Client(s)] = "open"

\* Every step keeps the transactions of callers open.
LEMMA CallerStep == TypeOK /\ CallerInv /\ [Next]_vars => CallerInv'
<1> SUFFICES ASSUME TypeOK, CallerInv, [Next]_vars,
                    NEW t \in Sessions, Calling(t)'
             PROVE  txn'[Client(t)] = "open"
  BY DEF CallerInv
<1> USE BackendsDiffer DEF txnVars, callVars
\* A step that begins no call, and changes no transaction of a caller.
<1>1. ASSUME pc'[t] # "idle" => pc[t] # "idle",
             pc[t] # "idle" /\ txn[Client(t)] = "open" => txn'[Client(t)] = "open"
      PROVE  txn'[Client(t)] = "open"
  BY <1>1 DEF CallerInv, Calling
<1>2. CASE UNCHANGED vars
  BY <1>1, <1>2 DEF vars
<1>3. CASE Crash
  BY <1>3 DEF Crash, Calling
<1>4. CASE DropExtension \/ CreateExtension
  BY <1>1, <1>4 DEF DropExtension, CreateExtension
<1>5. ASSUME NEW b \in Backends,
             PreCommitOk(b) \/ PreCommitFails(b) \/ CommitFails(b) \/ Commit(b)
      PROVE  txn'[Client(t)] = "open"
  <2>1. CASE PreCommitOk(b)
    BY <1>1, <2>1 DEF PreCommitOk
  <2>2. CASE PreCommitFails(b) \/ CommitFails(b)
    BY <1>1, <2>2, EndTxnsEffect DEF PreCommitFails, CommitFails, CommitAborts
  <2>3. CASE Commit(b)
    BY <1>1, <2>3, EndTxnsEffect DEF Commit
  <2> QED
    BY <1>5, <2>1, <2>2, <2>3
<1>6. ASSUME NEW s \in Sessions, Begin(s) \/ StartCommit(s)
      PROVE  txn'[Client(t)] = "open"
  <2>1. t # s
    BY <1>6 DEF Begin, StartCommit, Ready, Calling, CallerInv
  <2> QED
    BY <1>1, <1>6, <2>1 DEF Begin, StartCommit, TypeOK
<1>7. ASSUME NEW s \in Sessions, RolledBack(s) \/ RolledBackTo(s)
      PROVE  txn'[Client(t)] = "open"
  <2>1. t # s /\ pc' = pc /\ StatementFails(s)
    BY <1>7 DEF RolledBack, RolledBackTo, StatementFails, Calling
  <2> QED
    BY <1>1, <2>1, StatementFailsEffect
<1>8. ASSUME NEW s \in Sessions, CallFails(s)
      PROVE  txn'[Client(t)] = "open"
  <2>1. t # s /\ pc'[t] = pc[t] /\ StatementFails(s)
    BY <1>8 DEF CallFails, CallEnds, Calling, TypeOK
  <2> QED
    BY <1>1, <2>1, StatementFailsEffect
<1>9. ASSUME NEW s \in Sessions, NEW n \in Names, DropTable(s, n) \/ create_table(s, n)
      PROVE  txn'[Client(t)] = "open"
  BY <1>1, <1>9 DEF DropTable, create_table, Ready, Calling, TypeOK
<1>10. ASSUME NEW s \in Sessions, Write(s) \/ Savepoint(s)
       PROVE  txn'[Client(t)] = "open"
  BY <1>1, <1>10 DEF Write, Savepoint
<1>11. ASSUME NEW s \in Sessions,
              \/ CreateMirror(s) \/ SendRpc(s) \/ RpcAccepted(s) \/ RpcRejected(s)
              \/ RpcLost(s) \/ CallReturns(s) \/ Cleanup(s)
       PROVE  txn'[Client(t)] = "open"
  <2>1. pc'[t] # "idle" => pc[t] # "idle"
    BY <1>11 DEF CreateMirror, SendRpc, RpcAccepted, RpcRejected, RpcLost,
                 CallReturns, CallEnds, Cleanup, TypeOK
  <2>2. txn'[Client(t)] = txn[Client(t)]
    BY <1>11 DEF CreateMirror, SendRpc, RpcAccepted, RpcRejected, RpcLost,
                 CallReturns, Cleanup, TypeOK
  <2> QED
    BY <1>1, <2>1, <2>2
<1> QED
  BY StepCases, <1>2, <1>3, <1>4, <1>5, <1>6, <1>7, <1>8, <1>9, <1>10, <1>11

\* Callers keep their transactions open.
LEMMA CallerInvHolds == Spec => []CallerInv
<1>1. Init => CallerInv
  BY DEF Init, CallerInv, Calling
<1> QED
  BY <1>1, CallerStep, CommitInvHolds, PTL DEF Spec, CommitInv
-----------------------------------------------------------------------------
(***************************************************************************)
(* No mirror is lost without an error.                                     *)
(***************************************************************************)

\* The steps that LostOnlyWithAnError admits.
Explained(n) ==
  \/ \E s \in Sessions : Creating(s, n) /\ pc'[s] = "idle"
  \/ \E b \in Backends : Dropping(b, n) /\ txn'[b] = "idle"
  \/ \E b \in Backends : HasStaleHook(b, n) /\ hooks'[b] # hooks[b]

\* A step that leaves the mirror, its registration, its creation and its drop as
\* they are keeps it in sync.
LEMMA KeptInSync ==
  ASSUME NEW n \in Names, InSync(n),
         mirror'[n] = mirror[n], registered'[n] = registered[n],
         \A s \in Sessions : Creating(s, n) => Creating(s, n)',
         \A b \in Backends : n \in acked[b] /\ n \in dropped[b]
           => n \in acked'[b] /\ n \in dropped'[b]
  PROVE  InSync(n)'
BY DEF InSync, Changing

\* When transactions end, a drop that moonlink has acknowledged ends with them.
LEMMA EndTxnsDrops ==
  ASSUME TxnInv, NEW B \in SUBSET Backends, EndTxns(B), NEW n \in Names,
         \A b \in B : txn[b] = "committing" => n \notin dropped[b]
  PROVE  \A b \in Backends : n \in acked[b] /\ n \in dropped[b]
           => n \in acked'[b] /\ n \in dropped'[b]
<1> SUFFICES ASSUME NEW b \in Backends, n \in acked[b], n \in dropped[b]
             PROVE  n \in acked'[b] /\ n \in dropped'[b]
  OBVIOUS
<1>1. txn[b] = "committing"
  BY DEF TxnInv, BackendInv
<1> QED
  BY <1>1, EndTxnsEffect

\* The end of a call by a failure: the transaction it was made in had no drop
\* acknowledged, so only the call's own mirror is left to itself.
LEMMA CallFailsExplained ==
  ASSUME TypeOK, TxnInv, CallerInv, NEW n \in Names, InSync(n),
         NEW s \in Sessions, Calling(s), CallFails(s)
  PROVE  InSync(n)' \/ Explained(n)
<1> SUFFICES ASSUME ~Explained(n) PROVE InSync(n)'
  OBVIOUS
<1>1. StatementFails(s) /\ UNCHANGED <<mirror, registered>>
  BY DEF CallFails
<1>2. /\ pc' = [pc EXCEPT ![s] = "idle"] /\ name' = [name EXCEPT ![s] = none]
      /\ oid' = [oid EXCEPT ![s] = NoOid]
  BY DEF CallFails, CallEnds
<1>3. acked[Client(s)] = {}
  BY BackendsDiffer DEF CallerInv, TxnInv, BackendInv
<1>4. \A b \in Backends : n \in acked[b] /\ n \in dropped[b]
        => n \in acked'[b] /\ n \in dropped'[b]
  BY <1>1, <1>3, StatementFailsEffect
<1>5. ~Creating(s, n)
  BY <1>2 DEF Explained, TypeOK
<1>6. \A t \in Sessions : Creating(t, n) => Creating(t, n)'
  BY <1>1, <1>2, <1>5 DEF Creating, Calling, TypeOK
<1> QED
  BY <1>1, <1>4, <1>6, KeptInSync

\* The end of a transaction that commits.
LEMMA TxnStepExplained ==
  ASSUME TypeOK, TxnInv, NEW n \in Names, InSync(n),
         NEW b \in Backends,
         PreCommitOk(b) \/ PreCommitFails(b) \/ CommitFails(b) \/ Commit(b)
  PROVE  InSync(n)' \/ Explained(n)
<1> SUFFICES ASSUME ~Explained(n) PROVE InSync(n)'
  OBVIOUS
<1>0. UNCHANGED <<pc, name, oid>> /\ txn[b] = "committing"
  BY DEF PreCommitOk, PreCommitFails, CommitFails, CommitAborts, Commit, callVars
<1>1. CASE PreCommitOk(b)
  <2>1. hooks[b] # <<>> /\ hooks[b] \in Seq(Names)
    BY <1>1 DEF PreCommitOk, TypeOK
  <2>2. hooks'[b] = Tail(hooks[b]) /\ hooks'[b] # hooks[b]
    <3>1. hooks'[b] = Tail(hooks[b])
      BY <1>1 DEF PreCommitOk, TypeOK
    <3>2. Len(Tail(hooks[b])) # Len(hooks[b])
      BY <2>1
    <3> QED
      BY <3>1, <3>2
  <2>3. /\ registered' = [registered EXCEPT ![Head(hooks[b])] = NoOid]
        /\ acked' = [acked EXCEPT ![b] = @ \cup {Head(hooks[b])}]
        /\ UNCHANGED <<mirror, dropped>>
    BY <1>1 DEF PreCommitOk, Forget
  <2>4. \A c \in Backends : n \in acked[c] => n \in acked'[c]
    BY <2>3 DEF TypeOK
  <2>5. \A t \in Sessions : Creating(t, n) => Creating(t, n)'
    BY <1>0, <2>3 DEF Creating, Calling
  <2>6. CASE Head(hooks[b]) = n
    <3>1. n \in dropped[b]
      BY <1>0, <2>1, <2>2, <2>6 DEF Explained, HasStaleHook
    <3>2. n \in acked'[b] /\ n \in dropped'[b]
      BY <2>3, <2>6, <3>1 DEF TypeOK
    <3> QED
      BY <3>2 DEF InSync, Changing
  <2>7. CASE Head(hooks[b]) # n
    <3>1. registered'[n] = registered[n]
      BY <2>3, <2>7 DEF TypeOK
    <3> QED
      BY <2>3, <2>4, <2>5, <3>1, KeptInSync
  <2> QED
    BY <2>6, <2>7
\* An abort forgets, if anything, the name of the callback that failed.
<1>2. CASE PreCommitFails(b) \/ CommitFails(b)
  <2>1. /\ EndTxns({b}) /\ mirror' = mirror
        /\ \/ registered' = registered
           \/ /\ hooks[b] # <<>>
              /\ registered' = [registered EXCEPT ![Head(hooks[b])] = NoOid]
    BY <1>2 DEF PreCommitFails, CommitFails, CommitAborts, Forget
  <2>2. txn'[b] = "idle" /\ hooks'[b] = <<>>
    BY <2>1, EndTxnsEffect
  <2>3. n \notin dropped[b]
    BY <1>0, <2>2 DEF Explained, Dropping
  <2>4. hooks[b] # <<>> => Head(hooks[b]) # n
    BY <1>0, <2>2, <2>3 DEF Explained, HasStaleHook
  <2>5. registered'[n] = registered[n]
    BY <2>1, <2>4 DEF TypeOK
  <2>6. \A t \in Sessions : Creating(t, n) => Creating(t, n)'
    BY <1>0, <2>1 DEF Creating, Calling
  <2>7. \A c \in Backends : n \in acked[c] /\ n \in dropped[c]
          => n \in acked'[c] /\ n \in dropped'[c]
    BY <2>1, <2>3, EndTxnsDrops
  <2> QED
    BY <2>1, <2>5, <2>6, <2>7, KeptInSync
<1>3. CASE Commit(b)
  <2>1. /\ EndTxns({b}) /\ UNCHANGED registered
        /\ mirror' = [m \in Names |-> IF m \in dropped[b] THEN NoOid ELSE mirror[m]]
    BY <1>3 DEF Commit
  <2>2. CASE n \in dropped[b]
    BY <2>1, <2>2 DEF InSync
  <2>3. CASE n \notin dropped[b]
    <3>1. mirror'[n] = mirror[n]
      BY <2>1, <2>3
    <3>2. \A t \in Sessions : Creating(t, n) => Creating(t, n)'
      BY <1>0, <3>1 DEF Creating, Calling
    <3>3. \A c \in Backends : n \in acked[c] /\ n \in dropped[c]
            => n \in acked'[c] /\ n \in dropped'[c]
      BY <2>1, <2>3, EndTxnsDrops
    <3> QED
      BY <2>1, <3>1, <3>2, <3>3, KeptInSync
  <2> QED
    BY <2>2, <2>3
<1> QED
  BY <1>1, <1>2, <1>3

\* The steps of a call that does not fail, and those of a client's transaction.
LEMMA CallStepInSync ==
  ASSUME TypeOK, TxnInv, LoopbackInv, NEW n \in Names, InSync(n),
         NEW s \in Sessions,
         \/ CreateMirror(s) \/ SendRpc(s) \/ RpcAccepted(s) \/ RpcRejected(s)
         \/ RpcLost(s) \/ CallReturns(s) \/ Cleanup(s)
  PROVE  InSync(n)'
<1> USE BackendsDiffer DEF txnVars, callVars
<1>1. CASE CreateMirror(s)
  <2>1. /\ name[s] \in Names /\ oid' = [oid EXCEPT ![s] = nextOid]
        /\ mirror' = [mirror EXCEPT ![name[s]] = nextOid]
        /\ pc' = [pc EXCEPT ![s] = "send"] /\ pc[s] = "loopback"
        /\ UNCHANGED <<registered, dropped, acked, name>>
    BY <1>1 DEF CreateMirror, TypeOK, Calling
  <2>2. CASE n = name[s]
    <3>1. Creating(s, n)'
      BY <2>1, <2>2 DEF Creating, Calling, TypeOK
    <3> QED
      BY <3>1 DEF InSync, Changing
  <2>3. CASE n # name[s]
    <3>1. mirror'[n] = mirror[n]
      BY <2>1, <2>3 DEF TypeOK
    <3>2. \A t \in Sessions : Creating(t, n) => Creating(t, n)'
      BY <2>1, <2>3, <3>1 DEF Creating, Calling, TypeOK
    <3> QED
      BY <2>1, <3>1, <3>2, KeptInSync
  <2> QED
    BY <2>2, <2>3
<1>2. CASE SendRpc(s) \/ RpcRejected(s) \/ RpcLost(s)
  <2>1. UNCHANGED <<mirror, registered, dropped, acked, name, oid>>
    BY <1>2 DEF SendRpc, RpcRejected, RpcLost
  <2>2. \A t \in Sessions : Creating(t, n) => Creating(t, n)'
    BY <1>2, <2>1 DEF SendRpc, RpcRejected, RpcLost, Creating, Calling, TypeOK
  <2> QED
    BY <2>1, <2>2, KeptInSync
<1>3. CASE RpcAccepted(s)
  <2>1. /\ name[s] \in Names /\ registered[name[s]] = NoOid
        /\ registered' = [registered EXCEPT ![name[s]] = oid[s]]
        /\ pc' = [pc EXCEPT ![s] = "accepted"]
        /\ UNCHANGED <<mirror, dropped, acked, name, oid>>
    BY <1>3 DEF RpcAccepted, TypeOK, Calling
  <2>2. \A t \in Sessions : t # s /\ Creating(t, n) => Creating(t, n)'
    BY <2>1 DEF Creating, Calling, TypeOK
  <2>3. CASE n = name[s] /\ oid[s] = mirror[n]
    BY <2>1, <2>3 DEF InSync, TypeOK
  <2>4. CASE n = name[s] /\ oid[s] # mirror[n]
    <3>1. mirror[n] = NoOid \/ Changing(n)
      BY <2>1, <2>4 DEF InSync
    <3>2. ~Creating(s, n)
      BY <2>4 DEF Creating
    <3> QED
      BY <2>1, <2>2, <3>1, <3>2 DEF InSync, Changing
  <2>5. CASE n # name[s]
    <3>1. registered'[n] = registered[n]
      BY <2>1, <2>5 DEF TypeOK
    <3>2. ~Creating(s, n)
      BY <2>5 DEF Creating
    <3> QED
      BY <2>1, <2>2, <3>1, <3>2, KeptInSync
  <2> QED
    BY <2>3, <2>4, <2>5
<1>4. CASE CallReturns(s)
  <2>1. /\ pc[s] = "accepted" /\ pc' = [pc EXCEPT ![s] = "idle"]
        /\ name' = [name EXCEPT ![s] = none] /\ oid' = [oid EXCEPT ![s] = NoOid]
        /\ UNCHANGED <<mirror, registered, dropped, acked>>
    BY <1>4 DEF CallReturns, CallEnds
  <2>2. \A t \in Sessions : Creating(t, n) => Creating(t, n)'
    BY <2>1 DEF Creating, Calling, TypeOK
  <2> QED
    BY <2>1, <2>2, KeptInSync
<1>5. CASE Cleanup(s)
  <2>1. /\ pc' = [pc EXCEPT ![s] = "cleanup"]
        /\ dropped' = [dropped EXCEPT ![Loopback(s)] = {name[s]}]
        /\ UNCHANGED <<mirror, registered, acked, name, oid>>
    BY <1>5 DEF Cleanup
  <2>2. acked[Loopback(s)] = {}
    BY <1>5 DEF Cleanup, LoopbackInv, TxnInv, BackendInv
  <2>3. \A b \in Backends : n \in acked[b] /\ n \in dropped[b] => n \in dropped'[b]
    BY <2>1, <2>2 DEF TypeOK
  <2>4. \A t \in Sessions : Creating(t, n) => Creating(t, n)'
    BY <2>1 DEF Creating, Calling, TypeOK
  <2> QED
    BY <2>1, <2>3, <2>4, KeptInSync
<1> QED
  BY <1>1, <1>2, <1>3, <1>4, <1>5

\* What clients do outside of calls: a transaction that is not committing has no
\* answers yet.
LEMMA ClientStepInSync ==
  ASSUME TypeOK, TxnInv, NEW n \in Names, InSync(n), NEW s \in Sessions,
         \/ Begin(s) \/ Write(s) \/ Savepoint(s) \/ RolledBackTo(s)
         \/ RolledBack(s) \/ StartCommit(s)
         \/ \E m \in Names : DropTable(s, m) \/ create_table(s, m)
  PROVE  InSync(n)'
<1> USE BackendsDiffer DEF txnVars, callVars
<1>1. UNCHANGED <<mirror, registered, oid>>
  BY DEF Begin, Write, Savepoint, RolledBackTo, RolledBack, StartCommit, DropTable,
         create_table
<1>2. ASSUME pc' = pc, name' = name
      PROVE  \A t \in Sessions : Creating(t, n) => Creating(t, n)'
  BY <1>1, <1>2 DEF Creating, Calling
<1>3. CASE Begin(s) \/ Write(s) \/ Savepoint(s) \/ StartCommit(s)
  <2>1. UNCHANGED <<dropped, acked, pc, name>>
    BY <1>3 DEF Begin, Write, Savepoint, StartCommit
  <2> QED
    BY <1>1, <1>2, <2>1, KeptInSync
<1>4. CASE \E m \in Names : DropTable(s, m)
  <2>1. acked[Client(s)] = {}
    BY <1>4 DEF DropTable, Ready, TxnInv, BackendInv
  <2>2. UNCHANGED <<acked, pc, name>>
    BY <1>4 DEF DropTable
  <2>3. \A b \in Backends : b # Client(s) => dropped'[b] = dropped[b]
    BY <1>4 DEF DropTable, TypeOK
  <2> QED
    BY <1>1, <1>2, <2>1, <2>2, <2>3, KeptInSync
<1>5. CASE RolledBackTo(s) \/ RolledBack(s)
  <2>1. txn[Client(s)] # "committing" /\ StatementFails(s) /\ UNCHANGED <<pc, name>>
    BY <1>5 DEF RolledBackTo, RolledBack, StatementFails
  <2>2. acked[Client(s)] = {}
    BY <2>1 DEF TxnInv, BackendInv
  <2>3. \A b \in Backends : n \in acked[b] /\ n \in dropped[b]
          => n \in acked'[b] /\ n \in dropped'[b]
    BY <2>1, <2>2, StatementFailsEffect
  <2> QED
    BY <1>1, <1>2, <2>1, <2>3, KeptInSync
<1>6. ASSUME NEW m \in Names, create_table(s, m) PROVE InSync(n)'
  <2>1. /\ ~Calling(s) /\ pc' = [pc EXCEPT ![s] = "loopback"]
        /\ name' = [name EXCEPT ![s] = m] /\ UNCHANGED <<dropped, acked>>
    BY <1>6 DEF create_table, Ready
  <2>2. \A t \in Sessions : Creating(t, n) => Creating(t, n)'
    BY <1>1, <2>1 DEF Creating, Calling, TypeOK
  <2> QED
    BY <1>1, <2>1, <2>2, KeptInSync
<1> QED
  BY <1>3, <1>4, <1>5, <1>6

\* Every step keeps a mirror in sync, or is one that explains its loss.
LEMMA StepExplained ==
  ASSUME CommitInv, CallerInv, [Next]_vars, NEW n \in Names, InSync(n)
  PROVE  InSync(n)' \/ Explained(n)
<1> USE DEF txnVars, callVars
<1>0. TypeOK /\ TxnInv /\ LoopbackInv
  BY DEF CommitInv
<1>1. CASE UNCHANGED vars
  <2>1. \A t \in Sessions : Creating(t, n) => Creating(t, n)'
    BY <1>1 DEF vars, Creating, Calling
  <2> QED
    BY <1>1, <2>1, KeptInSync DEF vars
<1>2. CASE Crash
  <2> SUFFICES ASSUME ~Explained(n) PROVE InSync(n)'
    OBVIOUS
  <2>1. /\ EndTxns(Backends) /\ UNCHANGED <<mirror, registered>>
        /\ \A t \in Sessions : pc'[t] = "idle"
    BY <1>2 DEF Crash
  <2>2. \A t \in Sessions : ~Creating(t, n)
    BY <2>1 DEF Explained
  <2>3. \A b \in Backends : txn[b] = "committing" => n \notin dropped[b]
    BY <2>1, EndTxnsEffect DEF Explained, Dropping
  <2>4. \A b \in Backends : n \in acked[b] /\ n \in dropped[b]
          => n \in acked'[b] /\ n \in dropped'[b]
    BY <1>0, <2>1, <2>3, EndTxnsDrops
  <2> QED
    BY <2>1, <2>2, <2>4, KeptInSync
<1>3. CASE DropExtension
  BY <1>3 DEF DropExtension, InSync
<1>4. CASE CreateExtension
  <2>1. \A t \in Sessions : Creating(t, n) => Creating(t, n)'
    BY <1>4 DEF CreateExtension, Creating, Calling
  <2> QED
    BY <1>4, <2>1, KeptInSync DEF CreateExtension
<1>5. ASSUME NEW s \in Sessions, CallFails(s),
             pc[s] \in {"loopback", "send", "refused", "cleanup"}
      PROVE  InSync(n)' \/ Explained(n)
  BY <1>0, <1>5, CallFailsExplained DEF Calling
<1> QED
  BY <1>0, StepCases, <1>1, <1>2, <1>3, <1>4, <1>5, TxnStepExplained,
     CallStepInSync, ClientStepInSync

\* moonlink loses no mirror of the catalog in silence: a failed call, a failed
\* commit or a drop rolled back to a savepoint goes with it.
THEOREM NoSilentLoss == Spec => LostOnlyWithAnError
<1>1. CommitInv /\ CallerInv /\ [Next]_vars =>
        [\A n \in Names : InSync(n) /\ ~InSync(n)' =>
           \/ \E s \in Sessions : Creating(s, n) /\ pc'[s] = "idle"
           \/ \E b \in Backends : Dropping(b, n) /\ txn'[b] = "idle"
           \/ \E b \in Backends : HasStaleHook(b, n) /\ hooks'[b] # hooks[b]]_vars
  BY StepExplained DEF Explained
<1> QED
  BY <1>1, CommitInvHolds, CallerInvHolds, PTL DEF Spec, LostOnlyWithAnError

-----------------------------------------------------------------------------
(***************************************************************************)
(* Nothing is lost at all, and calls clean up, under conditions that must  *)
(* hold all together: moonlink is reached, and refuses nothing but the     *)
(* creation of tables (no other call of a session is answered with an      *)
(* error, which would poison its lock); the clean-up gets a connection; no *)
(* transaction is aborted that has run its callbacks; the server does not  *)
(* restart.  For the first, clients use no savepoints either.  The runs of *)
(* MirrorTables_poisoned.cfg and MirrorTables_savepoint.cfg give up one    *)
(* condition each, and a mirror is lost.                                   *)
(***************************************************************************)

Calm  == Faults \subseteq {"reject", "cascade"}
Quiet == Calm /\ ~Savepoints

\* No session's stream, or lock, is poisoned.
Healthy == poisoned = {}

\* The steps that are left, one by one.
LEMMA CalmCases ==
  ASSUME Calm, Healthy, [Next]_vars
  PROVE  \/ UNCHANGED vars
         \/ DropExtension \/ CreateExtension
         \/ \E b \in Backends : PreCommitOk(b) \/ Commit(b)
         \/ \E s \in Sessions :
              \/ Begin(s) \/ Write(s) \/ Savepoint(s) \/ RollbackTo(s)
              \/ Rollback(s) \/ StartCommit(s)
              \/ \E n \in Names : DropTable(s, n) \/ create_table(s, n)
              \/ CreateMirror(s) \/ SendRpc(s)
              \/ RpcAccepted(s) \/ RpcRejected(s) \/ CallReturns(s)
              \/ Cleanup(s)
              \/ /\ UNCHANGED poisoned /\ CallFails(s)
                 /\ \/ pc[s] = "loopback"
                    \/ pc[s] = "refused" /\ mirror[name[s]] = NoOid
                    \/ pc[s] = "cleanup" /\ txn[Loopback(s)] = "idle"
<1>1. /\ \A s \in Sessions : /\ ~RpcLost(s) /\ ~GetStreamPanics(s)
                             /\ ~OtherRpcFails(s) /\ ~Reconnect(s)
      /\ \A b \in Backends : ~PreCommitFails(b) /\ ~CommitFails(b)
      /\ ~Crash
  BY DEF Calm, Healthy, RpcLost, GetStreamPanics, OtherRpcFails, Reconnect,
         PreCommitFails, CommitFails, Poisoned, Crash
<1>2. \A s \in Sessions : NothingToClean(s) => mirror[name[s]] = NoOid
  BY DEF Calm, NothingToClean
<1> QED
  BY <1>1, <1>2 DEF Next, ClientStep, CallStep, TxnStep, CreateMirrorFails,
     NothingToClean, CleanupEnds

\* No step poisons anything.
LEMMA HealthyStep == ASSUME Calm PROVE Healthy /\ [Next]_vars => Healthy'
<1> SUFFICES ASSUME Healthy, [Next]_vars PROVE UNCHANGED poisoned
  BY DEF Healthy
<1>1. CASE UNCHANGED vars \/ DropExtension \/ CreateExtension
  BY <1>1 DEF vars, DropExtension, CreateExtension
<1>2. ASSUME NEW b \in Backends, PreCommitOk(b) \/ Commit(b) PROVE UNCHANGED poisoned
  BY <1>2 DEF PreCommitOk, Commit
<1>3. ASSUME NEW s \in Sessions,
             \/ Begin(s) \/ Write(s) \/ Savepoint(s) \/ RollbackTo(s)
             \/ Rollback(s) \/ StartCommit(s)
             \/ \E n \in Names : DropTable(s, n) \/ create_table(s, n)
      PROVE  UNCHANGED poisoned
  BY <1>3 DEF Begin, Write, Savepoint, RollbackTo, Rollback, StartCommit, DropTable,
              create_table
<1>4. ASSUME NEW s \in Sessions,
             \/ CreateMirror(s) \/ SendRpc(s) \/ RpcAccepted(s) \/ RpcRejected(s)
             \/ CallReturns(s) \/ Cleanup(s)
      PROVE  UNCHANGED poisoned
  BY <1>4 DEF CreateMirror, SendRpc, RpcAccepted, RpcRejected, CallReturns, Cleanup
<1> QED
  BY CalmCases, <1>1, <1>2, <1>3, <1>4

\* A call has made a mirror from "send" on.
OwnInv == \A s \in Sessions : oid[s] = NoOid <=> pc[s] \in {"idle", "loopback"}

\* Every callback stands for a table that is dropped.
HookInv ==
  \A b \in Backends : savepoints[b] = <<>> /\ ElementsOf(hooks[b]) \subseteq dropped[b]

\* A clean-up commits the drop of its mirror, or that mirror is gone.
CleanInv ==
  \A s \in Sessions : pc[s] = "cleanup" =>
    \/ mirror[name[s]] # oid[s]
    \/ txn[Loopback(s)] = "committing" /\ name[s] \in dropped[Loopback(s)]

\* Every step keeps track of the mirror a call has made.
LEMMA OwnStep == TypeOK /\ OwnInv /\ [Next]_vars => OwnInv'
<1> SUFFICES ASSUME TypeOK, OwnInv, [Next]_vars, NEW t \in Sessions
             PROVE  oid'[t] = NoOid <=> pc'[t] \in {"idle", "loopback"}
  BY DEF OwnInv
<1> USE DEF txnVars, callVars
<1>1. ASSUME UNCHANGED <<pc, oid>>
      PROVE  oid'[t] = NoOid <=> pc'[t] \in {"idle", "loopback"}
  BY <1>1 DEF OwnInv
<1>2. CASE UNCHANGED vars \/ DropExtension \/ CreateExtension
  BY <1>1, <1>2 DEF vars, DropExtension, CreateExtension
<1>3. CASE Crash
  BY <1>3 DEF Crash
<1>4. ASSUME NEW b \in Backends,
             PreCommitOk(b) \/ PreCommitFails(b) \/ CommitFails(b) \/ Commit(b)
      PROVE  oid'[t] = NoOid <=> pc'[t] \in {"idle", "loopback"}
  BY <1>1, <1>4 DEF PreCommitOk, PreCommitFails, CommitFails, CommitAborts, Commit
<1>5. ASSUME NEW s \in Sessions,
             \/ Begin(s) \/ Write(s) \/ Savepoint(s) \/ RolledBackTo(s)
             \/ RolledBack(s) \/ StartCommit(s) \/ \E n \in Names : DropTable(s, n)
      PROVE  oid'[t] = NoOid <=> pc'[t] \in {"idle", "loopback"}
  BY <1>1, <1>5 DEF Begin, Write, Savepoint, RolledBackTo, RolledBack, StartCommit,
                    DropTable
<1>6. ASSUME NEW s \in Sessions, \E n \in Names : create_table(s, n)
      PROVE  oid'[t] = NoOid <=> pc'[t] \in {"idle", "loopback"}
  BY <1>6 DEF create_table, Ready, Calling, OwnInv, TypeOK
<1>7. ASSUME NEW s \in Sessions, CreateMirror(s)
      PROVE  oid'[t] = NoOid <=> pc'[t] \in {"idle", "loopback"}
  BY <1>7 DEF CreateMirror, OwnInv, TypeOK
<1>8. ASSUME NEW s \in Sessions,
             SendRpc(s) \/ RpcAccepted(s) \/ RpcRejected(s) \/ RpcLost(s) \/ Cleanup(s)
      PROVE  oid'[t] = NoOid <=> pc'[t] \in {"idle", "loopback"}
  BY <1>8 DEF SendRpc, RpcAccepted, RpcRejected, RpcLost, Cleanup, OwnInv, TypeOK
<1>9. ASSUME NEW s \in Sessions, CallReturns(s) \/ CallFails(s)
      PROVE  oid'[t] = NoOid <=> pc'[t] \in {"idle", "loopback"}
  BY <1>9 DEF CallReturns, CallFails, CallEnds, OwnInv, TypeOK
<1> QED
  BY StepCases, <1>2, <1>3, <1>4, <1>5, <1>6, <1>7, <1>8, <1>9

\* Without savepoints, callbacks and drops stay together.
LEMMA HookStep ==
  ASSUME Quiet
  PROVE  Healthy /\ TypeOK /\ TxnInv /\ LoopbackInv /\ HookInv /\ [Next]_vars => HookInv'
<1> SUFFICES ASSUME Healthy, TypeOK, TxnInv, LoopbackInv, HookInv, [Next]_vars,
                    NEW c \in Backends
             PROVE  savepoints'[c] = <<>> /\ ElementsOf(hooks'[c]) \subseteq dropped'[c]
  BY DEF HookInv, ElementsOf
<1> USE BackendsDiffer DEF txnVars, callVars
<1>1. savepoints[c] = <<>> /\ ElementsOf(hooks[c]) \subseteq dropped[c]
  BY DEF HookInv
<1>2. ASSUME savepoints'[c] = savepoints[c], hooks'[c] = hooks[c], dropped'[c] = dropped[c]
      PROVE  savepoints'[c] = <<>> /\ ElementsOf(hooks'[c]) \subseteq dropped'[c]
  BY <1>1, <1>2
<1>3. ASSUME NEW B \in SUBSET Backends, EndTxns(B)
      PROVE  savepoints'[c] = <<>> /\ ElementsOf(hooks'[c]) \subseteq dropped'[c]
  <2>1. ElementsOf(<<>>) = {}
    BY DEF ElementsOf
  <2> QED
    BY <1>2, <1>3, <2>1, EndTxnsEffect
<1>4. CASE UNCHANGED vars \/ DropExtension \/ CreateExtension
  BY <1>2, <1>4 DEF vars, DropExtension, CreateExtension
<1>5. ASSUME NEW b \in Backends, Commit(b)
      PROVE  savepoints'[c] = <<>> /\ ElementsOf(hooks'[c]) \subseteq dropped'[c]
  BY <1>3, <1>5 DEF Commit
<1>6. ASSUME NEW s \in Sessions, Rollback(s) \/ CallFails(s)
      PROVE  savepoints'[c] = <<>> /\ ElementsOf(hooks'[c]) \subseteq dropped'[c]
  <2>1. StatementFails(s)
    BY <1>6 DEF Rollback, CallFails, StatementFails
  <2>2. EndTxns({Client(s)})
    BY <2>1, StatementFailsEffect DEF HookInv
  <2> QED
    BY <1>3, <2>2
<1>7. ASSUME NEW b \in Backends, PreCommitOk(b)
      PROVE  savepoints'[c] = <<>> /\ ElementsOf(hooks'[c]) \subseteq dropped'[c]
  <2>1. /\ hooks' = [hooks EXCEPT ![b] = Tail(hooks[b])] /\ hooks[b] # <<>>
        /\ UNCHANGED <<savepoints, dropped>>
    BY <1>7 DEF PreCommitOk
  <2>2. CASE c = b
    <3>1. hooks[c] \in Seq(Names) /\ hooks'[c] = Tail(hooks[c])
      BY <2>1, <2>2 DEF TypeOK
    <3>2. ElementsOf(Tail(hooks[c])) \subseteq ElementsOf(hooks[c])
      BY <2>1, <2>2, <3>1, TailElements
    <3> QED
      BY <1>1, <2>1, <3>1, <3>2
  <2>3. CASE c # b
    BY <1>2, <2>1, <2>3 DEF TypeOK
  <2> QED
    BY <2>2, <2>3
<1>8. ASSUME NEW s \in Sessions, NEW n \in Names, DropTable(s, n)
      PROVE  savepoints'[c] = <<>> /\ ElementsOf(hooks'[c]) \subseteq dropped'[c]
  <2>1. /\ hooks' = [hooks EXCEPT ![Client(s)] = Append(@, n)]
        /\ dropped' = [dropped EXCEPT ![Client(s)] = @ \cup {n}]
        /\ UNCHANGED savepoints
    BY <1>8 DEF DropTable, HookName
  <2>2. CASE c = Client(s)
    <3>1. hooks[c] \in Seq(Names) /\ hooks'[c] = Append(hooks[c], n)
      BY <2>1, <2>2 DEF TypeOK
    <3>2. dropped'[c] = dropped[c] \cup {n}
      BY <2>1, <2>2 DEF TypeOK
    <3>3. ElementsOf(Append(hooks[c], n)) = ElementsOf(hooks[c]) \cup {n}
      BY <3>1, AppendElements
    <3> QED
      BY <1>1, <2>1, <3>1, <3>2, <3>3
  <2>3. CASE c # Client(s)
    BY <1>2, <2>1, <2>3 DEF TypeOK
  <2> QED
    BY <2>2, <2>3
<1>9. ASSUME NEW s \in Sessions, Cleanup(s)
      PROVE  savepoints'[c] = <<>> /\ ElementsOf(hooks'[c]) \subseteq dropped'[c]
  <2>1. /\ hooks' = [hooks EXCEPT ![Loopback(s)] = <<name[s]>>]
        /\ dropped' = [dropped EXCEPT ![Loopback(s)] = {name[s]}]
        /\ UNCHANGED savepoints
    BY <1>9 DEF Cleanup, HookName
  <2>2. CASE c = Loopback(s)
    <3>1. hooks'[c] = <<name[s]>> /\ dropped'[c] = {name[s]}
      BY <2>1, <2>2 DEF TypeOK
    <3> QED
      BY <1>1, <2>1, <3>1 DEF ElementsOf
  <2>3. CASE c # Loopback(s)
    BY <1>2, <2>1, <2>3 DEF TypeOK
  <2> QED
    BY <2>2, <2>3
<1>10. ASSUME NEW s \in Sessions, RollbackTo(s) \/ Savepoint(s) PROVE FALSE
  BY <1>10 DEF RollbackTo, BackToSavepoint, Savepoint, Quiet, HookInv
<1>11. ASSUME NEW s \in Sessions,
              \/ Begin(s) \/ Write(s) \/ StartCommit(s)
              \/ \E n \in Names : create_table(s, n)
              \/ CreateMirror(s) \/ SendRpc(s)
              \/ RpcAccepted(s) \/ RpcRejected(s) \/ CallReturns(s)
       PROVE  savepoints'[c] = <<>> /\ ElementsOf(hooks'[c]) \subseteq dropped'[c]
  BY <1>2, <1>11 DEF Begin, Write, StartCommit, create_table, CreateMirror, SendRpc,
                     RpcAccepted, RpcRejected, CallReturns
<1> QED
  BY CalmCases, <1>4, <1>5, <1>6, <1>7, <1>8, <1>9, <1>10, <1>11 DEF Quiet

\* No clean-up ends before its mirror is gone.
LEMMA CleanStep ==
  ASSUME Calm
  PROVE  Healthy /\ TypeOK /\ OidInv /\ OwnInv /\ CleanInv /\ [Next]_vars => CleanInv'
<1> DEFINE Clean(t) == \/ mirror[name[t]] # oid[t]
                       \/ /\ txn[Loopback(t)] = "committing"
                          /\ name[t] \in dropped[Loopback(t)]
<1> SUFFICES ASSUME Healthy, TypeOK, OidInv, OwnInv, CleanInv, [Next]_vars,
                    NEW t \in Sessions, pc'[t] = "cleanup"
             PROVE  Clean(t)'
  BY DEF CleanInv
<1> USE BackendsDiffer DEF txnVars, callVars
<1>1. pc[t] = "cleanup" => Clean(t) /\ oid[t] # NoOid /\ name[t] \in Names
  BY DEF CleanInv, OwnInv, TypeOK, Calling
<1>2. ASSUME pc[t] = "cleanup", name'[t] = name[t], oid'[t] = oid[t],
             mirror'[name[t]] \in {mirror[name[t]], NoOid},
             txn'[Loopback(t)] = txn[Loopback(t)],
             dropped'[Loopback(t)] = dropped[Loopback(t)]
      PROVE  Clean(t)'
  BY <1>1, <1>2
<1>3. CASE UNCHANGED vars \/ CreateExtension
  BY <1>1, <1>2, <1>3 DEF vars, CreateExtension
<1>4. CASE DropExtension
  BY <1>1, <1>2, <1>4 DEF DropExtension
<1>5. ASSUME NEW b \in Backends, PreCommitOk(b) PROVE Clean(t)'
  BY <1>2, <1>5 DEF PreCommitOk
<1>6. ASSUME NEW b \in Backends, Commit(b) PROVE Clean(t)'
  <2>1. /\ EndTxns({b}) /\ UNCHANGED <<pc, name, oid>>
        /\ mirror' = [n \in Names |-> IF n \in dropped[b] THEN NoOid ELSE mirror[n]]
    BY <1>6 DEF Commit
  <2>2. CASE b = Loopback(t)
    <3>1. CASE name[t] \in dropped[b]
      BY <1>1, <2>1, <3>1
    <3>2. CASE name[t] \notin dropped[b]
      BY <1>1, <2>1, <2>2, <3>2
    <3> QED
      BY <3>1, <3>2
  <2>3. CASE b # Loopback(t)
    BY <1>1, <1>2, <2>1, <2>3, EndTxnsEffect
  <2> QED
    BY <2>2, <2>3
<1>7. ASSUME NEW s \in Sessions, Rollback(s) \/ RollbackTo(s) PROVE Clean(t)'
  <2>1. StatementFails(s) /\ UNCHANGED <<mirror, pc, name, oid>>
    BY <1>7 DEF Rollback, RollbackTo, StatementFails
  <2> QED
    BY <1>2, <2>1, StatementFailsEffect
<1>8. ASSUME NEW s \in Sessions, CallFails(s) PROVE Clean(t)'
  <2>1. /\ pc[t] = "cleanup" /\ name'[t] = name[t] /\ oid'[t] = oid[t]
        /\ StatementFails(s) /\ mirror' = mirror
    BY <1>8 DEF CallFails, CallEnds, TypeOK
  <2> QED
    BY <1>2, <2>1, StatementFailsEffect
<1>9. ASSUME NEW s \in Sessions, Cleanup(s) PROVE Clean(t)'
  <2>1. CASE s = t
    BY <1>9, <2>1 DEF Cleanup, TypeOK
  <2>2. CASE s # t
    BY <1>2, <1>9, <2>2 DEF Cleanup, TypeOK
  <2> QED
    BY <2>1, <2>2
<1>10. ASSUME NEW s \in Sessions, CreateMirror(s) PROVE Clean(t)'
  <2>1. /\ s # t /\ pc[t] = "cleanup" /\ oid'[t] = oid[t]
        /\ mirror' = [mirror EXCEPT ![name[s]] = nextOid]
        /\ UNCHANGED <<name, txn, dropped>>
    BY <1>10 DEF CreateMirror, TypeOK
  <2>2. CASE name[t] = name[s]
    <3>1. mirror'[name[t]] = nextOid
      BY <1>1, <2>1, <2>2 DEF TypeOK
    <3>2. oid[t] < nextOid /\ oid[t] \in Nat /\ nextOid \in Nat
      BY DEF OidInv, TypeOK
    <3>3. oid[t] # nextOid
      BY <3>2
    <3> QED
      BY <2>1, <3>1, <3>3
  <2>3. CASE name[t] # name[s]
    BY <1>1, <1>2, <2>1, <2>3 DEF TypeOK
  <2> QED
    BY <2>2, <2>3
<1>11. ASSUME NEW s \in Sessions,
              \/ Begin(s) \/ Write(s) \/ Savepoint(s) \/ StartCommit(s)
              \/ \E n \in Names : DropTable(s, n)
       PROVE  Clean(t)'
  BY <1>2, <1>11 DEF Begin, Write, Savepoint, StartCommit, DropTable, TypeOK
<1>12. ASSUME NEW s \in Sessions,
              \/ \E n \in Names : create_table(s, n)
              \/ SendRpc(s) \/ RpcAccepted(s) \/ RpcRejected(s) \/ CallReturns(s)
       PROVE  Clean(t)'
  <2>1. pc[t] = "cleanup" /\ name'[t] = name[t] /\ oid'[t] = oid[t]
    BY <1>12 DEF create_table, SendRpc, RpcAccepted, RpcRejected, CallReturns,
                 CallEnds, TypeOK
  <2>2. UNCHANGED <<mirror, txn, dropped>>
    BY <1>12 DEF create_table, SendRpc, RpcAccepted, RpcRejected, CallReturns
  <2> QED
    BY <1>2, <2>1, <2>2
<1> QED
  BY CalmCases, <1>3, <1>4, <1>5, <1>6, <1>7, <1>8, <1>9, <1>10, <1>11, <1>12

\* How a call fails.
LEMMA FailureCases ==
  ASSUME Calm, Healthy, TypeOK, [Next]_vars, NEW s \in Sessions,
         pc[s] \notin {"idle", "accepted"}, pc'[s] = "idle"
  PROVE  /\ CallFails(s)
         /\ \/ pc[s] = "loopback"
            \/ pc[s] = "refused" /\ mirror[name[s]] = NoOid
            \/ pc[s] = "cleanup" /\ txn[Loopback(s)] = "idle"
<1> USE DEF txnVars, callVars
<1>1. CASE UNCHANGED vars \/ DropExtension \/ CreateExtension
  BY <1>1 DEF vars, DropExtension, CreateExtension
<1>2. ASSUME NEW b \in Backends, PreCommitOk(b) \/ Commit(b) PROVE FALSE
  BY <1>2 DEF PreCommitOk, Commit
<1>3. ASSUME NEW t \in Sessions,
             \/ Begin(t) \/ Write(t) \/ Savepoint(t) \/ RollbackTo(t) \/ Rollback(t)
             \/ StartCommit(t) \/ \E m \in Names : DropTable(t, m)
      PROVE  FALSE
  BY <1>3 DEF Begin, Write, Savepoint, RollbackTo, Rollback, StartCommit, DropTable
<1>4. ASSUME NEW t \in Sessions,
             \/ \E m \in Names : create_table(t, m)
             \/ CreateMirror(t) \/ SendRpc(t) \/ RpcAccepted(t) \/ RpcRejected(t)
             \/ CallReturns(t) \/ Cleanup(t)
      PROVE  FALSE
  BY <1>4 DEF create_table, CreateMirror, SendRpc, RpcAccepted, RpcRejected,
              CallReturns, CallEnds, Cleanup, TypeOK
<1>5. ASSUME NEW t \in Sessions, CallFails(t), t # s PROVE FALSE
  BY <1>5 DEF CallFails, CallEnds, TypeOK
<1> QED
  BY CalmCases, <1>1, <1>2, <1>3, <1>4, <1>5

\* A call that fails leaves no mirror of its own.
LEMMA FailureLeavesNothing ==
  ASSUME Calm, Healthy, TypeOK, OwnInv, CleanInv, [Next]_vars, NEW s \in Sessions,
         oid[s] # NoOid, pc[s] # "accepted", pc'[s] = "idle"
  PROVE  mirror[name[s]] # oid[s] /\ mirror' = mirror
<1>1. pc[s] \notin {"idle", "loopback"}
  BY DEF OwnInv
<1>2. /\ CallFails(s)
      /\ \/ pc[s] = "refused" /\ mirror[name[s]] = NoOid
         \/ pc[s] = "cleanup" /\ txn[Loopback(s)] = "idle"
  BY <1>1, FailureCases
<1> QED
  BY <1>2 DEF CallFails, CleanInv

\* A transaction that has dropped a mirror and is committing ends by its commit.
LEMMA DropsAreCommitted ==
  ASSUME Calm, Healthy, TypeOK, CallerInv, [Next]_vars, NEW b \in Backends,
         NEW n \in Names, Dropping(b, n), txn'[b] = "idle"
  PROVE  mirror'[n] = NoOid
<1> USE BackendsDiffer DEF txnVars, callVars, Dropping
<1>1. CASE UNCHANGED vars \/ DropExtension \/ CreateExtension
  BY <1>1 DEF vars, DropExtension, CreateExtension
<1>2. ASSUME NEW c \in Backends, PreCommitOk(c) PROVE FALSE
  BY <1>2 DEF PreCommitOk
<1>3. ASSUME NEW c \in Backends, Commit(c) PROVE mirror'[n] = NoOid
  <2>1. c = b
    BY <1>3, EndTxnsEffect DEF Commit
  <2> QED
    BY <1>3, <2>1 DEF Commit
<1>4. ASSUME NEW s \in Sessions, Rollback(s) \/ RollbackTo(s) PROVE FALSE
  <2>1. txn[Client(s)] = "open" /\ StatementFails(s)
    BY <1>4 DEF Rollback, RollbackTo, StatementFails, Ready
  <2> QED
    BY <2>1, StatementFailsEffect
<1>5. ASSUME NEW s \in Sessions, CallFails(s), pc[s] # "idle" PROVE FALSE
  <2>1. txn[Client(s)] = "open" /\ StatementFails(s)
    BY <1>5 DEF CallerInv, Calling, CallFails
  <2> QED
    BY <2>1, StatementFailsEffect
<1>6. ASSUME NEW s \in Sessions,
             \/ Begin(s) \/ Write(s) \/ Savepoint(s) \/ StartCommit(s)
             \/ \E m \in Names : DropTable(s, m) \/ create_table(s, m)
      PROVE  FALSE
  BY <1>6 DEF Begin, Write, Savepoint, StartCommit, DropTable, create_table, TypeOK
<1>7. ASSUME NEW s \in Sessions,
             \/ CreateMirror(s) \/ SendRpc(s) \/ RpcAccepted(s) \/ RpcRejected(s)
             \/ CallReturns(s) \/ Cleanup(s)
      PROVE  FALSE
  BY <1>7 DEF CreateMirror, SendRpc, RpcAccepted, RpcRejected, CallReturns, Cleanup,
              TypeOK
<1> QED
  BY CalmCases, <1>1, <1>2, <1>3, <1>4, <1>5, <1>6, <1>7

CallInv == Healthy /\ OwnInv /\ CleanInv
SyncInv == CallInv /\ HookInv /\ MirrorsAreRegistered

\* What a call knows of its mirror, and its clean-up.
LEMMA CallInvStep ==
  ASSUME Calm
  PROVE  CommitInv /\ RaceInv /\ CallInv /\ [Next]_vars => CallInv'
BY HealthyStep, OwnStep, CleanStep DEF CallInv, CommitInv, RaceInv

LEMMA CallInvInit == Init => CallInv
BY DEF Init, CallInv, Healthy, OwnInv, CleanInv

\* Mirrors stay in sync.
LEMMA SyncInvStep ==
  ASSUME Quiet
  PROVE  CommitInv /\ CallerInv /\ RaceInv /\ SyncInv /\ [Next]_vars => SyncInv'
<1> SUFFICES ASSUME CommitInv, CallerInv, RaceInv, SyncInv, [Next]_vars
             PROVE  SyncInv'
  OBVIOUS
<1>0. /\ Calm /\ Healthy /\ OwnInv /\ CleanInv /\ HookInv /\ MirrorsAreRegistered
      /\ TypeOK /\ TxnInv /\ LoopbackInv /\ OidInv
  BY DEF Quiet, SyncInv, CallInv, CommitInv, RaceInv
<1>1. CallInv' /\ HookInv'
  BY <1>0, CallInvStep, HookStep DEF CallInv
<1>2. ASSUME NEW n \in Names PROVE InSync(n)'
  <2>1. InSync(n)
    BY <1>0 DEF MirrorsAreRegistered
  <2>2. InSync(n)' \/ Explained(n)
    BY <2>1, StepExplained
  <2>3. ASSUME NEW s \in Sessions, Creating(s, n), pc'[s] = "idle" PROVE FALSE
    BY <1>0, <2>3, FailureLeavesNothing DEF Creating, OwnInv
  <2>4. ASSUME NEW b \in Backends, Dropping(b, n), txn'[b] = "idle" PROVE InSync(n)'
    BY <1>0, <2>4, DropsAreCommitted DEF InSync
  <2>5. ASSUME NEW b \in Backends, HasStaleHook(b, n) PROVE FALSE
    <3>1. hooks[b] \in Seq(Names) /\ hooks[b] # <<>> /\ Head(hooks[b]) = n
      BY <1>0, <2>5 DEF HasStaleHook, TypeOK
    <3>2. n \in ElementsOf(hooks[b])
      BY <3>1, TailElements
    <3> QED
      BY <1>0, <2>5, <3>2 DEF HookInv, HasStaleHook
  <2> QED
    BY <2>2, <2>3, <2>4, <2>5 DEF Explained
<1> QED
  BY <1>1, <1>2 DEF SyncInv, MirrorsAreRegistered

\* If moonlink refuses nothing but tables, no transaction is aborted once it has run
\* its callbacks, clients use no savepoints and the server does not restart, then
\* moonlink knows every mirror that is not being created or dropped.
THEOREM MirrorsStayRegistered ==
  ASSUME Quiet
  PROVE  Spec => []MirrorsAreRegistered
<1>1. Init => SyncInv
  <2> SUFFICES ASSUME Init PROVE HookInv /\ MirrorsAreRegistered
    BY CallInvInit DEF SyncInv
  <2>1. MirrorsAreRegistered
    BY DEF Init, MirrorsAreRegistered, InSync
  <2>2. HookInv
    BY DEF Init, HookInv, ElementsOf
  <2> QED
    BY <2>1, <2>2
<1>2. SyncInv => MirrorsAreRegistered
  BY DEF SyncInv
<1> QED
  BY <1>1, <1>2, SyncInvStep, CommitInvHolds, CallerInvHolds, RaceInvHolds, PTL DEF Spec

\* If moonlink refuses nothing but tables, so that no stream is poisoned, and the
\* clean-up gets its connection and its commit, then a call of create_table that
\* fails takes its mirror with it, whatever clients roll back to savepoints.
THEOREM FailedCallsCleanUp ==
  ASSUME Calm
  PROVE  Spec => FailedCreateLeavesNoMirror
<1>1. CommitInv /\ CallInv /\ [Next]_vars =>
        [\A s \in Sessions :
           oid[s] # NoOid /\ pc[s] # "accepted" /\ pc'[s] = "idle"
             => mirror'[name[s]] # oid[s] \/ registered'[name[s]] = oid[s]]_vars
  BY FailureLeavesNothing DEF CommitInv, CallInv
<1> QED
  BY <1>1, CallInvInit, CallInvStep, CommitInvHolds, RaceInvHolds, PTL
     DEF Spec, FailedCreateLeavesNoMirror

-----------------------------------------------------------------------------
(***************************************************************************)
(* How MirrorTables implements MirrorRegistry, whatever fails.             *)
(***************************************************************************)

\* A mirror has one name, and was made by one call.
OnceInv ==
  /\ \A n, m \in Names : mirror[n] = mirror[m] => n = m \/ mirror[n] = NoOid
  /\ \A s \in Sessions, n \in Names :
       oid[s] = mirror[n] => name[s] = n \/ oid[s] = NoOid
  /\ \A s, t \in Sessions : oid[s] = oid[t] => s = t \/ oid[s] = NoOid

\* The call of t, if it goes on, is for the mirror it has made.
CallKept(t) ==
  /\ oid'[t] # NoOid => oid'[t] = oid[t] /\ name'[t] = name[t]
  /\ InFlight(t)' => InFlight(t)

\* Only CreateMirror makes a mirror and starts waiting for moonlink.
LEMMA CallsKept ==
  ASSUME TypeOK, OwnInv, [Next]_vars, NEW t \in Sessions
  PROVE  CallKept(t) \/ \E s \in Sessions : CreateMirror(s)
<1> USE DEF txnVars, callVars
<1>1. ASSUME UNCHANGED <<pc, name, oid>> PROVE CallKept(t)
  BY <1>1 DEF CallKept, InFlight
<1>2. CASE UNCHANGED vars \/ DropExtension \/ CreateExtension
  BY <1>1, <1>2 DEF vars, DropExtension, CreateExtension
<1>3. CASE Crash
  BY <1>3 DEF Crash, CallKept, InFlight
<1>4. ASSUME NEW b \in Backends,
             PreCommitOk(b) \/ PreCommitFails(b) \/ CommitFails(b) \/ Commit(b)
      PROVE  CallKept(t)
  BY <1>1, <1>4 DEF PreCommitOk, PreCommitFails, CommitFails, CommitAborts, Commit
<1>5. ASSUME NEW s \in Sessions,
             \/ Begin(s) \/ Write(s) \/ Savepoint(s) \/ RolledBackTo(s)
             \/ RolledBack(s) \/ StartCommit(s) \/ \E n \in Names : DropTable(s, n)
      PROVE  CallKept(t)
  BY <1>1, <1>5 DEF Begin, Write, Savepoint, RolledBackTo, RolledBack, StartCommit,
                    DropTable
<1>6. ASSUME NEW s \in Sessions, \E n \in Names : create_table(s, n)
      PROVE  CallKept(t)
  BY <1>6 DEF create_table, Ready, Calling, OwnInv, TypeOK, CallKept, InFlight
<1>7. ASSUME NEW s \in Sessions,
             SendRpc(s) \/ RpcAccepted(s) \/ RpcRejected(s) \/ RpcLost(s) \/ Cleanup(s)
      PROVE  CallKept(t)
  BY <1>7 DEF SendRpc, RpcAccepted, RpcRejected, RpcLost, Cleanup, TypeOK, CallKept,
              InFlight
<1>8. ASSUME NEW s \in Sessions, CallReturns(s) \/ CallFails(s)
      PROVE  CallKept(t)
  BY <1>8 DEF CallReturns, CallFails, CallEnds, TypeOK, CallKept, InFlight
<1> QED
  BY StepCases, <1>2, <1>3, <1>4, <1>5, <1>6, <1>7, <1>8

\* All other steps leave the catalog alone, or take mirrors away.
LEMMA MirrorsKept ==
  ASSUME TypeOK, [Next]_vars, NEW n \in Names
  PROVE  mirror'[n] \in {mirror[n], NoOid} \/ \E s \in Sessions : CreateMirror(s)
<1>1. CASE UNCHANGED vars
  BY <1>1 DEF vars
<1>2. ASSUME NEW b \in Backends, Commit(b) PROVE mirror'[n] \in {mirror[n], NoOid}
  BY <1>2 DEF Commit
<1>3. CASE DropExtension
  BY <1>3 DEF DropExtension
<1>4. ASSUME NEW s \in Sessions,
             \/ Begin(s) \/ Write(s) \/ Savepoint(s) \/ RolledBackTo(s)
             \/ RolledBack(s) \/ StartCommit(s)
             \/ \E m \in Names : DropTable(s, m) \/ create_table(s, m)
      PROVE  mirror' = mirror
  BY <1>4 DEF Begin, Write, Savepoint, RolledBackTo, RolledBack, StartCommit, DropTable,
              create_table
<1>5. ASSUME NEW s \in Sessions,
             \/ SendRpc(s) \/ RpcAccepted(s) \/ RpcRejected(s) \/ RpcLost(s)
             \/ CallReturns(s) \/ Cleanup(s) \/ CallFails(s)
      PROVE  mirror' = mirror
  BY <1>5 DEF SendRpc, RpcAccepted, RpcRejected, RpcLost, CallReturns, Cleanup, CallFails
<1>6. ASSUME \/ Crash \/ CreateExtension
             \/ \E b \in Backends : PreCommitOk(b) \/ PreCommitFails(b) \/ CommitFails(b)
      PROVE  mirror' = mirror
  BY <1>6 DEF Crash, CreateExtension, PreCommitOk, PreCommitFails, CommitFails,
              CommitAborts
<1> QED
  BY StepCases, <1>1, <1>2, <1>3, <1>4, <1>5, <1>6

\* Every step keeps mirrors apart.
LEMMA OnceStep == TypeOK /\ OwnInv /\ OidInv /\ OnceInv /\ [Next]_vars => OnceInv'
<1> SUFFICES ASSUME TypeOK, OwnInv, OidInv, OnceInv, [Next]_vars
             PROVE  OnceInv'
  OBVIOUS
<1>1. CASE \E s \in Sessions : CreateMirror(s)
  <2> PICK s \in Sessions : CreateMirror(s)
    BY <1>1
  <2>1. /\ name[s] \in Names /\ name' = name
        /\ \A n \in Names : mirror'[n] = IF n = name[s] THEN nextOid ELSE mirror[n]
        /\ \A t \in Sessions : oid'[t] = IF t = s THEN nextOid ELSE oid[t]
    BY DEF CreateMirror, TypeOK, Calling
  <2>2. /\ \A n \in Names : mirror[n] # nextOid
        /\ \A t \in Sessions : oid[t] # nextOid
    <3>1. /\ nextOid \in Nat /\ \A n \in Names : mirror[n] \in Nat
          /\ \A t \in Sessions : oid[t] \in Nat
      BY DEF TypeOK
    <3> QED
      BY <3>1 DEF OidInv
  <2>3. \A n, m \in Names : mirror'[n] = mirror'[m] => n = m \/ mirror'[n] = NoOid
    BY <2>1, <2>2 DEF OnceInv
  <2>4. \A t \in Sessions, n \in Names :
          oid'[t] = mirror'[n] => name'[t] = n \/ oid'[t] = NoOid
    BY <2>1, <2>2 DEF OnceInv
  <2>5. \A t, u \in Sessions : oid'[t] = oid'[u] => t = u \/ oid'[t] = NoOid
    BY <2>1, <2>2 DEF OnceInv
  <2> QED
    BY <2>3, <2>4, <2>5 DEF OnceInv
<1>2. CASE ~\E s \in Sessions : CreateMirror(s)
  <2>1. \A n \in Names : mirror'[n] \in {mirror[n], NoOid}
    BY <1>2, MirrorsKept
  <2>2. \A t \in Sessions : oid'[t] # NoOid => oid'[t] = oid[t] /\ name'[t] = name[t]
    BY <1>2, CallsKept DEF CallKept
  <2>3. \A n, m \in Names : mirror'[n] = mirror'[m] => n = m \/ mirror'[n] = NoOid
    BY <2>1 DEF OnceInv
  <2>4. \A t \in Sessions, n \in Names :
          oid'[t] = mirror'[n] => name'[t] = n \/ oid'[t] = NoOid
    BY <2>1, <2>2 DEF OnceInv
  <2>5. \A t, u \in Sessions : oid'[t] = oid'[u] => t = u \/ oid'[t] = NoOid
    BY <2>2 DEF OnceInv
  <2> QED
    BY <2>3, <2>4, <2>5 DEF OnceInv
<1> QED
  BY <1>1, <1>2

\* The creations that still go on, as MirrorRegistry sees them.
Pending == {<<name[s], oid[s]>> : s \in {t \in Sessions : InFlight(t)}}

\* Its members, and those after a step.
LEMMA PendingMembers ==
  /\ \A n, o : <<n, o>> \in Pending <=>
                 \E s \in Sessions : InFlight(s) /\ name[s] = n /\ oid[s] = o
  /\ \A p \in Pending : \E s \in Sessions : InFlight(s) /\ p = <<name[s], oid[s]>>
BY DEF Pending

LEMMA PendingMembersNext ==
  /\ \A n, o : <<n, o>> \in Pending' <=>
                 \E s \in Sessions : InFlight(s)' /\ name'[s] = n /\ oid'[s] = o
  /\ \A p \in Pending' : \E s \in Sessions : InFlight(s)' /\ p = <<name'[s], oid'[s]>>
BY DEF Pending

\* moonlink knows the same mirrors to both.
LEMMA SameKnown ==
  ASSUME OnceInv, NEW n \in Names
  PROVE  Registry!Known(n) <=> Known(n)
<1>1. Registry!Known(n) <=> /\ mirror[n] # NoOid
                            /\ registered[n] = mirror[n] \/ <<n, mirror[n]>> \in Pending
  BY DEF Registry!Known, Pending, NoOid
<1> QED
  BY <1>1, PendingMembers DEF Known, OnceInv

\* Initial states map to initial states.
LEMMA RegistryInit == Init => Registry!Init
<1> SUFFICES ASSUME Init PROVE Registry!Init
  OBVIOUS
<1>1. Pending = {}
  BY PendingMembers DEF Init, InFlight
<1> QED
  BY <1>1 DEF Init, Registry!Init, Pending, NoOid

\* Steps that register nothing, and leave the catalog and its history alone.
LEMMA StepGivesUp ==
  ASSUME OwnInv', UNCHANGED <<mirror, registered, nextOid, raced>>,
         \A t \in Sessions : CallKept(t)
  PROVE  Registry!GiveUp
<1>1. Pending' \subseteq Pending
  <2> SUFFICES ASSUME NEW p \in Pending' PROVE p \in Pending
    OBVIOUS
  <2>1. PICK s \in Sessions : InFlight(s)' /\ p = <<name'[s], oid'[s]>>
    BY PendingMembersNext
  <2>2. oid'[s] # NoOid
    BY <2>1 DEF OwnInv, InFlight
  <2> QED
    BY <2>1, <2>2, PendingMembers DEF CallKept
<1> QED
  BY <1>1 DEF Registry!GiveUp, Pending

\* A callback, answered or not: moonlink forgets its name, if anything.
LEMMA CallbackForgets ==
  ASSUME TypeOK, OwnInv, OnceInv, NEW b \in Backends,
         PreCommitOk(b) \/ PreCommitFails(b)
  PROVE  \/ \E n \in Names : Registry!Forget(n)
         \/ UNCHANGED <<mirror, registered, nextOid, raced>>
<1> DEFINE h == Head(hooks[b])
<1>1. h \in Names
  BY TailElements DEF PreCommitOk, PreCommitFails, TypeOK
<1> SUFFICES ASSUME ~UNCHANGED <<mirror, registered, nextOid, raced>>
             PROVE  \E n \in Names : Registry!Forget(n)
  OBVIOUS
<1>2. /\ registered' = [registered EXCEPT ![h] = 0]
      /\ UNCHANGED <<mirror, nextOid, pc, name, oid>>
  BY DEF PreCommitOk, PreCommitFails, CommitAborts, Forget, NoOid, callVars
<1>3. Pending' = Pending
  BY <1>2 DEF Pending, InFlight
<1>4. \/ UNCHANGED raced
      \/ <<h, mirror[h]>> \in Pending /\ raced' = raced \cup {mirror[h]}
  <2>1. CASE PreCommitFails(b)
    BY <2>1 DEF PreCommitFails, CommitAborts
  <2>2. ASSUME PreCommitOk(b), raced' # raced
        PROVE  <<h, mirror[h]>> \in Pending /\ raced' = raced \cup {mirror[h]}
    <3>1. /\ raced' = raced \cup {mirror[h]}
          /\ \E s \in Sessions : InFlight(s) /\ oid[s] = mirror[h]
      BY <2>2 DEF PreCommitOk, NoteRace
    <3>2. PICK s \in Sessions : InFlight(s) /\ oid[s] = mirror[h]
      BY <3>1
    <3>3. name[s] = h
      BY <1>1, <3>2 DEF OnceInv, OwnInv, InFlight
    <3> QED
      BY <3>1, <3>2, <3>3, PendingMembers
  <2> QED
    BY <2>1, <2>2
<1> HIDE DEF h
<1>5. Registry!Forget(h)
  BY <1>2, <1>3, <1>4 DEF Registry!Forget, Pending
<1> QED
  BY <1>1, <1>5

\* A commit drops what moonlink has forgotten.
LEMMA CommitDrops ==
  ASSUME CommitInv, AckInv, OnceInv, NEW b \in Backends, Commit(b)
  PROVE  Registry!Drop(dropped[b]) /\ dropped[b] \in SUBSET Names
<1>0. TypeOK /\ TxnInv
  BY DEF CommitInv
<1>1. dropped[b] \in SUBSET Names
  BY <1>0 DEF TypeOK
<1>2. /\ mirror' = [n \in Names |-> IF n \in dropped[b] THEN 0 ELSE mirror[n]]
      /\ UNCHANGED <<registered, nextOid, pc, name, oid, raced>>
  BY DEF Commit, NoOid
<1>3. Pending' = Pending
  BY <1>2 DEF Pending, InFlight
<1>4. ASSUME NEW n \in dropped[b], Registry!Known(n) PROVE mirror[n] \in raced
  <2>1. Known(n)
    BY <1>1, <1>4, SameKnown
  <2>2. ElementsOf(hooks[b]) = {}
    BY DEF Commit, ElementsOf
  <2>3. n \in acked[b]
    BY <1>0, <2>2 DEF TxnInv, BackendInv
  <2> QED
    BY <2>1, <2>3 DEF AckInv, Known
<1>5. Registry!Drop(dropped[b])
  BY <1>2, <1>3, <1>4 DEF Registry!Drop, Pending
<1> QED
  BY <1>1, <1>5

\* The extension takes the whole catalog with it.
LEMMA ExtensionDropsAll ==
  ASSUME OnceInv, DropExtension
  PROVE  Registry!DropAll
<1>1. /\ mirror' = [n \in Names |-> 0]
      /\ raced' = raced \cup {mirror[n] : n \in {m \in Names : Known(m)}}
      /\ UNCHANGED <<registered, nextOid, pc, name, oid>>
  BY DEF DropExtension, NoOid, callVars
<1>2. Pending' = Pending
  BY <1>1 DEF Pending, InFlight
<1>3. {m \in Names : Known(m)} = {m \in Names : Registry!Known(m)}
  BY SameKnown
<1> QED
  BY <1>1, <1>2, <1>3 DEF Registry!DropAll, Pending

\* The loopback makes a mirror, whose call from then on waits for moonlink.
LEMMA CreateMakes ==
  ASSUME TypeOK, OwnInv, NEW s \in Sessions, CreateMirror(s)
  PROVE  \E n \in Names : Registry!Make(n)
<1>1. /\ name[s] \in Names /\ mirror[name[s]] = 0
      /\ mirror' = [mirror EXCEPT ![name[s]] = nextOid] /\ nextOid' = nextOid + 1
      /\ UNCHANGED <<registered, raced, name>>
  BY DEF CreateMirror, TypeOK, Calling, NoOid
<1>2. /\ ~InFlight(s) /\ InFlight(s)' /\ oid'[s] = nextOid
      /\ \A t \in Sessions \ {s} : (InFlight(t)' <=> InFlight(t)) /\ oid'[t] = oid[t]
  BY DEF CreateMirror, TypeOK, InFlight
<1>3. Pending' = Pending \cup {<<name[s], nextOid>>}
  <2>1. ASSUME NEW p \in Pending' PROVE p \in Pending \cup {<<name[s], nextOid>>}
    BY <1>1, <1>2, <2>1, PendingMembers, PendingMembersNext
  <2>2. ASSUME NEW p \in Pending PROVE p \in Pending'
    BY <1>1, <1>2, <2>2, PendingMembers, PendingMembersNext
  <2>3. <<name[s], nextOid>> \in Pending'
    BY <1>1, <1>2, PendingMembersNext
  <2> QED
    BY <2>1, <2>2, <2>3
<1>4. PICK n \in Names : n = name[s]
  BY <1>1
<1>5. Registry!Make(n)
  BY <1>1, <1>3, <1>4 DEF Registry!Make, Pending
<1> QED
  BY <1>5

\* moonlink registers the mirror of a call, whose creation is then over.
LEMMA AcceptedRegisters ==
  ASSUME TypeOK, OwnInv, OnceInv, FlightInv, NEW s \in Sessions, RpcAccepted(s)
  PROVE  \E p \in Pending : Registry!Register(p[1], p[2])
<1>1. /\ registered[name[s]] = 0
      /\ registered' = [registered EXCEPT ![name[s]] = oid[s]]
      /\ UNCHANGED <<mirror, nextOid, name, oid, raced>>
  BY DEF RpcAccepted, NoOid
<1>2. /\ InFlight(s) /\ ~InFlight(s)' /\ oid[s] # NoOid
      /\ \A t \in Sessions \ {s} : (InFlight(t)' <=> InFlight(t))
  BY DEF RpcAccepted, TypeOK, InFlight, OwnInv
<1>3. <<name[s], oid[s]>> \in Pending
  BY <1>2, PendingMembers
<1>4. mirror[name[s]] = oid[s] \/ oid[s] \in raced
  BY <1>2 DEF FlightInv
<1>5. Pending' = Pending \ {<<name[s], oid[s]>>}
  <2>1. ASSUME NEW p \in Pending' PROVE p \in Pending /\ p # <<name[s], oid[s]>>
    <3>1. PICK t \in Sessions : InFlight(t)' /\ p = <<name[t], oid[t]>>
      BY <1>1, PendingMembersNext
    <3>2. t # s /\ InFlight(t)
      BY <1>2, <3>1
    <3> QED
      BY <1>2, <3>1, <3>2, PendingMembers DEF OnceInv
  <2>2. ASSUME NEW p \in Pending, p # <<name[s], oid[s]>> PROVE p \in Pending'
    BY <1>1, <1>2, <2>2, PendingMembers, PendingMembersNext
  <2> QED
    BY <2>1, <2>2
<1>6. PICK p \in Pending : p = <<name[s], oid[s]>>
  BY <1>3
<1>7. Registry!Register(p[1], p[2])
  BY <1>1, <1>3, <1>4, <1>5, <1>6 DEF Registry!Register, Pending
<1> QED
  BY <1>7

\* Every step is one of MirrorRegistry, or none.
LEMMA RegistryStep ==
  CommitInv /\ RaceInv /\ OwnInv /\ OwnInv' /\ OnceInv /\ [Next]_vars
    => [Registry!Next]_Registry!vars
<1> SUFFICES ASSUME CommitInv, RaceInv, OwnInv, OwnInv', OnceInv, [Next]_vars
             PROVE  Registry!Next
  OBVIOUS
<1> USE DEF txnVars, callVars
<1>0. TypeOK /\ FlightInv /\ AckInv
  BY DEF CommitInv, RaceInv
<1>1. ASSUME NEW s \in Sessions, CreateMirror(s) PROVE Registry!Next
  BY <1>0, <1>1, CreateMakes DEF Registry!Next
<1>2. ASSUME NEW s \in Sessions, RpcAccepted(s) PROVE Registry!Next
  <2>1. \E p \in Pending : Registry!Register(p[1], p[2])
    BY <1>0, <1>2, AcceptedRegisters
  <2> QED
    BY <2>1 DEF Registry!Next, Pending
<1>3. ASSUME NEW b \in Backends, Commit(b) PROVE Registry!Next
  BY <1>0, <1>3, CommitDrops DEF Registry!Next
<1>4. CASE DropExtension
  BY <1>4, ExtensionDropsAll DEF Registry!Next
\* What is left gives creations up, or changes nothing.
<1>5. ASSUME UNCHANGED <<mirror, registered, nextOid, raced>>,
             ~\E s \in Sessions : CreateMirror(s)
      PROVE  Registry!Next
  <2>1. \A t \in Sessions : CallKept(t)
    BY <1>0, <1>5, CallsKept
  <2> QED
    BY <1>5, <2>1, StepGivesUp DEF Registry!Next
<1>6. CASE UNCHANGED vars
  BY <1>1, <1>5, <1>6 DEF vars
<1>7. CASE Crash \/ CreateExtension \/ \E b \in Backends : CommitFails(b)
  BY <1>1, <1>5, <1>7 DEF Crash, CreateExtension, CommitFails, CommitAborts
<1>8. ASSUME NEW b \in Backends, PreCommitOk(b) \/ PreCommitFails(b)
      PROVE  Registry!Next
  <2>1. CASE UNCHANGED <<mirror, registered, nextOid, raced>>
    BY <1>1, <1>5, <2>1
  <2>2. CASE \E n \in Names : Registry!Forget(n)
    BY <2>2 DEF Registry!Next
  <2> QED
    BY <1>0, <1>8, <2>1, <2>2, CallbackForgets
<1>9. ASSUME NEW s \in Sessions,
              \/ Begin(s) \/ Write(s) \/ Savepoint(s) \/ RolledBackTo(s)
              \/ RolledBack(s) \/ StartCommit(s)
              \/ \E n \in Names : DropTable(s, n) \/ create_table(s, n)
       PROVE  Registry!Next
  BY <1>1, <1>5, <1>9 DEF Begin, Write, Savepoint, RolledBackTo, RolledBack, StartCommit,
                          DropTable, create_table
<1>10. ASSUME NEW s \in Sessions,
              \/ SendRpc(s) \/ RpcRejected(s) \/ RpcLost(s) \/ CallReturns(s)
              \/ Cleanup(s) \/ CallFails(s)
       PROVE  Registry!Next
  BY <1>1, <1>5, <1>10 DEF SendRpc, RpcRejected, RpcLost, CallReturns, Cleanup, CallFails
<1> QED
  BY StepCases, <1>1, <1>2, <1>3, <1>4, <1>6, <1>7, <1>8, <1>9, <1>10

\* MirrorTables implements MirrorRegistry: whatever fails, crashes, is rolled back
\* or interleaved, a mirror is registered at most once, by the call and under the
\* name it was made with, and moonlink hears no more of one that has left the
\* catalog, races apart.
THEOREM KeepsRegistry == Spec => RegistryKept
<1>1. Init => OwnInv /\ OnceInv
  BY DEF Init, OwnInv, OnceInv
<1>2. CommitInv /\ RaceInv /\ OwnInv /\ OnceInv /\ [Next]_vars => OwnInv' /\ OnceInv'
  BY OwnStep, OnceStep DEF CommitInv, RaceInv
<1> QED
  BY <1>1, <1>2, CommitInvHolds, RaceInvHolds, RegistryInit, RegistryStep, PTL
     DEF Spec, RegistryKept, Registry!Spec
=============================================================================
