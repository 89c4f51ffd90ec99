-------------------------- MODULE MirrorTablesProofs --------------------------
(***************************************************************************)
(* Theorems about MirrorTables, for any number of sessions, names, oids,   *)
(* drops in a transaction and crashes, and for every set of faults.        *)
(***************************************************************************)
EXTENDS MirrorTables, TLAPS

ElementsOf(q) == {q[i] : i \in 1..Len(q)}

\* Appending adds one element.
LEMMA AppendElements ==
  ASSUME NEW S, NEW q \in Seq(S), NEW e \in S
  PROVE  /\ Append(q, e) \in Seq(S)
         /\ ElementsOf(Append(q, e)) = ElementsOf(q) \cup {e}
<1>1. Len(Append(q, e)) = Len(q) + 1
  OBVIOUS
<1>2. \A i \in 1..Len(q) : Append(q, e)[i] = q[i]
  OBVIOUS
<1>3. Append(q, e)[Len(q) + 1] = e
  OBVIOUS
<1>4. 1..(Len(q) + 1) = 1..Len(q) \cup {Len(q) + 1}
  OBVIOUS
<1> QED
  BY <1>1, <1>2, <1>3, <1>4 DEF ElementsOf

\* What is taken from the front is all that the tail lacks.
LEMMA TailElements ==
  ASSUME NEW S, NEW q \in Seq(S), q # <<>>
  PROVE  /\ Tail(q) \in Seq(S)
         /\ Head(q) \in S
         /\ ElementsOf(q) = {Head(q)} \cup ElementsOf(Tail(q))
<1>1. Len(q) \in Nat /\ Len(q) > 0
  OBVIOUS
<1>2. Len(Tail(q)) = Len(q) - 1 /\ \A i \in 1..(Len(q) - 1) : Tail(q)[i] = q[i + 1]
  OBVIOUS
<1>3. Head(q) = q[1]
  OBVIOUS
<1>4. ASSUME NEW i \in 1..Len(q), i # 1
      PROVE  i - 1 \in 1..(Len(q) - 1) /\ q[i] = Tail(q)[i - 1]
  <2>1. i - 1 \in 1..(Len(q) - 1)
    BY <1>1, <1>4
  <2>2. Tail(q)[i - 1] = q[(i - 1) + 1]
    BY <1>2, <2>1
  <2> QED
    BY <2>1, <2>2
<1>5. ElementsOf(q) \subseteq {Head(q)} \cup ElementsOf(Tail(q))
  BY <1>2, <1>3, <1>4 DEF ElementsOf
<1>6. {Head(q)} \cup ElementsOf(Tail(q)) \subseteq ElementsOf(q)
  <2>1. Head(q) \in ElementsOf(q)
    BY <1>1, <1>3 DEF ElementsOf
  <2>2. ASSUME NEW i \in 1..(Len(q) - 1) PROVE Tail(q)[i] \in ElementsOf(q)
    BY <1>1, <1>2, <2>2 DEF ElementsOf
  <2> QED
    BY <1>2, <2>1, <2>2 DEF ElementsOf
<1> QED
  BY <1>5, <1>6

\* The backends of two sessions, and the two backends of a session, differ.
LEMMA BackendsDiffer ==
  /\ \A s \in Sessions : Client(s) \in Backends /\ Loopback(s) \in Backends
  /\ \A s, t \in Sessions : Client(s) # Loopback(t)
  /\ \A s, t \in Sessions : Client(s) = Client(t) => s = t
  /\ \A s, t \in Sessions : Loopback(s) = Loopback(t) => s = t
BY DEF Client, Loopback, Backends

-----------------------------------------------------------------------------
(***************************************************************************)
(* What transactions keep.                                                 *)
(***************************************************************************)

\* Every dropped table has its callback waiting, or answered; a savepoint brings
\* back tables and takes none away; answers come only in a commit; an idle backend
\* holds nothing.
BackendInv(b) ==
  /\ dropped[b] \subseteq ElementsOf(hooks[b]) \cup acked[b]
  /\ savepoints[b] # <<>> => Head(savepoints[b]) \subseteq dropped[b]
  /\ txn[b] # "committing" => acked[b] = {}
  /\ txn[b] = "idle" => dropped[b] = {} /\ savepoints[b] = <<>> /\ hooks[b] = <<>>

TxnInv == \A b \in Backends : BackendInv(b)

\* The loopback session of a clean-up is that clean-up's alone.
LoopbackInv == \A s \in Sessions : pc[s] # "cleanup" => txn[Loopback(s)] = "idle"

\* A dropped table is there until its transaction commits, and no two
\* transactions drop the same.
LockInv ==
  /\ \A b \in Backends : \A n \in dropped[b] : mirror[n] # NoOid
  /\ \A b, c \in Backends : b # c => dropped[b] \cap dropped[c] = {}

CommitInv == TypeOK /\ TxnInv /\ LoopbackInv /\ LockInv

\* A client's transaction is rolled back, or back to its savepoint: by the client,
\* by an error outside of create_table, or because the client leaves its session.
RolledBack(s) ==
  /\ ~Calling(s) /\ txn[Client(s)] # "committing"
  /\ RollsBack(s)
  /\ UNCHANGED <<installed, mirror, registered, nextOid, pc, name, oid, raced>>

RolledBackTo(s) ==
  /\ ~Calling(s) /\ txn[Client(s)] = "open"
  /\ BackToSavepoint(s)
  /\ UNCHANGED <<installed, mirror, registered, nextOid, pc, name, oid, raced>>

\* The steps, one by one.
LEMMA StepCases ==
  ASSUME [Next]_vars
  PROVE  \/ UNCHANGED vars
         \/ Crash \/ DropExtension \/ CreateExtension
         \/ \E b \in Backends :
              PreCommitOk(b) \/ PreCommitFails(b) \/ CommitFails(b) \/ Commit(b)
         \/ \E s \in Sessions :
              \/ Begin(s) \/ Write(s) \/ Savepoint(s) \/ RolledBackTo(s)
              \/ RolledBack(s) \/ StartCommit(s)
              \/ \E n \in Names : DropTable(s, n) \/ create_table(s, n)
              \/ CreateMirror(s) \/ SendRpc(s)
              \/ RpcAccepted(s) \/ RpcRejected(s) \/ RpcLost(s) \/ CallReturns(s)
              \/ Cleanup(s)
              \/ pc[s] \in {"loopback", "send", "refused"} /\ CallFails(s)
              \/ pc[s] = "cleanup" /\ txn[Loopback(s)] = "idle" /\ CallFails(s)
<1>1. ASSUME NEW s \in Sessions,
             RollbackTo(s) \/ Rollback(s) \/ OtherRpcFails(s) \/ Reconnect(s)
      PROVE  RolledBackTo(s) \/ RolledBack(s)
  BY <1>1 DEF RollbackTo, Rollback, OtherRpcFails, Reconnect, StatementFails, Ready,
              RolledBackTo, RolledBack
<1> QED
  BY <1>1 DEF Next, ClientStep, CallStep, TxnStep, CreateMirrorFails, GetStreamPanics,
     NothingToClean, CleanupEnds

\* Every step keeps to sessions what is poisoned.
LEMMA PoisonStep ==
  ASSUME poisoned \subseteq Sessions, [Next]_vars
  PROVE  poisoned' \subseteq Sessions
<1>1. CASE Crash \/ DropExtension \/ CreateExtension \/ UNCHANGED vars
  BY <1>1 DEF Crash, DropExtension, CreateExtension, vars
<1>2. ASSUME NEW b \in Backends, TxnStep(b) PROVE poisoned' \subseteq Sessions
  BY <1>2 DEF TxnStep, PreCommitOk, PreCommitFails, CommitFails, Commit
<1>3. ASSUME NEW s \in Sessions, ClientStep(s) PROVE poisoned' \subseteq Sessions
  BY <1>3 DEF ClientStep, Begin, Write, Savepoint, RollbackTo, Rollback, StartCommit,
              OtherRpcFails, Reconnect, DropTable, create_table
<1>4. ASSUME NEW s \in Sessions, CallStep(s) PROVE poisoned' \subseteq Sessions
  BY <1>4 DEF CallStep, CreateMirror, CreateMirrorFails, GetStreamPanics, SendRpc,
              RpcAccepted, RpcRejected, RpcLost, CallReturns, Cleanup, NothingToClean,
              CleanupEnds
<1> QED
  BY <1>1, <1>2, <1>3, <1>4 DEF Next

\* A transaction that ends leaves its backend's variables within their types.
LEMMA EndTxnsType ==
  ASSUME TypeOK, NEW B \in SUBSET Backends, EndTxns(B)
  PROVE  /\ txn' \in [Backends -> {"idle", "open", "committing"}]
         /\ xid' \in [Backends -> BOOLEAN]
         /\ dropped' \in [Backends -> SUBSET Names]
         /\ savepoints' \in [Backends -> Seq(SUBSET Names)]
         /\ hooks' \in [Backends -> Seq(Names)]
         /\ acked' \in [Backends -> SUBSET Names]
<1> USE DEF TypeOK, EndTxns
<1>1. txn' \in [Backends -> {"idle", "open", "committing"}]
  OBVIOUS
<1>2. xid' \in [Backends -> BOOLEAN]
  OBVIOUS
<1>3. dropped' \in [Backends -> SUBSET Names]
  OBVIOUS
<1>4. savepoints' \in [Backends -> Seq(SUBSET Names)]
  <2>1. <<>> \in Seq(SUBSET Names)
    OBVIOUS
  <2> QED
    BY <2>1
<1>5. hooks' \in [Backends -> Seq(Names)]
  <2>1. <<>> \in Seq(Names)
    OBVIOUS
  <2> QED
    BY <2>1
<1>6. acked' \in [Backends -> SUBSET Names]
  OBVIOUS
<1> QED
  BY <1>1, <1>2, <1>3, <1>4, <1>5, <1>6

\* The initial state is well typed.
LEMMA InitType == Init => TypeOK
<1> SUFFICES ASSUME Init PROVE TypeOK
  OBVIOUS
<1>1. <<>> \in Seq(Names) /\ <<>> \in Seq(SUBSET Names)
  OBVIOUS
<1> QED
  BY <1>1, BoundAssumption DEF Init, TypeOK, NoOid, Calling

\* Every step keeps the types.
LEMMA TypeStep == TypeOK /\ [Next]_vars => TypeOK'
<1> SUFFICES ASSUME TypeOK, [Next]_vars PROVE TypeOK'
  OBVIOUS
<1> USE BoundAssumption, BackendsDiffer DEF NoOid, txnVars, callVars
<1>0. poisoned' \subseteq Sessions
  BY PoisonStep DEF TypeOK
<1> USE <1>0
<1>1. CASE UNCHANGED vars
  BY <1>1 DEF vars, TypeOK, Calling
<1>2. CASE Crash
  BY <1>2, EndTxnsType DEF Crash, TypeOK, Calling
<1>3. ASSUME NEW b \in Backends, PreCommitOk(b) PROVE TypeOK'
  <2>1. Head(hooks[b]) \in Names /\ Tail(hooks[b]) \in Seq(Names)
    BY <1>3, TailElements DEF PreCommitOk, TypeOK
  <2>2. raced' \subseteq Nat
    <3>1. raced' \in {raced, raced \cup {mirror[Head(hooks[b])]}}
      BY <1>3 DEF PreCommitOk, NoteRace
    <3>2. mirror[Head(hooks[b])] \in Nat
      BY <2>1 DEF TypeOK
    <3>3. raced \subseteq Nat
      BY DEF TypeOK
    <3> QED
      BY <3>1, <3>2, <3>3
  <2>3. registered' \in [Names -> Nat]
    BY <1>3, <2>1 DEF PreCommitOk, Forget, TypeOK
  <2>4. /\ acked' \in [Backends -> SUBSET Names]
        /\ hooks' \in [Backends -> Seq(Names)]
    BY <1>3, <2>1 DEF PreCommitOk, TypeOK
  <2> QED
    BY <1>3, <2>2, <2>3, <2>4 DEF PreCommitOk, TypeOK, Calling
<1>4. ASSUME NEW b \in Backends, PreCommitFails(b) \/ CommitFails(b) PROVE TypeOK'
  <2>1. CommitAborts(b)
    BY <1>4 DEF PreCommitFails, CommitFails
  <2>2. registered' \in [Names -> Nat]
    <3>1. CASE PreCommitFails(b)
      <4>1. Head(hooks[b]) \in Names
        BY <3>1, TailElements DEF PreCommitFails, TypeOK
      <4> QED
        BY <3>1, <4>1 DEF PreCommitFails, Forget, TypeOK
    <3>2. CASE CommitFails(b)
      BY <3>2 DEF CommitFails, TypeOK
    <3> QED
      BY <1>4, <3>1, <3>2
  <2>3. waitFor' \in [Sessions -> SUBSET Backends]
    BY <2>1 DEF CommitAborts, TypeOK
  <2>4. EndTxns({b}) /\ UNCHANGED <<installed, mirror, nextOid, pc, name, oid, raced>>
    BY <2>1 DEF CommitAborts
  <2> QED
    BY <2>2, <2>3, <2>4, EndTxnsType DEF TypeOK, Calling
<1>5. ASSUME NEW b \in Backends, Commit(b) PROVE TypeOK'
  BY <1>5, EndTxnsType DEF Commit, TypeOK, Calling
<1>6. ASSUME NEW s \in Sessions, Begin(s) \/ StartCommit(s) \/ Write(s)
      PROVE  TypeOK'
  BY <1>6 DEF Begin, StartCommit, Write, TypeOK, Calling
<1>7. ASSUME NEW s \in Sessions, Savepoint(s) PROVE TypeOK'
  <2>1. <<dropped[Client(s)]>> \in Seq(SUBSET Names)
    BY DEF TypeOK
  <2> QED
    BY <1>7, <2>1 DEF Savepoint, TypeOK, Calling
<1>8. ASSUME NEW s \in Sessions, BackToSavepoint(s)
      PROVE  /\ dropped' \in [Backends -> SUBSET Names]
             /\ savepoints' \in [Backends -> Seq(SUBSET Names)]
             /\ UNCHANGED <<txn, xid, hooks, acked, waitFor>>
  <2>1. Head(savepoints[Client(s)]) \in SUBSET Names
    BY <1>8, TailElements DEF BackToSavepoint, TypeOK
  <2>2. <<>> \in Seq(SUBSET Names)
    OBVIOUS
  <2> QED
    BY <1>8, <2>1, <2>2 DEF BackToSavepoint, TypeOK
<1>9. ASSUME NEW s \in Sessions, RollsBack(s)
      PROVE  /\ txn' \in [Backends -> {"idle", "open", "committing"}]
             /\ xid' \in [Backends -> BOOLEAN]
             /\ dropped' \in [Backends -> SUBSET Names]
             /\ savepoints' \in [Backends -> Seq(SUBSET Names)]
             /\ hooks' \in [Backends -> Seq(Names)]
             /\ acked' \in [Backends -> SUBSET Names]
             /\ waitFor' \in [Sessions -> SUBSET Backends]
  <2>1. {Client(s)} \in SUBSET Backends /\ EndTxns({Client(s)})
    BY <1>9 DEF RollsBack
  <2>2. waitFor' \in [Sessions -> SUBSET Backends]
    BY <1>9 DEF RollsBack, TypeOK
  <2> QED
    BY <2>1, <2>2, EndTxnsType
<1>18. ASSUME NEW s \in Sessions, RolledBackTo(s) PROVE TypeOK'
  BY <1>8, <1>18 DEF RolledBackTo, TypeOK, Calling
<1>19. ASSUME NEW s \in Sessions, RolledBack(s) PROVE TypeOK'
  BY <1>9, <1>19 DEF RolledBack, TypeOK, Calling
<1>10. ASSUME NEW s \in Sessions, NEW n \in Names, DropTable(s, n) PROVE TypeOK'
  <2>1. Append(hooks[Client(s)], n) \in Seq(Names)
    BY AppendElements DEF TypeOK
  <2> QED
    BY <1>10, <2>1 DEF DropTable, HookName, TypeOK, Calling
<1>11. ASSUME NEW s \in Sessions, NEW n \in Names, create_table(s, n) PROVE TypeOK'
  BY <1>11 DEF create_table, XidAfterSelect, TypeOK, Calling
<1>12. ASSUME NEW s \in Sessions, CreateMirror(s) \/ SendRpc(s) PROVE TypeOK'
  <2>1. CASE CreateMirror(s)
    <3>1. mirror' \in [Names -> Nat] /\ nextOid' \in Nat \ {NoOid}
      <4>1. nextOid \in Nat /\ nextOid' = nextOid + 1
        BY <2>1 DEF CreateMirror, TypeOK
      <4>2. mirror' = [mirror EXCEPT ![name[s]] = nextOid]
        BY <2>1 DEF CreateMirror
      <4>3. mirror' \in [Names -> Nat]
        BY <4>1, <4>2 DEF TypeOK
      <4> QED
        BY <4>1, <4>3
    <3>2. oid' \in [Sessions -> Nat]
      BY <2>1 DEF CreateMirror, TypeOK
    <3>3. \A t \in Sessions : pc'[t] # "idle" => pc[t] # "idle"
      BY <2>1 DEF CreateMirror, TypeOK
    <3>4. \A t \in Sessions : pc'[t] # "idle" => name'[t] \in Names
      BY <2>1, <3>3 DEF CreateMirror, TypeOK, Calling
    <3>5. pc' \in [Sessions -> {"idle", "loopback", "send", "waiting", "accepted",
                                "refused", "cleanup"}]
      BY <2>1 DEF CreateMirror, TypeOK
    <3>6. UNCHANGED <<installed, registered, txn, xid, dropped, savepoints, hooks, acked, name,
                      waitFor, raced>>
      BY <2>1 DEF CreateMirror
    <3> QED
      BY <3>1, <3>2, <3>4, <3>5, <3>6 DEF TypeOK, Calling
  <2>2. CASE SendRpc(s)
    <3>1. waitFor' \in [Sessions -> SUBSET Backends]
      BY <2>2 DEF SendRpc, TypeOK
    <3>2. \A t \in Sessions : pc'[t] # "idle" => pc[t] # "idle"
      BY <2>2 DEF SendRpc, TypeOK
    <3> QED
      BY <2>2, <3>1, <3>2 DEF SendRpc, TypeOK, Calling
  <2> QED
    BY <1>12, <2>1, <2>2
<1>13. ASSUME NEW s \in Sessions,
              RpcAccepted(s) \/ RpcRejected(s) \/ RpcLost(s) \/ CallReturns(s)
       PROVE  TypeOK'
  <2>1. CASE RpcAccepted(s)
    <3>1. registered' \in [Names -> Nat]
      BY <2>1 DEF RpcAccepted, TypeOK
    <3> QED
      BY <2>1, <3>1 DEF RpcAccepted, TypeOK, Calling
  <2>2. CASE RpcRejected(s) \/ RpcLost(s)
    BY <2>2 DEF RpcRejected, RpcLost, TypeOK, Calling
  <2>3. CASE CallReturns(s)
    BY <2>3 DEF CallReturns, CallEnds, TypeOK, Calling
  <2> QED
    BY <1>13, <2>1, <2>2, <2>3
<1>14. ASSUME NEW s \in Sessions, Cleanup(s) PROVE TypeOK'
  <2>1. name[s] \in Names /\ <<name[s]>> \in Seq(Names)
    BY <1>14 DEF Cleanup, TypeOK, Calling
  <2> QED
    BY <1>14, <2>1 DEF Cleanup, HookName, TypeOK, Calling
<1>15. ASSUME NEW s \in Sessions, CallFails(s) PROVE TypeOK'
  <2>1. UNCHANGED <<installed, mirror, registered, nextOid, raced>>
    BY <1>15 DEF CallFails
  <2>2. /\ pc' = [pc EXCEPT ![s] = "idle"]
        /\ name' = [name EXCEPT ![s] = none]
        /\ oid' = [oid EXCEPT ![s] = 0]
    BY <1>15 DEF CallFails, CallEnds
  <2>3. /\ pc' \in [Sessions -> {"idle", "loopback", "send", "waiting", "accepted",
                                "refused", "cleanup"}]
        /\ name' \in [Sessions -> Names \cup {none}]
        /\ oid' \in [Sessions -> Nat]
    BY <2>2 DEF TypeOK
  <2>4. \A t \in Sessions : pc'[t] # "idle" => name'[t] \in Names
    BY <2>2 DEF TypeOK, Calling
  <2>5. CASE RollsBack(s)
    BY <1>9, <2>1, <2>3, <2>4, <2>5 DEF TypeOK, Calling
  <2>6. CASE BackToSavepoint(s)
    BY <1>8, <2>1, <2>3, <2>4, <2>6 DEF TypeOK, Calling
  <2> QED
    BY <1>15, <2>5, <2>6 DEF CallFails, StatementFails
<1>16. CASE DropExtension
  <2>1. {mirror[n] : n \in {m \in Names : Known(m)}} \subseteq Nat
    BY DEF TypeOK
  <2>2. raced' \subseteq Nat
    BY <1>16, <2>1 DEF DropExtension, TypeOK
  <2>3. mirror' \in [Names -> Nat] /\ installed' = FALSE
    BY <1>16 DEF DropExtension
  <2>4. UNCHANGED <<registered, nextOid, txnVars, callVars>>
    BY <1>16 DEF DropExtension
  <2> QED
    BY <2>2, <2>3, <2>4 DEF TypeOK, Calling
<1>17. CASE CreateExtension
  BY <1>17 DEF CreateExtension, TypeOK, Calling
<1> QED
  BY StepCases, <1>1, <1>2, <1>3, <1>4, <1>5, <1>6, <1>7, <1>10, <1>11,
     <1>12, <1>13, <1>14, <1>15, <1>16, <1>17, <1>18, <1>19

\* What a step leaves alone of a backend stays right.
LEMMA SameBackend ==
  ASSUME NEW b \in Backends, BackendInv(b),
         txn'[b] = txn[b], dropped'[b] = dropped[b], savepoints'[b] = savepoints[b],
         hooks'[b] = hooks[b], acked'[b] = acked[b]
  PROVE  BackendInv(b)'
BY DEF BackendInv, ElementsOf

\* What EndTxns does to each backend.
LEMMA EndTxnsEffect ==
  ASSUME NEW B \in SUBSET Backends, EndTxns(B), NEW b \in Backends
  PROVE  /\ b \in B => /\ txn'[b] = "idle" /\ dropped'[b] = {} /\ acked'[b] = {}
                       /\ savepoints'[b] = <<>> /\ hooks'[b] = <<>>
         /\ b \notin B => /\ txn'[b] = txn[b] /\ dropped'[b] = dropped[b]
                          /\ acked'[b] = acked[b] /\ hooks'[b] = hooks[b]
                          /\ savepoints'[b] = savepoints[b]
BY DEF EndTxns

\* A transaction that has ended holds nothing.
LEMMA EndTxnsInv ==
  ASSUME TxnInv, NEW B \in SUBSET Backends, EndTxns(B)
  PROVE  TxnInv'
<1> SUFFICES ASSUME NEW b \in Backends PROVE BackendInv(b)'
  BY DEF TxnInv
<1>1. CASE b \in B
  BY <1>1, EndTxnsEffect DEF BackendInv
<1>2. CASE b \notin B
  <2>1. BackendInv(b)
    BY DEF TxnInv
  <2> QED
    BY <1>2, <2>1, EndTxnsEffect, SameBackend
<1> QED
  BY <1>1, <1>2

\* Every step keeps what backends know of their transaction.
LEMMA TxnStepInv == TypeOK /\ TxnInv /\ LoopbackInv /\ [Next]_vars => TxnInv'
<1> SUFFICES ASSUME TypeOK, TxnInv, LoopbackInv, [Next]_vars PROVE TxnInv'
  OBVIOUS
<1> USE BackendsDiffer DEF txnVars, callVars
<1>1. CASE UNCHANGED vars
  BY <1>1, SameBackend DEF vars, TxnInv
<1>2. CASE Crash
  BY <1>2, EndTxnsInv DEF Crash
<1>3. ASSUME NEW b \in Backends, PreCommitFails(b) \/ CommitFails(b) \/ Commit(b)
      PROVE  TxnInv'
  BY <1>3, EndTxnsInv DEF PreCommitFails, CommitFails, CommitAborts, Commit
<1>4. ASSUME NEW s \in Sessions, RollsBack(s) PROVE TxnInv'
  BY <1>4, EndTxnsInv DEF RollsBack
<1>5. ASSUME NEW b \in Backends, PreCommitOk(b) PROVE TxnInv'
  <2> SUFFICES ASSUME NEW c \in Backends PROVE BackendInv(c)'
    BY DEF TxnInv
  <2>1. BackendInv(c)
    BY DEF TxnInv
  <2>2. CASE c = b
    <3>1. hooks[b] \in Seq(Names) /\ hooks[b] # <<>>
      BY <1>5 DEF PreCommitOk, TypeOK
    <3>2. ElementsOf(hooks[b]) = {Head(hooks[b])} \cup ElementsOf(Tail(hooks[b]))
      BY <3>1, TailElements
    <3>3. /\ hooks'[b] = Tail(hooks[b])
          /\ acked'[b] = acked[b] \cup {Head(hooks[b])}
          /\ txn'[b] = "committing" /\ dropped'[b] = dropped[b]
          /\ savepoints'[b] = savepoints[b]
      BY <1>5 DEF PreCommitOk, TypeOK
    <3>4. ElementsOf(hooks[b])' = ElementsOf(Tail(hooks[b]))
      BY <3>3 DEF ElementsOf
    <3> QED
      BY <2>1, <2>2, <3>2, <3>3, <3>4 DEF BackendInv
  <2>3. CASE c # b
    BY <1>5, <2>1, <2>3, SameBackend DEF PreCommitOk, TypeOK
  <2> QED
    BY <2>2, <2>3
<1>6. ASSUME NEW s \in Sessions, Begin(s) \/ StartCommit(s) PROVE TxnInv'
  <2> SUFFICES ASSUME NEW c \in Backends PROVE BackendInv(c)'
    BY DEF TxnInv
  <2>1. BackendInv(c)
    BY DEF TxnInv
  <2>2. CASE c = Client(s)
    <3>1. /\ txn'[c] \in {"open", "committing"} /\ txn[c] # "committing"
          /\ UNCHANGED <<dropped, savepoints, hooks, acked>>
      BY <1>6, <2>2 DEF Begin, StartCommit, Ready, TypeOK
    <3> QED
      BY <2>1, <3>1 DEF BackendInv, ElementsOf
  <2>3. CASE c # Client(s)
    BY <1>6, <2>1, <2>3, SameBackend DEF Begin, StartCommit, TypeOK
  <2> QED
    BY <2>2, <2>3
<1>7. ASSUME NEW s \in Sessions, NEW n \in Names, DropTable(s, n) PROVE TxnInv'
  <2> SUFFICES ASSUME NEW c \in Backends PROVE BackendInv(c)'
    BY DEF TxnInv
  <2>1. BackendInv(c)
    BY DEF TxnInv
  <2>2. CASE c = Client(s)
    <3>1. /\ hooks'[c] = Append(hooks[c], n)
          /\ dropped'[c] = dropped[c] \cup {n}
          /\ txn'[c] = "open" /\ txn[c] = "open"
          /\ acked'[c] = acked[c] /\ savepoints'[c] = savepoints[c]
      BY <1>7, <2>2 DEF DropTable, Ready, HookName, TypeOK
    <3>2. hooks[c] \in Seq(Names)
      BY DEF TypeOK
    <3>3. ElementsOf(Append(hooks[c], n)) = ElementsOf(hooks[c]) \cup {n}
      BY <3>2, AppendElements
    <3>4. ElementsOf(hooks[c])' = ElementsOf(Append(hooks[c], n))
      BY <3>1 DEF ElementsOf
    <3> QED
      BY <2>1, <3>1, <3>3, <3>4 DEF BackendInv
  <2>3. CASE c # Client(s)
    BY <1>7, <2>1, <2>3, SameBackend DEF DropTable, TypeOK
  <2> QED
    BY <2>2, <2>3
<1>8. ASSUME NEW s \in Sessions, Savepoint(s) PROVE TxnInv'
  <2> SUFFICES ASSUME NEW c \in Backends PROVE BackendInv(c)'
    BY DEF TxnInv
  <2>1. BackendInv(c)
    BY DEF TxnInv
  <2>2. CASE c = Client(s)
    <3>1. /\ savepoints'[c] = <<dropped[c]>> /\ txn[c] = "open"
          /\ UNCHANGED <<txn, dropped, hooks, acked>>
      BY <1>8, <2>2 DEF Savepoint, Ready, TypeOK
    <3>2. Head(savepoints[c])' = dropped[c]
      BY <3>1
    <3> QED
      BY <2>1, <3>1, <3>2 DEF BackendInv, ElementsOf
  <2>3. CASE c # Client(s)
    BY <1>8, <2>1, <2>3, SameBackend DEF Savepoint, TypeOK
  <2> QED
    BY <2>2, <2>3
<1>9. ASSUME NEW s \in Sessions, BackToSavepoint(s) PROVE TxnInv'
  <2> SUFFICES ASSUME NEW c \in Backends PROVE BackendInv(c)'
    BY DEF TxnInv
  <2>1. BackendInv(c)
    BY DEF TxnInv
  <2>2. CASE c = Client(s)
    <3>1. /\ savepoints'[c] = <<>> /\ savepoints[c] # <<>>
          /\ dropped'[c] = Head(savepoints[c])
          /\ UNCHANGED <<txn, hooks, acked>>
      BY <1>9, <2>2 DEF BackToSavepoint, TypeOK
    <3> QED
      BY <2>1, <3>1 DEF BackendInv, ElementsOf
  <2>3. CASE c # Client(s)
    BY <1>9, <2>1, <2>3, SameBackend DEF BackToSavepoint, TypeOK
  <2> QED
    BY <2>2, <2>3
<1>10. ASSUME NEW s \in Sessions, Cleanup(s) PROVE TxnInv'
  <2> SUFFICES ASSUME NEW c \in Backends PROVE BackendInv(c)'
    BY DEF TxnInv
  <2>1. BackendInv(c)
    BY DEF TxnInv
  <2>2. CASE c = Loopback(s)
    <3>1. /\ hooks'[c] = <<name[s]>> /\ dropped'[c] = {name[s]}
          /\ savepoints'[c] = savepoints[c] /\ txn'[c] = "committing"
      BY <1>10, <2>2 DEF Cleanup, HookName, TypeOK
    <3>2. savepoints[c] = <<>>
      BY <1>10, <2>1, <2>2 DEF Cleanup, LoopbackInv, BackendInv
    <3>3. ElementsOf(hooks[c])' = {name[s]}
      BY <3>1 DEF ElementsOf
    <3> QED
      BY <3>1, <3>2, <3>3 DEF BackendInv
  <2>3. CASE c # Loopback(s)
    BY <1>10, <2>1, <2>3, SameBackend DEF Cleanup, TypeOK
  <2> QED
    BY <2>2, <2>3
<1>11. ASSUME UNCHANGED <<txn, dropped, savepoints, hooks, acked>> PROVE TxnInv'
  BY <1>11, SameBackend DEF TxnInv
<1>12. ASSUME NEW s \in Sessions,
              \/ Write(s) \/ CreateMirror(s) \/ SendRpc(s) \/ RpcAccepted(s)
              \/ RpcRejected(s) \/ RpcLost(s) \/ CallReturns(s)
              \/ \E n \in Names : create_table(s, n)
       PROVE  TxnInv'
  BY <1>11, <1>12 DEF Write, CreateMirror, SendRpc, RpcAccepted, RpcRejected,
                      RpcLost, CallReturns, create_table
<1>13. CASE DropExtension \/ CreateExtension
  BY <1>11, <1>13 DEF DropExtension, CreateExtension
<1>14. ASSUME NEW s \in Sessions, RolledBack(s) \/ RolledBackTo(s) \/ CallFails(s)
       PROVE  TxnInv'
  BY <1>4, <1>9, <1>14 DEF RolledBack, RolledBackTo, CallFails, StatementFails
<1> QED
  BY StepCases, <1>1, <1>2, <1>3, <1>5, <1>6, <1>7, <1>8, <1>10, <1>12, <1>13, <1>14

\* Every step keeps the loopback session free while no clean-up runs.
LEMMA LoopbackStep == TypeOK /\ LoopbackInv /\ [Next]_vars => LoopbackInv'
<1> SUFFICES ASSUME TypeOK, LoopbackInv, [Next]_vars,
                    NEW t \in Sessions, pc'[t] # "cleanup"
             PROVE  txn'[Loopback(t)] = "idle"
  BY DEF LoopbackInv
<1> USE BackendsDiffer DEF txnVars, callVars
<1>1. CASE UNCHANGED vars
  BY <1>1 DEF vars, LoopbackInv
<1>2. CASE Crash
  BY <1>2, EndTxnsEffect DEF Crash
<1>3. ASSUME NEW b \in Backends, PreCommitFails(b) \/ CommitFails(b) \/ Commit(b)
      PROVE  txn'[Loopback(t)] = "idle"
  BY <1>3, EndTxnsEffect DEF PreCommitFails, CommitFails, CommitAborts, Commit,
     LoopbackInv
<1>4. ASSUME NEW s \in Sessions, RolledBack(s)
      PROVE  txn'[Loopback(t)] = "idle"
  BY <1>4, EndTxnsEffect DEF RolledBack, RollsBack, LoopbackInv
<1>5. ASSUME NEW s \in Sessions, CallFails(s),
             pc[s] = "cleanup" => txn[Loopback(s)] = "idle"
      PROVE  txn'[Loopback(t)] = "idle"
  <2>1. txn[Loopback(t)] = "idle"
    BY <1>5 DEF CallFails, CallEnds, LoopbackInv, TypeOK
  <2> QED
    BY <1>5, <2>1, EndTxnsEffect DEF CallFails, StatementFails, RollsBack, BackToSavepoint
<1>6. ASSUME NEW s \in Sessions, Begin(s) \/ StartCommit(s)
      PROVE  txn'[Loopback(t)] = "idle"
  BY <1>6 DEF Begin, StartCommit, LoopbackInv, TypeOK
<1>7. ASSUME NEW s \in Sessions, Cleanup(s)
      PROVE  txn'[Loopback(t)] = "idle"
  <2>1. s # t
    BY <1>7 DEF Cleanup, TypeOK
  <2> QED
    BY <1>7, <2>1 DEF Cleanup, LoopbackInv, TypeOK
<1>8. ASSUME NEW b \in Backends, PreCommitOk(b)
      PROVE  txn'[Loopback(t)] = "idle"
  BY <1>8 DEF PreCommitOk, LoopbackInv
<1>9. ASSUME NEW s \in Sessions,
             \/ Write(s) \/ Savepoint(s) \/ RolledBackTo(s)
             \/ \E n \in Names : DropTable(s, n) \/ create_table(s, n)
      PROVE  txn'[Loopback(t)] = "idle"
  <2>1. CASE Write(s) \/ Savepoint(s) \/ RolledBackTo(s) \/ \E n \in Names : DropTable(s, n)
    BY <2>1 DEF Write, Savepoint, RolledBackTo, BackToSavepoint, DropTable, LoopbackInv
  <2>2. ASSUME NEW n \in Names, create_table(s, n)
        PROVE  pc[t] # "cleanup" /\ UNCHANGED txn
    BY <2>2 DEF create_table, Ready, Calling, TypeOK
  <2> QED
    BY <1>9, <2>1, <2>2 DEF LoopbackInv
<1>10. ASSUME NEW s \in Sessions,
              \/ CreateMirror(s) \/ SendRpc(s) \/ RpcAccepted(s)
              \/ RpcRejected(s) \/ RpcLost(s) \/ CallReturns(s)
       PROVE  txn'[Loopback(t)] = "idle"
  BY <1>10 DEF CreateMirror, SendRpc, RpcAccepted, RpcRejected, RpcLost,
               CallReturns, CallEnds, LoopbackInv, TypeOK
<1>11. CASE DropExtension \/ CreateExtension
  BY <1>11 DEF DropExtension, CreateExtension, LoopbackInv
<1> QED
  BY StepCases, <1>1, <1>2, <1>3, <1>4, <1>5, <1>6, <1>7, <1>8, <1>9, <1>10, <1>11

\* Every step keeps the locks of dropped tables.
LEMMA LockStep == CommitInv /\ [Next]_vars => LockInv'
<1> SUFFICES ASSUME CommitInv, [Next]_vars PROVE LockInv'
  OBVIOUS
<1> USE BackendsDiffer DEF txnVars, callVars
<1>0. TypeOK /\ TxnInv /\ LoopbackInv /\ LockInv
  BY DEF CommitInv
\* Most steps drop no table, and remove none from the catalog.
<1>1. ASSUME \A b \in Backends : dropped'[b] \subseteq dropped[b],
             \A n \in Names : mirror[n] # NoOid => mirror'[n] # NoOid
      PROVE  LockInv'
  BY <1>0, <1>1 DEF LockInv, TypeOK
<1>2. ASSUME NEW c \in Backends, NEW n \in Names, ~Locked(n), mirror[n] # NoOid,
             dropped' = [dropped EXCEPT ![c] = dropped'[c]],
             dropped'[c] \subseteq dropped[c] \cup {n}, mirror' = mirror
      PROVE  LockInv'
  <2>1. \A b \in Backends : dropped'[b] \subseteq dropped[b] \cup {n}
    BY <1>0, <1>2 DEF TypeOK
  <2>2. \A b \in Backends : b # c => dropped'[b] = dropped[b] /\ n \notin dropped[b]
    BY <1>0, <1>2 DEF TypeOK, Locked
  <2>3. \A b \in Backends : \A m \in dropped'[b] : mirror'[m] # NoOid
    BY <1>0, <1>2, <2>1 DEF LockInv
  <2>4. ASSUME NEW b \in Backends, NEW d \in Backends, b # d
        PROVE  dropped'[b] \cap dropped'[d] = {}
    <3>1. dropped[b] \cap dropped[d] = {}
      BY <1>0, <2>4 DEF LockInv
    <3>2. CASE b = c
      BY <1>2, <2>2, <2>4, <3>1, <3>2
    <3>3. CASE d = c
      BY <1>2, <2>2, <2>4, <3>1, <3>3
    <3>4. CASE b # c /\ d # c
      BY <2>2, <3>1, <3>4
    <3> QED
      BY <3>2, <3>3, <3>4
  <2> QED
    BY <2>3, <2>4 DEF LockInv
<1>3. CASE UNCHANGED vars
  BY <1>1, <1>3 DEF vars
<1>4. CASE Crash
  BY <1>1, <1>4, EndTxnsEffect DEF Crash
<1>5. ASSUME NEW b \in Backends, PreCommitOk(b) PROVE LockInv'
  BY <1>1, <1>5 DEF PreCommitOk
<1>6. ASSUME NEW b \in Backends, PreCommitFails(b) \/ CommitFails(b) PROVE LockInv'
  BY <1>1, <1>6, EndTxnsEffect DEF PreCommitFails, CommitFails, CommitAborts
<1>7. ASSUME NEW b \in Backends, Commit(b) PROVE LockInv'
  <2>1. \A c \in Backends : c # b => dropped'[c] = dropped[c]
    BY <1>7, EndTxnsEffect DEF Commit
  <2>2. dropped'[b] = {}
    BY <1>7, EndTxnsEffect DEF Commit
  <2>3. \A n \in Names : n \notin dropped[b] => mirror'[n] = mirror[n]
    BY <1>7 DEF Commit
  <2>4. ASSUME NEW c \in Backends, NEW n \in dropped'[c]
        PROVE  mirror'[n] # NoOid
    <3>1. c # b /\ n \in dropped[c] /\ n \in Names
      BY <1>0, <2>1, <2>2, <2>4 DEF TypeOK
    <3>2. n \notin dropped[b] /\ mirror[n] # NoOid
      BY <1>0, <3>1 DEF LockInv
    <3> QED
      BY <2>3, <3>1, <3>2
  <2> QED
    BY <1>0, <2>1, <2>2, <2>4 DEF LockInv
<1>8. ASSUME NEW s \in Sessions, RollsBack(s), UNCHANGED mirror PROVE LockInv'
  BY <1>1, <1>8, EndTxnsEffect DEF RollsBack
<1>9. ASSUME NEW s \in Sessions, BackToSavepoint(s), UNCHANGED mirror PROVE LockInv'
  <2>1. \A b \in Backends : dropped'[b] \subseteq dropped[b]
    BY <1>0, <1>9 DEF BackToSavepoint, TxnInv, BackendInv, TypeOK
  <2> QED
    BY <1>1, <1>9, <2>1
<1>10. ASSUME NEW s \in Sessions, NEW n \in Names, DropTable(s, n) PROVE LockInv'
  <2>1. dropped' = [dropped EXCEPT ![Client(s)] = dropped[Client(s)] \cup {n}]
    BY <1>10 DEF DropTable
  <2>2. dropped'[Client(s)] = dropped[Client(s)] \cup {n}
    BY <1>0, <2>1 DEF TypeOK
  <2> QED
    BY <1>2, <1>10, <2>1, <2>2 DEF DropTable
<1>11. ASSUME NEW s \in Sessions, Cleanup(s) PROVE LockInv'
  <2>1. name[s] \in Names
    BY <1>0, <1>11 DEF Cleanup, TypeOK, Calling
  <2>2. dropped' = [dropped EXCEPT ![Loopback(s)] = {name[s]}]
    BY <1>11 DEF Cleanup
  <2>3. dropped'[Loopback(s)] = {name[s]}
    BY <1>0, <2>2 DEF TypeOK
  <2>4. mirror[name[s]] # NoOid /\ ~Locked(name[s]) /\ mirror' = mirror
    BY <1>11 DEF Cleanup
  <2> QED
    BY <1>2, <2>1, <2>2, <2>3, <2>4
<1>12. ASSUME NEW s \in Sessions, CreateMirror(s) PROVE LockInv'
  <2>1. \A n \in Names : mirror[n] # NoOid => mirror'[n] # NoOid
    BY <1>0, <1>12 DEF CreateMirror, TypeOK
  <2> QED
    BY <1>1, <1>12, <2>1 DEF CreateMirror
<1>13. ASSUME NEW s \in Sessions,
              \/ Begin(s) \/ StartCommit(s) \/ Write(s) \/ Savepoint(s) \/ SendRpc(s)
              \/ RpcAccepted(s) \/ RpcRejected(s) \/ RpcLost(s) \/ CallReturns(s)
              \/ \E n \in Names : create_table(s, n)
       PROVE  LockInv'
  BY <1>1, <1>13 DEF Begin, StartCommit, Write, Savepoint, SendRpc, RpcAccepted,
     RpcRejected, RpcLost, CallReturns, create_table
<1>14. CASE DropExtension
  <2>1. \A b \in Backends : dropped'[b] = {}
    BY <1>0, <1>14 DEF DropExtension, Locked, TypeOK
  <2> QED
    BY <2>1 DEF LockInv
<1>15. CASE CreateExtension
  BY <1>1, <1>15 DEF CreateExtension
<1>16. ASSUME NEW s \in Sessions, RolledBack(s) \/ RolledBackTo(s) \/ CallFails(s)
       PROVE  LockInv'
  BY <1>8, <1>9, <1>16 DEF RolledBack, RolledBackTo, CallFails, StatementFails
<1> QED
  BY StepCases, <1>3, <1>4, <1>5, <1>6, <1>7, <1>10, <1>11, <1>12, <1>13,
     <1>14, <1>15, <1>16

\* The inductive invariant of commits.
LEMMA CommitInvHolds == Spec => []CommitInv
<1>1. Init => CommitInv
  <2> SUFFICES ASSUME Init PROVE CommitInv
    OBVIOUS
  <2>1. TypeOK
    BY InitType
  <2>2. ASSUME NEW b \in Backends PROVE BackendInv(b)
    BY DEF Init, BackendInv
  <2>3. LoopbackInv
    BY BackendsDiffer DEF Init, LoopbackInv
  <2>4. LockInv
    BY DEF Init, LockInv
  <2> QED
    BY <2>1, <2>2, <2>3, <2>4 DEF CommitInv, TxnInv
<1>2. CommitInv /\ [Next]_vars => CommitInv'
  BY TypeStep, TxnStepInv, LoopbackStep, LockStep DEF CommitInv
<1> QED
  BY <1>1, <1>2, PTL DEF Spec

\* Names, oids, transactions and calls stay within their types.
THEOREM TypeCorrect == Spec => []TypeOK
<1>1. CommitInv => TypeOK
  BY DEF CommitInv
<1> QED
  BY <1>1, CommitInvHolds, PTL

\* The callbacks of drop_trigger run before the drops they stand for are
\* committed: no table leaves the catalog before moonlink was told.
THEOREM DropIsAcked == Spec => DropAckedBeforeCommit
<1>1. ASSUME CommitInv, [Next]_vars, NEW n \in Names,
             mirror[n] # NoOid, mirror'[n] = NoOid, installed'
      PROVE  \E b \in Backends : n \in dropped[b] /\ n \in acked[b]
  <2> USE <1>1 DEF txnVars, callVars
  <2>0. TypeOK /\ TxnInv
    BY DEF CommitInv
  <2>1. CASE UNCHANGED vars
    BY <2>1 DEF vars
  <2>2. CASE Crash
    BY <2>2 DEF Crash
  <2>3. ASSUME NEW b \in Backends, PreCommitOk(b) \/ PreCommitFails(b) \/ CommitFails(b)
        PROVE  FALSE
    BY <2>3 DEF PreCommitOk, PreCommitFails, CommitFails, CommitAborts
  <2>4. ASSUME NEW b \in Backends, Commit(b)
        PROVE  n \in dropped[b] /\ n \in acked[b]
    <3>1. n \in dropped[b]
      BY <2>4 DEF Commit
    <3>2. hooks[b] = <<>>
      BY <2>4 DEF Commit
    <3>3. ElementsOf(hooks[b]) = {}
      BY <3>2 DEF ElementsOf
    <3>4. dropped[b] \subseteq ElementsOf(hooks[b]) \cup acked[b]
      BY <2>0 DEF TxnInv, BackendInv
    <3> QED
      BY <3>1, <3>3, <3>4
  <2>5. ASSUME NEW s \in Sessions,
               \/ Begin(s) \/ Write(s) \/ Savepoint(s) \/ RolledBackTo(s)
               \/ RolledBack(s) \/ StartCommit(s)
               \/ \E m \in Names : DropTable(s, m) \/ create_table(s, m)
        PROVE  FALSE
    BY <2>5 DEF Begin, Write, Savepoint, RolledBackTo, RolledBack, StartCommit,
                DropTable, create_table
  <2>6. ASSUME NEW s \in Sessions,
               \/ SendRpc(s) \/ RpcAccepted(s) \/ RpcRejected(s) \/ RpcLost(s)
               \/ CallReturns(s) \/ Cleanup(s) \/ CallFails(s)
        PROVE  FALSE
    BY <2>6 DEF SendRpc, RpcAccepted, RpcRejected, RpcLost, CallReturns, Cleanup,
                CallFails
  <2>7. ASSUME NEW s \in Sessions, CreateMirror(s) PROVE FALSE
    BY <2>0, <2>7 DEF CreateMirror, TypeOK
  <2>8. CASE DropExtension \/ CreateExtension
    BY <2>8 DEF DropExtension, CreateExtension
  <2> QED
    BY StepCases, <2>1, <2>2, <2>3, <2>4, <2>5, <2>6, <2>7, <2>8
<1>2. CommitInv /\ [Next]_vars =>
        [\A n \in Names : mirror[n] # NoOid /\ mirror'[n] = NoOid /\ installed'
           => \E b \in Backends : n \in dropped[b] /\ n \in acked[b]]_vars
  BY <1>1
<1> QED
  BY <1>2, CommitInvHolds, PTL DEF Spec, DropAckedBeforeCommit

-----------------------------------------------------------------------------
(***************************************************************************)
(* Why only a race leaves moonlink with a mirror that is no more.          *)
(***************************************************************************)

\* Oids are handed out once.
OidInv ==
  /\ \A n \in Names : mirror[n] < nextOid
  /\ \A s \in Sessions : oid[s] < nextOid

\* A call that may yet lead to a registration made the mirror its name stands
\* for, unless that was dropped meanwhile.
FlightInv ==
  \A s \in Sessions : InFlight(s) =>
    /\ oid[s] # NoOid
    /\ oid[s] = mirror[name[s]] \/ oid[s] \in raced

\* Once moonlink has acknowledged the drop of n, it neither knows nor will know
\* the mirror that is being dropped, but for a race.
AckInv ==
  \A b \in Backends : \A n \in dropped[b] : n \in acked[b] =>
    /\ registered[n] # mirror[n] \/ mirror[n] \in raced
    /\ \A s \in Sessions : InFlight(s) /\ oid[s] = mirror[n] => mirror[n] \in raced

RaceInv == OidInv /\ FlightInv /\ AckInv /\ OrphanOnlyByRace

\* A step that registers and creates nothing, sends no request, and drops and
\* acknowledges nothing new, keeps the invariant.
LEMMA QuietStep ==
  ASSUME CommitInv, RaceInv,
         UNCHANGED <<mirror, nextOid, raced>>,
         \A n \in Names : registered'[n] \in {registered[n], NoOid},
         \A s \in Sessions : InFlight(s)' =>
           InFlight(s) /\ oid'[s] = oid[s] /\ name'[s] = name[s],
         \A s \in Sessions : oid'[s] \in {oid[s], NoOid},
         \A b \in Backends : \A n \in dropped'[b] :
           n \in acked'[b] => n \in dropped[b] /\ n \in acked[b]
  PROVE  RaceInv'
<1>0. TypeOK /\ LockInv
  BY DEF CommitInv
<1>1. OidInv'
  <2>1. NoOid < nextOid
    BY <1>0 DEF TypeOK, NoOid
  <2>2. \A s \in Sessions : oid[s] < nextOid
    BY DEF RaceInv, OidInv
  <2>3. \A s \in Sessions : oid'[s] < nextOid
    BY <2>1, <2>2
  <2>4. \A n \in Names : mirror[n] < nextOid
    BY DEF RaceInv, OidInv
  <2> QED
    BY <2>3, <2>4 DEF OidInv
<1>2. FlightInv'
  BY DEF RaceInv, FlightInv
<1>3. AckInv'
  <2> SUFFICES ASSUME NEW b \in Backends, NEW n \in dropped'[b], n \in acked'[b]
               PROVE  /\ registered'[n] # mirror[n] \/ mirror[n] \in raced
                      /\ \A s \in Sessions : InFlight(s)' /\ oid'[s] = mirror[n]
                           => mirror[n] \in raced
    BY DEF AckInv
  <2>1. n \in dropped[b] /\ n \in acked[b] /\ n \in Names
    BY <1>0 DEF TypeOK
  <2>2. mirror[n] # NoOid
    BY <1>0, <2>1 DEF LockInv
  <2> QED
    BY <2>1, <2>2 DEF RaceInv, AckInv
<1>4. OrphanOnlyByRace'
  BY DEF RaceInv, OrphanOnlyByRace
<1> QED
  BY <1>1, <1>2, <1>3, <1>4 DEF RaceInv

\* A commit removes mirrors that moonlink was told about.
LEMMA CommitStep ==
  ASSUME CommitInv, RaceInv, NEW b \in Backends, Commit(b)
  PROVE  RaceInv'
<1>0. TypeOK /\ TxnInv /\ LockInv
  BY DEF CommitInv
<1>1. /\ hooks[b] = <<>> /\ EndTxns({b})
      /\ mirror' = [n \in Names |-> IF n \in dropped[b] THEN NoOid ELSE mirror[n]]
      /\ UNCHANGED <<registered, nextOid, pc, name, oid, raced>>
  BY DEF Commit
<1>2. \A n \in dropped[b] : n \in Names /\ n \in acked[b] /\ mirror[n] # NoOid
  <2>1. ElementsOf(hooks[b]) = {}
    BY <1>1 DEF ElementsOf
  <2>2. dropped[b] \subseteq ElementsOf(hooks[b]) \cup acked[b]
    BY <1>0 DEF TxnInv, BackendInv
  <2> QED
    BY <1>0, <2>1, <2>2 DEF LockInv, TypeOK
<1>3. OidInv'
  <2>1. NoOid < nextOid
    BY <1>0 DEF TypeOK, NoOid
  <2>2. \A n \in Names : mirror[n] < nextOid
    BY DEF RaceInv, OidInv
  <2>3. \A s \in Sessions : oid[s] < nextOid
    BY DEF RaceInv, OidInv
  <2>4. \A n \in Names : mirror'[n] < nextOid
    BY <1>1, <2>1, <2>2
  <2> QED
    BY <1>1, <2>3, <2>4 DEF OidInv
<1>4. FlightInv'
  <2> SUFFICES ASSUME NEW s \in Sessions, InFlight(s)
               PROVE  oid[s] # NoOid /\ (oid[s] = mirror'[name[s]] \/ oid[s] \in raced)
    BY <1>1 DEF FlightInv, InFlight
  <2>1. oid[s] # NoOid /\ (oid[s] = mirror[name[s]] \/ oid[s] \in raced)
    BY DEF RaceInv, FlightInv
  <2>2. name[s] \in Names
    BY <1>0 DEF TypeOK, Calling, InFlight
  <2>3. CASE name[s] \in dropped[b]
    BY <1>2, <2>1, <2>3 DEF RaceInv, AckInv
  <2>4. CASE name[s] \notin dropped[b]
    BY <1>1, <2>1, <2>2, <2>4
  <2> QED
    BY <2>3, <2>4
<1>5. AckInv'
  <2> SUFFICES ASSUME NEW c \in Backends, NEW n \in dropped'[c], n \in acked'[c]
               PROVE  /\ registered[n] # mirror'[n] \/ mirror'[n] \in raced
                      /\ \A s \in Sessions : InFlight(s) /\ oid[s] = mirror'[n]
                           => mirror'[n] \in raced
    BY <1>1 DEF AckInv, InFlight
  <2>1. c # b /\ n \in dropped[c] /\ n \in acked[c]
    BY <1>1, EndTxnsEffect
  <2>2. n \notin dropped[b] /\ n \in Names
    BY <1>0, <2>1 DEF LockInv, TypeOK
  <2>3. mirror'[n] = mirror[n]
    BY <1>1, <2>2
  <2> QED
    BY <2>1, <2>3 DEF RaceInv, AckInv
<1>6. OrphanOnlyByRace'
  <2> SUFFICES ASSUME NEW n \in Names, registered[n] # NoOid
               PROVE  registered[n] = mirror'[n] \/ registered[n] \in raced
    BY <1>1 DEF OrphanOnlyByRace
  <2>1. CASE n \in dropped[b]
    BY <1>2, <2>1 DEF RaceInv, AckInv, OrphanOnlyByRace
  <2>2. CASE n \notin dropped[b]
    BY <1>1, <2>2 DEF RaceInv, OrphanOnlyByRace
  <2> QED
    BY <2>1, <2>2
<1> QED
  BY <1>3, <1>4, <1>5, <1>6 DEF RaceInv

\* When moonlink acknowledges a drop, a call in flight for the same mirror is
\* noted as a race.
LEMMA PreCommitStep ==
  ASSUME CommitInv, RaceInv, NEW b \in Backends, PreCommitOk(b)
  PROVE  RaceInv'
<1> DEFINE h == Head(hooks[b])
<1>0. TypeOK /\ LockInv
  BY DEF CommitInv
<1>1. h \in Names
  BY <1>0, TailElements DEF PreCommitOk, TypeOK
<1>2. /\ registered' = [registered EXCEPT ![h] = NoOid]
      /\ acked' = [acked EXCEPT ![b] = @ \cup {h}]
      /\ UNCHANGED <<mirror, nextOid, dropped, pc, name, oid>>
  BY DEF PreCommitOk, Forget, callVars
<1>3. raced \subseteq raced'
  BY DEF PreCommitOk, NoteRace
<1>4. ASSUME h \in dropped[b], NEW s \in Sessions, InFlight(s), oid[s] = mirror[h]
      PROVE  mirror[h] \in raced'
  BY <1>4 DEF PreCommitOk, NoteRace
<1>5. \A n \in Names : registered'[n] = IF n = h THEN NoOid ELSE registered[n]
  BY <1>0, <1>2 DEF TypeOK
<1>6. \A c \in Backends, n \in Names :
        n \in acked'[c] => n \in acked[c] \/ (c = b /\ n = h)
  BY <1>0, <1>2 DEF TypeOK
<1> HIDE DEF h
<1>7. OidInv'
  BY <1>2 DEF RaceInv, OidInv
<1>8. FlightInv'
  BY <1>2, <1>3 DEF RaceInv, FlightInv, InFlight
<1>9. AckInv'
  <2> SUFFICES ASSUME NEW c \in Backends, NEW n \in dropped[c], n \in acked'[c]
               PROVE  /\ registered'[n] # mirror[n] \/ mirror[n] \in raced'
                      /\ \A s \in Sessions : InFlight(s) /\ oid[s] = mirror[n]
                           => mirror[n] \in raced'
    BY <1>2 DEF AckInv, InFlight
  <2>1. n \in Names /\ mirror[n] # NoOid
    BY <1>0 DEF LockInv, TypeOK
  <2>2. CASE n \in acked[c]
    <3>1. registered[n] # mirror[n] \/ mirror[n] \in raced
      BY <2>2 DEF RaceInv, AckInv
    <3>2. \A s \in Sessions : InFlight(s) /\ oid[s] = mirror[n] => mirror[n] \in raced
      BY <2>2 DEF RaceInv, AckInv
    <3> QED
      BY <1>3, <1>5, <2>1, <3>1, <3>2
  <2>3. CASE c = b /\ n = h
    BY <1>4, <1>5, <2>1, <2>3
  <2> QED
    BY <1>6, <2>1, <2>2, <2>3
<1>10. OrphanOnlyByRace'
  BY <1>2, <1>3, <1>5 DEF RaceInv, OrphanOnlyByRace
<1> QED
  BY <1>7, <1>8, <1>9, <1>10 DEF RaceInv

\* A new mirror gets an oid that nothing else has.
LEMMA CreateMirrorStep ==
  ASSUME CommitInv, RaceInv, NEW s \in Sessions, CreateMirror(s)
  PROVE  RaceInv'
<1>0. TypeOK /\ LockInv
  BY DEF CommitInv
<1>1. /\ name[s] \in Names /\ mirror[name[s]] = NoOid
      /\ mirror' = [mirror EXCEPT ![name[s]] = nextOid]
      /\ oid' = [oid EXCEPT ![s] = nextOid]
      /\ pc' = [pc EXCEPT ![s] = "send"]
      /\ nextOid' = nextOid + 1 /\ nextOid \in Nat \ {NoOid}
      /\ UNCHANGED <<registered, name, dropped, acked, raced>>
  BY <1>0 DEF CreateMirror, TypeOK, Calling, txnVars
<1>2. \A n \in Names : mirror'[n] = IF n = name[s] THEN nextOid ELSE mirror[n]
  BY <1>0, <1>1 DEF TypeOK
<1>3. \A t \in Sessions : oid'[t] = IF t = s THEN nextOid ELSE oid[t]
  BY <1>0, <1>1 DEF TypeOK
<1>4. \A t \in Sessions : t # s => (InFlight(t)' <=> InFlight(t))
  BY <1>0, <1>1 DEF TypeOK, InFlight
<1>5. (\A n \in Names : mirror[n] \in Nat) /\ (\A t \in Sessions : oid[t] \in Nat)
  BY <1>0 DEF TypeOK
<1>6. (\A n \in Names : mirror[n] < nextOid) /\ (\A t \in Sessions : oid[t] < nextOid)
  BY DEF RaceInv, OidInv
<1>7. OidInv'
  BY <1>1, <1>2, <1>3, <1>5, <1>6 DEF OidInv
<1>8. FlightInv'
  <2> SUFFICES ASSUME NEW t \in Sessions, InFlight(t)'
               PROVE  oid'[t] # NoOid /\ (oid'[t] = mirror'[name[t]] \/ oid'[t] \in raced)
    BY <1>1 DEF FlightInv
  <2>1. CASE t = s
    BY <1>1, <1>2, <1>3, <2>1
  <2>2. CASE t # s
    <3>1. oid[t] # NoOid /\ (oid[t] = mirror[name[t]] \/ oid[t] \in raced)
      BY <1>4, <2>2 DEF RaceInv, FlightInv
    <3>2. name[t] \in Names
      BY <1>0, <1>4, <2>2 DEF TypeOK, Calling, InFlight
    <3> QED
      BY <1>1, <1>2, <1>3, <2>2, <3>1, <3>2
  <2> QED
    BY <2>1, <2>2
<1>9. AckInv'
  <2> SUFFICES ASSUME NEW b \in Backends, NEW n \in dropped[b], n \in acked[b]
               PROVE  /\ registered[n] # mirror'[n] \/ mirror'[n] \in raced
                      /\ \A t \in Sessions : InFlight(t)' /\ oid'[t] = mirror'[n]
                           => mirror'[n] \in raced
    BY <1>1 DEF AckInv
  <2>1. n \in Names /\ mirror[n] # NoOid
    BY <1>0 DEF LockInv, TypeOK
  <2>2. mirror'[n] = mirror[n] /\ mirror[n] # nextOid
    BY <1>1, <1>2, <1>5, <1>6, <2>1
  <2> QED
    BY <1>3, <1>4, <2>2 DEF RaceInv, AckInv
<1>10. OrphanOnlyByRace'
  BY <1>1, <1>2 DEF RaceInv, OrphanOnlyByRace
<1> QED
  BY <1>7, <1>8, <1>9, <1>10 DEF RaceInv

\* moonlink registers what the call made, or what has been raced.
LEMMA RpcAcceptedStep ==
  ASSUME CommitInv, RaceInv, NEW s \in Sessions, RpcAccepted(s)
  PROVE  RaceInv'
<1>0. TypeOK /\ LockInv
  BY DEF CommitInv
<1>1. /\ name[s] \in Names /\ InFlight(s)
      /\ registered' = [registered EXCEPT ![name[s]] = oid[s]]
      /\ pc' = [pc EXCEPT ![s] = "accepted"]
      /\ UNCHANGED <<mirror, nextOid, name, oid, dropped, acked, raced>>
  BY <1>0 DEF RpcAccepted, TypeOK, Calling, InFlight, txnVars
<1>2. \A n \in Names : registered'[n] = IF n = name[s] THEN oid[s] ELSE registered[n]
  BY <1>0, <1>1 DEF TypeOK
<1>3. \A t \in Sessions : InFlight(t)' => InFlight(t)
  BY <1>0, <1>1 DEF TypeOK, InFlight
<1>4. OidInv'
  BY <1>1 DEF RaceInv, OidInv
<1>5. FlightInv'
  BY <1>1, <1>3 DEF RaceInv, FlightInv
<1>6. AckInv'
  <2> SUFFICES ASSUME NEW b \in Backends, NEW n \in dropped[b], n \in acked[b]
               PROVE  /\ registered'[n] # mirror[n] \/ mirror[n] \in raced
                      /\ \A t \in Sessions : InFlight(t)' /\ oid[t] = mirror[n]
                           => mirror[n] \in raced
    BY <1>1 DEF AckInv
  <2>1. n \in Names
    BY <1>0 DEF TypeOK
  <2> QED
    BY <1>1, <1>2, <1>3, <2>1 DEF RaceInv, AckInv
<1>7. OrphanOnlyByRace'
  BY <1>1, <1>2 DEF RaceInv, FlightInv, OrphanOnlyByRace
<1> QED
  BY <1>4, <1>5, <1>6, <1>7 DEF RaceInv

\* With the extension go all mirrors; those that moonlink knows, or is about to
\* register, are noted.
LEMMA DropExtensionStep ==
  ASSUME CommitInv, RaceInv, DropExtension
  PROVE  RaceInv'
<1>0. TypeOK /\ LockInv
  BY DEF CommitInv
<1>1. /\ \A n \in Names : mirror'[n] = NoOid
      /\ \A b \in Backends : dropped'[b] = {}
      /\ UNCHANGED <<registered, nextOid, pc, name, oid>>
  BY <1>0 DEF DropExtension, Locked, TypeOK, txnVars, callVars
<1>2. \A n \in Names : Known(n) => mirror[n] \in raced'
  BY DEF DropExtension
<1>3. raced \subseteq raced'
  BY DEF DropExtension
<1>4. OidInv'
  <2>1. NoOid < nextOid /\ \A s \in Sessions : oid[s] < nextOid
    BY <1>0 DEF TypeOK, NoOid, RaceInv, OidInv
  <2> QED
    BY <1>1, <2>1 DEF OidInv
<1>5. FlightInv'
  <2> SUFFICES ASSUME NEW s \in Sessions, InFlight(s)
               PROVE  oid[s] # NoOid /\ oid[s] \in raced'
    BY <1>1 DEF FlightInv, InFlight
  <2>1. oid[s] # NoOid /\ (oid[s] = mirror[name[s]] \/ oid[s] \in raced)
    BY DEF RaceInv, FlightInv
  <2>2. name[s] \in Names
    BY <1>0 DEF TypeOK, Calling, InFlight
  <2> QED
    BY <1>2, <1>3, <2>1, <2>2 DEF Known
<1>6. AckInv'
  BY <1>1 DEF AckInv
<1>7. OrphanOnlyByRace'
  BY <1>1, <1>2, <1>3 DEF RaceInv, OrphanOnlyByRace, Known
<1> QED
  BY <1>4, <1>5, <1>6, <1>7 DEF RaceInv

\* Every step keeps the invariant.
LEMMA RaceStep == CommitInv /\ RaceInv /\ [Next]_vars => RaceInv'
<1> SUFFICES ASSUME CommitInv, RaceInv, [Next]_vars PROVE RaceInv'
  OBVIOUS
<1> USE BackendsDiffer DEF txnVars, callVars
<1>0. TypeOK /\ TxnInv /\ LoopbackInv
  BY DEF CommitInv
\* Transactions that end take their drops and answers with them.
<1>1. ASSUME NEW B \in SUBSET Backends, EndTxns(B)
      PROVE  \A b \in Backends : \A n \in dropped'[b] :
               n \in acked'[b] => n \in dropped[b] /\ n \in acked[b]
  BY <1>1, EndTxnsEffect
<1>2. CASE UNCHANGED vars
  BY <1>2, QuietStep DEF vars, InFlight
<1>3. CASE Crash
  BY <1>1, <1>3, QuietStep DEF Crash, InFlight
<1>4. ASSUME NEW b \in Backends, PreCommitFails(b) \/ CommitFails(b) PROVE RaceInv'
  <2>1. \A n \in Names : registered'[n] \in {registered[n], NoOid}
    BY <1>0, <1>4 DEF PreCommitFails, CommitFails, Forget, TypeOK
  <2>2. EndTxns({b}) /\ UNCHANGED <<mirror, nextOid, pc, name, oid, raced>>
    BY <1>4 DEF PreCommitFails, CommitFails, CommitAborts
  <2> QED
    BY <1>1, <2>1, <2>2, QuietStep DEF InFlight
\* So does a transaction that goes back to its savepoint; it has no answers yet,
\* or what it keeps it has dropped before.
<1>5. ASSUME NEW s \in Sessions, StatementFails(s)
      PROVE  \A b \in Backends : \A n \in dropped'[b] :
               n \in acked'[b] => n \in dropped[b] /\ n \in acked[b]
  <2>1. CASE RollsBack(s)
    BY <1>1, <2>1 DEF RollsBack
  <2>2. CASE BackToSavepoint(s)
    <3>1. \A b \in Backends : dropped'[b] \subseteq dropped[b]
      BY <1>0, <2>2 DEF BackToSavepoint, TxnInv, BackendInv, TypeOK
    <3> QED
      BY <2>2, <3>1 DEF BackToSavepoint
  <2> QED
    BY <1>5, <2>1, <2>2 DEF StatementFails
<1>9. ASSUME NEW s \in Sessions, RolledBack(s) \/ RolledBackTo(s) PROVE RaceInv'
  <2>1. StatementFails(s) /\ UNCHANGED <<mirror, registered, nextOid, pc, name, oid, raced>>
    BY <1>9 DEF RolledBack, RolledBackTo, StatementFails
  <2> QED
    BY <1>5, <2>1, QuietStep DEF InFlight
<1>6. ASSUME NEW s \in Sessions, CallFails(s) PROVE RaceInv'
  <2>1. \A t \in Sessions : oid'[t] \in {oid[t], NoOid}
    BY <1>0, <1>6 DEF CallFails, CallEnds, TypeOK
  <2>2. \A t \in Sessions : InFlight(t)' =>
          InFlight(t) /\ oid'[t] = oid[t] /\ name'[t] = name[t]
    BY <1>0, <1>6 DEF CallFails, CallEnds, TypeOK, InFlight
  <2>3. StatementFails(s) /\ UNCHANGED <<mirror, registered, nextOid, raced>>
    BY <1>6 DEF CallFails
  <2> QED
    BY <1>5, <2>1, <2>2, <2>3, QuietStep
<1>7. ASSUME NEW s \in Sessions, CallReturns(s) PROVE RaceInv'
  <2>1. \A t \in Sessions : oid'[t] \in {oid[t], NoOid}
    BY <1>0, <1>7 DEF CallReturns, CallEnds, TypeOK
  <2>2. \A t \in Sessions : InFlight(t)' =>
          InFlight(t) /\ oid'[t] = oid[t] /\ name'[t] = name[t]
    BY <1>0, <1>7 DEF CallReturns, CallEnds, TypeOK, InFlight
  <2> QED
    BY <1>7, <2>1, <2>2, QuietStep DEF CallReturns
<1>8. ASSUME NEW s \in Sessions, NEW n \in Names, DropTable(s, n) PROVE RaceInv'
  <2>1. acked[Client(s)] = {}
    BY <1>0, <1>8 DEF DropTable, Ready, TxnInv, BackendInv
  <2>2. \A b \in Backends : \A m \in dropped'[b] :
          m \in acked[b] => m \in dropped[b]
    BY <1>0, <1>8, <2>1 DEF DropTable, TypeOK
  <2> QED
    BY <1>8, <2>2, QuietStep DEF DropTable, InFlight
<1>10. ASSUME NEW s \in Sessions, Cleanup(s) PROVE RaceInv'
  <2>1. acked[Loopback(s)] = {}
    BY <1>0, <1>10 DEF Cleanup, LoopbackInv, TxnInv, BackendInv
  <2>2. \A b \in Backends : \A m \in dropped'[b] :
          m \in acked[b] => m \in dropped[b]
    BY <1>0, <1>10, <2>1 DEF Cleanup, TypeOK
  <2>3. \A t \in Sessions : InFlight(t)' => InFlight(t)
    BY <1>0, <1>10 DEF Cleanup, TypeOK, InFlight
  <2>4. UNCHANGED <<mirror, registered, nextOid, acked, name, oid, raced>>
    BY <1>10 DEF Cleanup
  <2> QED
    BY <2>2, <2>3, <2>4, QuietStep
<1>11. ASSUME NEW s \in Sessions,
              SendRpc(s) \/ RpcRejected(s) \/ RpcLost(s) \/ \E n \in Names : create_table(s, n)
       PROVE  RaceInv'
  <2>1. \A t \in Sessions : InFlight(t)' =>
          InFlight(t) /\ oid'[t] = oid[t] /\ name'[t] = name[t]
    BY <1>0, <1>11 DEF SendRpc, RpcRejected, RpcLost, create_table, TypeOK, InFlight
  <2>2. UNCHANGED <<mirror, registered, nextOid, dropped, acked, oid, raced>>
    BY <1>11 DEF SendRpc, RpcRejected, RpcLost, create_table
  <2> QED
    BY <2>1, <2>2, QuietStep
<1>12. ASSUME NEW s \in Sessions,
              Begin(s) \/ StartCommit(s) \/ Write(s) \/ Savepoint(s)
       PROVE  RaceInv'
  BY <1>12, QuietStep DEF Begin, StartCommit, Write, Savepoint, InFlight
<1>13. CASE CreateExtension
  BY <1>13, QuietStep DEF CreateExtension, InFlight
<1> QED
  BY StepCases, CommitStep, PreCommitStep, CreateMirrorStep, RpcAcceptedStep,
     DropExtensionStep, <1>2, <1>3, <1>4, <1>6, <1>7, <1>8, <1>9, <1>10, <1>11, <1>12, <1>13

\* The inductive invariant of registrations.
LEMMA RaceInvHolds == Spec => []RaceInv
<1>1. Init => RaceInv
  <2> SUFFICES ASSUME Init PROVE RaceInv
    OBVIOUS
  <2>1. OidInv
    <3>1. nextOid = 1
      BY DEF Init
    <3>2. ASSUME NEW n \in Names PROVE mirror[n] < nextOid
      <4>1. mirror[n] = 0
        BY DEF Init, NoOid
      <4> QED
        BY <3>1, <4>1
    <3>3. ASSUME NEW s \in Sessions PROVE oid[s] < nextOid
      <4>1. oid[s] = 0
        BY DEF Init, NoOid
      <4> QED
        BY <3>1, <4>1
    <3> QED
      BY <3>2, <3>3 DEF OidInv
  <2>2. FlightInv
    BY DEF Init, FlightInv, InFlight
  <2>3. AckInv
    BY DEF Init, AckInv
  <2>4. OrphanOnlyByRace
    BY DEF Init, OrphanOnlyByRace
  <2> QED
    BY <2>1, <2>2, <2>3, <2>4 DEF RaceInv
<1> QED
  BY <1>1, RaceStep, CommitInvHolds, PTL DEF Spec

\* moonlink keeps a mirror that is no more only after a drop that raced with the
\* mirror's creation, whatever fails, crashes or is rolled back.
THEOREM OrphansComeFromRaces == Spec => []OrphanOnlyByRace
<1>1. RaceInv => OrphanOnlyByRace
  BY DEF RaceInv
<1> QED
  BY <1>1, RaceInvHolds, PTL

-----------------------------------------------------------------------------
(***************************************************************************)
(* Who waits for whom, when clients call in transactions without an xid.   *)
(***************************************************************************)

\* Callers have no xid, and neither has an idle backend; whoever has dropped a table
\* has one, and so has whoever a slot awaits.
WaitInv ==
  /\ \A b \in Backends : txn[b] = "idle" => ~xid[b]
  /\ \A s \in Sessions : Calling(s) => ~xid[Client(s)]
  /\ \A b \in Backends : dropped[b] # {} => xid[b]
  /\ \A s \in Sessions : \A b \in waitFor[s] : b \in Backends => xid[b]

\* A step that begins no call, ends no transaction, takes no xid away and lets nobody drop a table or
\* be awaited.
LEMMA KeptWait ==
  ASSUME WaitInv, xid' = xid,
         \A b \in Backends : txn'[b] = "idle" => txn[b] = "idle",
         \A b \in Backends : dropped'[b] \subseteq dropped[b],
         \A s \in Sessions : waitFor'[s] \subseteq waitFor[s],
         \A s \in Sessions : Calling(s)' => Calling(s)
  PROVE  WaitInv'
<1>1. ASSUME NEW s \in Sessions, Calling(s)' PROVE ~xid'[Client(s)]
  BY <1>1 DEF WaitInv
<1>2. ASSUME NEW b \in Backends, dropped'[b] # {} PROVE xid'[b]
  BY <1>2 DEF WaitInv
<1>3. ASSUME NEW s \in Sessions, NEW b \in waitFor'[s], b \in Backends PROVE xid'[b]
  BY <1>3 DEF WaitInv
<1>4. ASSUME NEW b \in Backends, txn'[b] = "idle" PROVE ~xid'[b]
  BY <1>4 DEF WaitInv
<1> QED
  BY <1>1, <1>2, <1>3, <1>4 DEF WaitInv

\* Transactions that end are awaited no more.
LEMMA EndTxnsWait ==
  ASSUME WaitInv, NEW B \in SUBSET Backends, EndTxns(B),
         \A s \in Sessions : waitFor'[s] \subseteq waitFor[s] \ B,
         \A s \in Sessions : Calling(s)' => Calling(s)
  PROVE  WaitInv'
<1>1. \A b \in Backends : xid'[b] = (xid[b] /\ b \notin B)
  BY DEF EndTxns
<1>2. \A b \in Backends : dropped'[b] # {} => dropped[b] # {} /\ b \notin B
  BY EndTxnsEffect
<1>3. ASSUME NEW s \in Sessions, Calling(s)' PROVE ~xid'[Client(s)]
  BY <1>1, <1>3, BackendsDiffer DEF WaitInv
<1>4. ASSUME NEW b \in Backends, dropped'[b] # {} PROVE xid'[b]
  BY <1>1, <1>2, <1>4 DEF WaitInv
<1>5. ASSUME NEW s \in Sessions, NEW b \in waitFor'[s], b \in Backends PROVE xid'[b]
  BY <1>1, <1>5 DEF WaitInv
<1>6. ASSUME NEW b \in Backends, txn'[b] = "idle" PROVE ~xid'[b]
  <2>1. b \in B \/ txn[b] = "idle"
    BY <1>6, EndTxnsEffect
  <2> QED
    BY <1>1, <2>1 DEF WaitInv
<1> QED
  BY <1>3, <1>4, <1>5, <1>6 DEF WaitInv

\* Every step keeps callers without an xid.
LEMMA WaitStep ==
  ASSUME CallInWritingTxn = FALSE, CommitInv, WaitInv, [Next]_vars
  PROVE  WaitInv'
<1>0. TypeOK /\ TxnInv
  BY DEF CommitInv
<1>1. CASE UNCHANGED vars
  BY <1>1, KeptWait DEF vars, txnVars, callVars, Calling
<1>2. CASE Crash
  <2>1. EndTxns(Backends) /\ Backends \in SUBSET Backends
    BY <1>2 DEF Crash
  <2>2. \A s \in Sessions : waitFor'[s] = {} /\ ~Calling(s)'
    BY <1>2 DEF Crash, Calling
  <2> QED
    BY <2>1, <2>2, EndTxnsWait
<1>3. CASE DropExtension \/ CreateExtension
  BY <1>3, KeptWait DEF DropExtension, CreateExtension, txnVars, callVars, Calling
<1>4. ASSUME NEW b \in Backends, PreCommitOk(b) PROVE WaitInv'
  BY <1>4, KeptWait DEF PreCommitOk, callVars, Calling
<1>5. ASSUME NEW b \in Backends, PreCommitFails(b) \/ CommitFails(b) \/ Commit(b)
      PROVE  WaitInv'
  <2>1. EndTxns({b}) /\ {b} \in SUBSET Backends
    BY <1>5 DEF PreCommitFails, CommitFails, CommitAborts, Commit
  <2>2. \A s \in Sessions : waitFor'[s] \subseteq waitFor[s] \ {b}
    BY <1>5 DEF PreCommitFails, CommitFails, CommitAborts, Commit
  <2>3. pc' = pc
    BY <1>5 DEF PreCommitFails, CommitFails, CommitAborts, Commit
  <2> QED
    BY <2>1, <2>2, <2>3, EndTxnsWait DEF Calling
<1>6. ASSUME NEW s \in Sessions, Savepoint(s) PROVE WaitInv'
  BY <1>6, KeptWait DEF Savepoint, callVars, Calling
<1>15. ASSUME NEW s \in Sessions, Begin(s) \/ StartCommit(s) PROVE WaitInv'
  <2>1. \A b \in Backends : txn'[b] = "idle" => txn[b] = "idle"
    BY <1>0, <1>15 DEF Begin, StartCommit, TypeOK
  <2> QED
    BY <1>15, <2>1, KeptWait DEF Begin, StartCommit, callVars, Calling
\* A statement that fails begins no call.
<1>7. ASSUME NEW s \in Sessions, StatementFails(s),
             \A t \in Sessions : Calling(t)' => Calling(t)
      PROVE  WaitInv'
  <2>1. CASE BackToSavepoint(s)
    <3>1. BackendInv(Client(s)) /\ savepoints[Client(s)] # <<>>
      BY <1>0, <2>1, BackendsDiffer DEF TxnInv, BackToSavepoint
    <3>2. \A b \in Backends : dropped'[b] \subseteq dropped[b]
      BY <1>0, <2>1, <3>1 DEF BackToSavepoint, BackendInv, TypeOK
    <3>3. xid' = xid /\ waitFor' = waitFor /\ txn' = txn
      BY <2>1 DEF BackToSavepoint
    <3> QED
      BY <1>7, <3>2, <3>3, KeptWait
  <2>2. CASE RollsBack(s)
    <3>1. EndTxns({Client(s)}) /\ {Client(s)} \in SUBSET Backends
      BY <2>2, BackendsDiffer DEF RollsBack
    <3>2. \A t \in Sessions : waitFor'[t] \subseteq waitFor[t] \ {Client(s)}
      BY <2>2 DEF RollsBack
    <3> QED
      BY <1>7, <3>1, <3>2, EndTxnsWait
  <2> QED
    BY <1>7, <2>1, <2>2 DEF StatementFails
<1>8. ASSUME NEW s \in Sessions, RolledBack(s) \/ RolledBackTo(s) PROVE WaitInv'
  BY <1>7, <1>8 DEF RolledBack, RolledBackTo, StatementFails, Calling
<1>9. ASSUME NEW s \in Sessions, CallFails(s) PROVE WaitInv'
  <2>1. \A t \in Sessions : Calling(t)' => Calling(t)
    BY <1>0, <1>9 DEF CallFails, CallEnds, Calling, TypeOK
  <2> QED
    BY <1>7, <1>9, <2>1 DEF CallFails
<1>10. ASSUME NEW s \in Sessions, Write(s) \/ \E n \in Names : DropTable(s, n) PROVE WaitInv'
  <2>1. ~Calling(s) /\ txn[Client(s)] = "open" /\ UNCHANGED <<pc, waitFor, txn>>
    BY <1>10 DEF Write, DropTable, Ready, callVars
  <2>2. xid' = [xid EXCEPT ![Client(s)] = TRUE]
    BY <1>10 DEF Write, DropTable
  <2>3. \A b \in Backends : b # Client(s) => dropped'[b] = dropped[b]
    BY <1>0, <1>10 DEF Write, DropTable, TypeOK
  <2>4. \A b \in Backends : xid'[b] = (IF b = Client(s) THEN TRUE ELSE xid[b])
    BY <1>0, <2>2 DEF TypeOK
  <2>5. ASSUME NEW t \in Sessions, Calling(t)' PROVE ~xid'[Client(t)]
    BY <2>1, <2>4, <2>5, BackendsDiffer DEF WaitInv, Calling
  <2> QED
    BY <2>1, <2>3, <2>4, <2>5 DEF WaitInv
\* A call begins without an xid, and reading the setting gives it none.
<1>11. ASSUME NEW s \in Sessions, NEW n \in Names, create_table(s, n) PROVE WaitInv'
  <2>1. ~xid[Client(s)] /\ pc' = [pc EXCEPT ![s] = "loopback"] /\ UNCHANGED <<dropped, waitFor, txn>>
    BY <1>11 DEF create_table
  <2>2. xid' = xid
    BY <1>0, <1>11 DEF create_table, XidAfterSelect, TypeOK
  <2>3. ASSUME NEW t \in Sessions, Calling(t)' PROVE ~xid'[Client(t)]
    <3>1. t = s \/ Calling(t)
      BY <1>0, <2>1, <2>3 DEF Calling, TypeOK
    <3> QED
      BY <2>1, <2>2, <3>1 DEF WaitInv
  <2> QED
    BY <2>1, <2>2, <2>3 DEF WaitInv
<1>12. ASSUME NEW s \in Sessions,
              \/ CreateMirror(s) \/ RpcAccepted(s) \/ RpcRejected(s) \/ RpcLost(s) \/ CallReturns(s)
       PROVE  WaitInv'
  <2>1. xid' = xid /\ dropped' = dropped /\ txn' = txn
    BY <1>12 DEF CreateMirror, RpcAccepted, RpcRejected, RpcLost, CallReturns, txnVars
  <2>2. \A t \in Sessions : waitFor'[t] \subseteq waitFor[t]
    BY <1>0, <1>12 DEF CreateMirror, RpcAccepted, RpcRejected, RpcLost, CallReturns, TypeOK
  <2>3. \A t \in Sessions : Calling(t)' => Calling(t)
    BY <1>0, <1>12 DEF CreateMirror, RpcAccepted, RpcRejected, RpcLost, CallReturns, CallEnds,
                       Calling, TypeOK
  <2> QED
    BY <2>1, <2>2, <2>3, KeptWait
\* The slot awaits those who have an xid now.
<1>13. ASSUME NEW s \in Sessions, SendRpc(s) PROVE WaitInv'
  <2>1. xid' = xid /\ dropped' = dropped /\ txn' = txn
    BY <1>13 DEF SendRpc, txnVars
  <2>2. \A t \in Sessions : \A b \in waitFor'[t] : b \in waitFor[t] \/ xid[b]
    BY <1>0, <1>13 DEF SendRpc, TypeOK
  <2>3. \A t \in Sessions : Calling(t)' => Calling(t)
    BY <1>0, <1>13 DEF SendRpc, Calling, TypeOK
  <2> QED
    BY <2>1, <2>2, <2>3 DEF WaitInv
\* It is the loopback session that drops what a call has made.
<1>14. ASSUME NEW s \in Sessions, Cleanup(s) PROVE WaitInv'
  <2>1. /\ xid' = [xid EXCEPT ![Loopback(s)] = TRUE] /\ waitFor' = waitFor
        /\ \A b \in Backends : b # Loopback(s) => dropped'[b] = dropped[b]
        /\ txn' = [txn EXCEPT ![Loopback(s)] = "committing"]
    BY <1>0, <1>14 DEF Cleanup, TypeOK
  <2>2. \A t \in Sessions : Calling(t)' => Calling(t)
    BY <1>0, <1>14 DEF Cleanup, Calling, TypeOK
  <2>3. \A b \in Backends : xid'[b] = (IF b = Loopback(s) THEN TRUE ELSE xid[b])
    BY <1>0, <2>1 DEF TypeOK
  <2>4. ASSUME NEW t \in Sessions, Calling(t)' PROVE ~xid'[Client(t)]
    BY <2>2, <2>3, <2>4, BackendsDiffer DEF WaitInv
  <2>5. \A b \in Backends : txn'[b] = "idle" => b # Loopback(s) /\ txn[b] = "idle"
    BY <1>0, <2>1, BackendsDiffer DEF TypeOK
  <2> QED
    BY <2>1, <2>3, <2>4, <2>5 DEF WaitInv
<1> QED
  BY StepCases, <1>1, <1>2, <1>3, <1>4, <1>5, <1>6, <1>8, <1>9, <1>10, <1>11, <1>12,
     <1>13, <1>14, <1>15

\* Whoever waits, waits for a transaction with an xid or for its own loopback session;
\* a loopback session waits for a transaction with an xid.
LEMMA WhoWaits ==
  ASSUME DropWaits = FALSE, CommitInv, WaitInv,
         NEW b \in Backends, NEW c \in Backends, WaitsFor(b, c)
  PROVE  /\ ~xid[b]
         /\ \/ xid[c]
            \/ \E s \in Sessions : b = Client(s) /\ c = Loopback(s)
<1>0. TypeOK /\ TxnInv /\ LoopbackInv
  BY DEF CommitInv
<1>1. ASSUME NEW s \in Sessions, b = Client(s), pc[s] = "waiting", c \in waitFor[s]
      PROVE  ~xid[b] /\ xid[c]
  BY <1>1 DEF WaitInv, Calling
<1>2. ASSUME NEW s \in Sessions, b = Client(s), c = Loopback(s),
             pc[s] \in {"loopback", "refused", "cleanup"}
      PROVE  ~xid[b]
  BY <1>2 DEF WaitInv, Calling
<1>3. ASSUME NEW s \in Sessions, b = Loopback(s), pc[s] = "refused", name[s] \in dropped[c]
      PROVE  ~xid[b] /\ xid[c]
  <2>1. txn[b] = "idle"
    BY <1>0, <1>3 DEF LoopbackInv
  <2> QED
    BY <1>3, <2>1 DEF WaitInv
<1> QED
  BY <1>1, <1>2, <1>3 DEF WaitsFor

\* If calls are made in transactions that have written nothing, and moonlink forgets
\* names without waiting for their creation, no circle of waits runs through a call,
\* whatever fails.
THEOREM CallsDoNotDeadlock ==
  ASSUME CallInWritingTxn = FALSE, DropWaits = FALSE
  PROVE  Spec => []NoWaitCycle
<1>1. Init => WaitInv
  BY DEF Init, WaitInv, Calling
<1>2. CommitInv /\ WaitInv /\ [Next]_vars => WaitInv'
  BY WaitStep
<1>3. CommitInv /\ WaitInv => NoWaitCycle
  <2> SUFFICES ASSUME CommitInv, WaitInv, NEW B \in (SUBSET Backends) \ {{}}
               PROVE  \E b \in B : \A c \in B : ~WaitsFor(b, c)
    BY DEF NoWaitCycle
  <2>0. B \subseteq Backends /\ B # {} /\ DropWaits = FALSE
    OBVIOUS
  \* Of those with an xid nobody waits; else, of the loopback sessions nobody waits
  \* for a member of B; else B has callers only, who do not wait for each other.
  <2>1. CASE \E b \in B : xid[b]
    <3>1. PICK b \in B : xid[b]
      BY <2>1
    <3>2. \A c \in B : ~WaitsFor(b, c)
      BY <2>0, <3>1, WhoWaits
    <3> QED
      BY <3>2
  <2>2. CASE (\E s \in Sessions : Loopback(s) \in B) /\ \A c \in B : ~xid[c]
    <3>1. PICK s \in Sessions : Loopback(s) \in B
      BY <2>2
    <3>2. ASSUME NEW c \in B PROVE ~WaitsFor(Loopback(s), c)
      <4>1. /\ Loopback(s) \in Backends /\ c \in Backends /\ ~xid[c]
            /\ \A t \in Sessions : Loopback(s) # Client(t)
        BY <2>0, <2>2, <3>1, <3>2, BackendsDiffer
      <4> QED
        BY <2>0, <4>1, WhoWaits
    <3> QED
      BY <3>1, <3>2
  <2>3. CASE (\A s \in Sessions : Loopback(s) \notin B) /\ \A c \in B : ~xid[c]
    <3>1. PICK b \in B : TRUE
      BY <2>0
    <3>2. ASSUME NEW c \in B PROVE ~WaitsFor(b, c)
      BY <2>0, <2>3, WhoWaits
    <3> QED
      BY <3>2
  <2> QED
    BY <2>1, <2>2, <2>3
<1> QED
  BY <1>1, <1>2, <1>3, CommitInvHolds, PTL DEF Spec
=============================================================================
