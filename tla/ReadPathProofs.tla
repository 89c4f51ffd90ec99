---------------------------- MODULE ReadPathProofs -----------------------------
(***************************************************************************)
(* Theorems about ReadPath, for any number of sessions, commits and        *)
(* restarts: its invariants, and that it implements SessionReads.          *)
(***************************************************************************)
EXTENDS ReadPath, TLAPS

\* Who waits for moonlink waits for its own last commit, and what was reported
\* as kept is in Iceberg.
RequestInv ==
  /\ \A s \in Sessions : Idle(s) \/ request[s].lsn = XactLastCommitEnd[s]
  /\ SnapshotSurvives

IInv == TypeOK /\ RequestInv

LEMMA InitInv == Init => IInv
BY BoundAssumption
DEF Init, IInv, TypeOK, RequestInv, SnapshotSurvives, Requests, none, Idle

LEMMA StepInv == IInv /\ [Next]_vars => IInv'
<1> SUFFICES ASSUME IInv, [Next]_vars PROVE IInv'
  OBVIOUS
<1> USE BoundAssumption
    DEF IInv, TypeOK, RequestInv, SnapshotSurvives, Requests, none, Idle, walVars,
        mirrorVars, sessionVars
<1>1. CASE UNCHANGED vars
  BY <1>1 DEF vars
<1>2. ASSUME NEW s \in Sessions, Commit(s) PROVE IInv'
  <2>1. lsn' = lsn + 1 /\ flushed' \in {flushed, lsn'}
    BY <1>2 DEF Commit
  <2>2. XactLastCommitEnd' \in [Sessions -> 0..lsn']
    BY <1>2 DEF Commit
  <2>3. request' \in [Sessions -> Requests' \cup {none}]
    BY <1>2 DEF Commit
  <2> QED
    BY <1>2, <2>1, <2>2, <2>3 DEF Commit
<1>3. ASSUME NEW s \in Sessions, NEW kind \in {"query", "snapshot"},
             NEW position \in 0..lsn, Ask(s, kind, position),
             position = XactLastCommitEnd[s]
      PROVE  IInv'
  BY <1>3 DEF Ask
<1>4. ASSUME NEW s \in Sessions, EndQuery(s) PROVE IInv'
  BY <1>4 DEF EndQuery, Answer
<1>5. ASSUME NEW s \in Sessions, EndSnapshot(s) PROVE IInv'
  BY <1>5 DEF EndSnapshot, Answer
<1>6. ASSUME NEW s \in Sessions, RequestFails(s) PROVE IInv'
  BY <1>6 DEF RequestFails
<1>7. ASSUME NEW s \in Sessions, Reconnect(s) PROVE IInv'
  BY <1>7 DEF Reconnect
<1>8. CASE WalWriter \/ Replicate \/ FlushIceberg
  BY <1>8 DEF WalWriter, Replicate, FlushIceberg
<1>9. CASE WorkerExit
  BY <1>9 DEF WorkerExit, GoDown
<1>10. CASE ServerCrash
  BY <1>10 DEF ServerCrash, GoDown
<1>11. ASSUME NEW s \in Sessions, BeginQuery(s) \/ create_snapshot(s) PROVE IInv'
  BY <1>3, <1>11 DEF BeginQuery, create_snapshot, pgmooncake_get_lsn, SnapshotLsn
<1> QED
  BY <1>1, <1>2, <1>4, <1>5, <1>6, <1>7, <1>8, <1>9, <1>10, <1>11 DEF Next

\* The type invariant, which also orders the positions: what moonlink has in
\* Iceberg, in memory, what is on disk, and the end of the WAL.
THEOREM TypeCorrect == Spec => []TypeOK
<1>1. IInv => TypeOK
  BY DEF IInv
<1> QED
  BY <1>1, InitInv, StepInv, PTL DEF Spec

\* What create_snapshot has reported stays in Iceberg.
THEOREM SnapshotsAreKept == Spec => []SnapshotSurvives
<1>1. IInv => SnapshotSurvives
  BY DEF IInv, RequestInv
<1> QED
  BY <1>1, InitInv, StepInv, PTL DEF Spec

-----------------------------------------------------------------------------

\* The prefix that SessionReads sees for s.
Shown == [s \in Sessions |-> IF shownIn[s] = exits THEN shown[s] ELSE 0]

\* Initial states are initial states of SessionReads.
LEMMA InitRefines == Init => Reads!Init
BY DEF Init, Reads!Init

\* Every step is one of SessionReads, or changes nothing that it sees.
LEMMA StepRefines == IInv /\ [Next]_vars => [Reads!Next]_Reads!vars
<1> SUFFICES ASSUME IInv, [Next]_vars PROVE Reads!Next \/ UNCHANGED Reads!vars
  OBVIOUS
<1> USE DEF walVars, mirrorVars, sessionVars
<1>1. TypeOK /\ Shown \in [Sessions -> Nat]
  BY DEF IInv, TypeOK, Shown
<1>2. ASSUME UNCHANGED <<lsn, flushed, XactLastCommitEnd, shown, shownIn, exits>>
      PROVE  UNCHANGED Reads!vars
  BY <1>2 DEF Reads!vars
<1>3. ASSUME NEW s \in Sessions, Commit(s) PROVE Reads!Commit(s)
  BY <1>3 DEF Commit, Reads!Commit
<1>4. CASE WalWriter
  <2>1. flushed' \in flushed..lsn
    BY <1>1, <1>4 DEF WalWriter, TypeOK
  <2>2. Reads!Persist
    BY <1>4, <2>1 DEF WalWriter, Reads!Persist
  <2> QED
    BY <2>2 DEF Reads!Next
<1>5. ASSUME NEW s \in Sessions, EndQuery(s) PROVE Reads!Query(s)
  <2>1. request[s].lsn = XactLastCommitEnd[s]
    BY <1>5 DEF EndQuery, Answer, IInv, RequestInv, Idle, none
  <2>2. replicated \in XactLastCommitEnd[s]..flushed
    BY <1>1, <1>5, <2>1 DEF EndQuery, Answer, TypeOK
  <2>3. Shown[s] <= replicated
    BY <1>1 DEF TypeOK, Shown
  <2>4. Shown' = [Shown EXCEPT ![s] = replicated]
    BY <1>1, <1>5 DEF EndQuery, Shown, TypeOK
  <2> QED
    BY <1>5, <2>2, <2>3, <2>4 DEF EndQuery, Reads!Query, Shown
<1>6. ASSUME NEW s \in Sessions, Reconnect(s) PROVE Reads!NewSession(s)
  <2>1. Shown' = [Shown EXCEPT ![s] = 0]
    BY <1>1, <1>6 DEF Reconnect, Shown, TypeOK
  <2> QED
    BY <1>6, <2>1 DEF Reconnect, Reads!NewSession, Shown
<1>7. CASE WorkerExit
  <2>1. Shown' = [s \in Sessions |-> 0]
    BY <1>1, <1>7 DEF WorkerExit, GoDown, Shown, TypeOK
  <2> QED
    BY <1>7, <2>1 DEF WorkerExit, Reads!Next, Reads!MirrorRestarts, Shown
<1>8. CASE ServerCrash
  <2>1. Shown' = [s \in Sessions |-> 0]
    BY <1>1, <1>8 DEF ServerCrash, GoDown, Shown, TypeOK
  <2> QED
    BY <1>8, <2>1 DEF ServerCrash, Reads!Next, Reads!ServerCrashes, Shown
<1>9. CASE UNCHANGED vars \/ Replicate \/ FlushIceberg
  BY <1>2, <1>9 DEF vars, Replicate, FlushIceberg
<1>10. ASSUME NEW s \in Sessions,
              BeginQuery(s) \/ create_snapshot(s) \/ EndSnapshot(s) \/ RequestFails(s)
       PROVE  UNCHANGED Reads!vars
  BY <1>2, <1>10 DEF BeginQuery, create_snapshot, Ask, EndSnapshot, RequestFails
<1> QED
  BY <1>3, <1>4, <1>5, <1>6, <1>7, <1>8, <1>9, <1>10 DEF Next, Reads!Next

\* Queries keep the promises of SessionReads, for all sessions, whatever commits
\* and restarts there are.
THEOREM QueriesKeepPromises == Spec => ReadsAsPromised
BY InitInv, StepInv, InitRefines, StepRefines, PTL DEF Spec, ReadsAsPromised, Reads!Spec
=============================================================================
