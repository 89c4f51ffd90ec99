------------------------- MODULE BgworkerStatusProofs -------------------------
(***************************************************************************)
(* Theorems about BgworkerStatus, for any backends, durations and exits of *)
(* the worker.                                                             *)
(***************************************************************************)
EXTENDS BgworkerStatus, TLAPS

\* A worker that listens has its file, and the probe's history is up to date.
ProbeInv ==
  /\ Listening => socketFile
  /\ probe # "idle" => Listening \in seen

EvidenceInv == ProbeInv /\ StatusIsEvidence

\* Before the first bind nobody listens.
LEMMA EvidenceInit == StatusInit => EvidenceInv
BY DEF StatusInit, Init, EvidenceInv, ProbeInv, StatusIsEvidence, Listening

\* What was seen stays seen, and whoever makes the worker listen makes the file.
LEMMA EvidenceStep == EvidenceInv /\ [StatusNext]_statusVars => EvidenceInv'
<1> SUFFICES ASSUME EvidenceInv, [StatusNext]_statusVars PROVE EvidenceInv'
  OBVIOUS
<1> USE DEF EvidenceInv, ProbeInv, StatusIsEvidence, Listening
<1>1. CASE UNCHANGED statusVars
  BY <1>1 DEF statusVars, vars, workerVars
<1>2. CASE MoonlinkStep
  <2>1. /\ probe' = probe
        /\ seen' = IF probe = "idle" THEN {} ELSE seen \cup {worker' = "listening"}
    BY <1>2 DEF MoonlinkStep
  <2>2. worker' = "listening" => socketFile'
    BY <1>2 DEF MoonlinkStep
  <2>3. probe' # "idle" => (worker' = "listening") \in seen'
    BY <2>1
  <2>4. probe # "idle" => \A x \in seen : x \in seen'
    BY <2>1
  <2>5. StatusIsEvidence'
    BY <2>1, <2>4
  <2> QED
    BY <2>2, <2>3, <2>5
<1>3. CASE BeginStatus
  <2>1. /\ probe' \in {"connecting", "missing"}
        /\ probe' = "missing" => ~socketFile
        /\ seen' = {worker = "listening"}
        /\ socketFile' = socketFile /\ worker' = worker
    BY <1>3 DEF BeginStatus, vars, workerVars
  <2>2. probe' = "missing" => FALSE \in seen'
    BY <2>1
  <2> QED
    BY <2>1, <2>2
<1>4. CASE ProbeConnects
  <2>1. /\ probe = "connecting"
        /\ probe' = IF worker = "listening" THEN "accepted" ELSE "refused"
        /\ socketFile' = socketFile /\ worker' = worker /\ seen' = seen
    BY <1>4 DEF ProbeConnects, Connects, vars, workerVars
  <2>2. CASE worker = "listening"
    BY <2>1, <2>2
  <2>3. CASE worker # "listening"
    BY <2>1, <2>3
  <2> QED
    BY <2>2, <2>3
<1>5. CASE StatusReturns \/ StatusGivesUp
  BY <1>5 DEF StatusReturns, StatusGivesUp, ReportStatus, vars, workerVars
<1> QED
  BY <1>1, <1>2, <1>3, <1>4, <1>5 DEF StatusNext, bgworker_status

\* Whatever the probe reports was true of the worker at some moment of the call,
\* for any number of crashes and restarts.
THEOREM ReportIsEvidence == StatusSpec => []StatusIsEvidence
<1>1. EvidenceInv => StatusIsEvidence
  BY DEF EvidenceInv
<1> QED
  BY <1>1, EvidenceInit, EvidenceStep, PTL DEF StatusSpec

\* The probe only watches: with it, the client and the worker behave as without,
\* so that the theorems about MoonlinkClient hold here as well.
THEOREM ProbeOnlyWatches == StatusSpec => Spec
<1>1. StatusInit => Init
  BY DEF StatusInit
<1>2. [StatusNext]_statusVars => [Next]_vars
  BY DEF StatusNext, bgworker_status, statusVars, MoonlinkStep, BeginStatus,
         ProbeConnects, StatusReturns, StatusGivesUp, ReportStatus
<1> QED
  BY <1>1, <1>2, PTL DEF StatusSpec, Spec
=============================================================================
