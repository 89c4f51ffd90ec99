---------------------------- MODULE BgworkerStatus -----------------------------
(***************************************************************************)
(* mooncake.bgworker_status() (src/src/functions.rs), the probe that an    *)
(* operator uses when mirrors fail although the worker is enabled: it      *)
(* looks for the file of the worker's socket, lets a thread connect to it, *)
(* and reports what it has seen, at the latest after 250 ms.  The worker   *)
(* may bind, crash, return and be restarted meanwhile (MoonlinkClient).    *)
(***************************************************************************)
EXTENDS MoonlinkClient

VARIABLES
  socketFile,  \* whether pg_mooncake/moonlink.sock exists
  probe,       \* how far the probe is
  seen         \* history: the values of Listening since the probe began

statusVars == <<vars, socketFile, probe, seen>>

StatusInit ==
  /\ Init
  /\ socketFile \in BOOLEAN   \* a server before this one may have left it
  /\ probe = "idle"
  /\ seen = {}

-----------------------------------------------------------------------------

\* Path::exists: without the file there is nothing to connect to.
BeginStatus ==
  /\ probe = "idle"
  /\ probe' = IF socketFile THEN "connecting" ELSE "missing"
  /\ seen' = {Listening}
  /\ UNCHANGED <<vars, socketFile>>

Connects_ByFile == socketFile

\* A file that nobody listens on refuses the connection.
Connects == Listening

\* The thread's connect returns.
ProbeConnects ==
  /\ probe = "connecting"
  /\ probe' = IF Connects THEN "accepted" ELSE "refused"
  /\ UNCHANGED <<vars, socketFile, seen>>

\* What is reported: socket_exists unless the file was missing, socket_listening
\* if the connection was accepted.
ReportStatus ==
  /\ probe' = "idle"
  /\ seen' = {}
  /\ UNCHANGED <<vars, socketFile>>

StatusReturns == probe \in {"missing", "accepted", "refused"} /\ ReportStatus

StatusGivesUp_Never == FALSE

\* 250 ms have passed and the thread is still in connect: it is left behind, and
\* the socket is reported as one that nobody listens on.
StatusGivesUp == probe = "connecting" /\ ReportStatus

\* The bind makes the file, a crash leaves it behind, and a service that returns
\* in good order may remove it.
MoonlinkStep ==
  /\ Next
  /\ socketFile' \in IF worker' = "listening"             THEN {TRUE}
                     ELSE IF Listening /\ worker' = "off" THEN {FALSE, socketFile}
                     ELSE {socketFile}
  /\ seen' = IF probe = "idle" THEN {} ELSE seen \cup {worker' = "listening"}
  /\ UNCHANGED probe

bgworker_status == BeginStatus \/ ProbeConnects \/ StatusReturns \/ StatusGivesUp

StatusNext == MoonlinkStep \/ bgworker_status

(***************************************************************************)
(* Fairness: that of MoonlinkClient, and the loop of the probe goes on.    *)
(* Nothing makes the thread's connect return.                              *)
(***************************************************************************)
StatusSpec ==
  /\ StatusInit /\ [][StatusNext]_statusVars
  /\ Fairness
  /\ WF_statusVars(StatusReturns \/ StatusGivesUp)

-----------------------------------------------------------------------------
(***************************************************************************)
(* Properties.                                                             *)
(***************************************************************************)

\* The report is "evidence of whether the bgworker is actually running": what it
\* says of the socket was true of the worker at some moment of the call, however
\* the worker came and went.  (A probe that stalled has no evidence either way.)
StatusIsEvidence ==
  /\ probe = "accepted" => TRUE \in seen
  /\ probe \in {"missing", "refused"} => FALSE \in seen

\* The probe never blocks its backend, whatever the socket does.
StatusEnds == probe # "idle" ~> probe = "idle"
=============================================================================
