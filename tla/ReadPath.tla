------------------------------- MODULE ReadPath --------------------------------
(***************************************************************************)
(* Queries of mirrors, and mooncake.create_snapshot.  DuckDB asks the      *)
(* backend which position of the WAL a query has to see                    *)
(* (pgmooncake_get_lsn, src/src/duckdb_mooncake.rs), and asks moonlink for *)
(* a state of the table that is at least that new; create_snapshot sends   *)
(* the same position (src/src/functions.rs).  moonlink replicates the WAL  *)
(* that is flushed into memory, and from there writes Iceberg snapshots:   *)
(* these are the commit_lsn and the flush_lsn of mooncake.list_tables.     *)
(*                                                                         *)
(* Positions count commit records; tables are not told apart.              *)
(***************************************************************************)
EXTENDS Naturals

CONSTANTS
  Sessions,   \* client sessions
  MaxLsn,     \* bound: commits
  MaxExits    \* bound: exits of the worker and crashes of the server

ASSUME BoundAssumption == MaxLsn \in Nat /\ MaxExits \in Nat

VARIABLES
  lsn,                \* the end of the WAL
  flushed,            \* the end of the WAL on disk
  replicated,         \* moonlink's commit_lsn
  iceberg,            \* moonlink's flush_lsn
  exits,              \* how often the worker or the server has gone down
  XactLastCommitEnd,  \* XactLastCommitEnd[s]: the Postgres variable in s's backend
  request,            \* request[s]: what s waits for
  shown,              \* history: the position that s's last query showed,
  shownIn,            \* and the value of exits at that time
  kept                \* history: the newest commit of which a caller of
                      \* create_snapshot was told that it is in Iceberg

walVars     == <<lsn, flushed>>
mirrorVars  == <<replicated, iceberg>>
sessionVars == <<XactLastCommitEnd, request, shown, shownIn>>
vars == <<walVars, mirrorVars, exits, sessionVars, kept>>

none == [kind |-> "none", lsn |-> 0]
Requests == [kind : {"query", "snapshot"}, lsn : 0..lsn]

TypeOK ==
  /\ lsn \in Nat /\ flushed \in 0..lsn
  /\ replicated \in 0..flushed /\ iceberg \in 0..replicated
  /\ exits \in 0..MaxExits
  /\ XactLastCommitEnd \in [Sessions -> 0..lsn]
  /\ request \in [Sessions -> Requests \cup {none}]
  /\ shown \in [Sessions -> Nat]
  /\ shownIn \in [Sessions -> 0..exits]
  /\ \A s \in Sessions : shownIn[s] = exits => shown[s] <= replicated
  /\ kept \in Nat

Init ==
  /\ lsn = 0 /\ flushed = 0 /\ replicated = 0 /\ iceberg = 0
  /\ exits = 0
  /\ XactLastCommitEnd = [s \in Sessions |-> 0]
  /\ request = [s \in Sessions |-> none]
  /\ shown = [s \in Sessions |-> 0]
  /\ shownIn = [s \in Sessions |-> 0]
  /\ kept = 0

-----------------------------------------------------------------------------
(***************************************************************************)
(* Postgres and moonlink.                                                  *)
(***************************************************************************)

Idle(s) == request[s] = none

\* A transaction that has written commits; with synchronous_commit off, its
\* record is flushed later.  (One that has not, or that aborts, leaves all this
\* as it is, XactLastCommitEnd included.)
Commit(s) ==
  /\ Idle(s)
  /\ lsn < MaxLsn
  /\ lsn' = lsn + 1
  /\ flushed' \in {flushed, lsn'}
  /\ XactLastCommitEnd' = [XactLastCommitEnd EXCEPT ![s] = lsn']
  /\ UNCHANGED <<mirrorVars, exits, request, shown, shownIn, kept>>

WalWriter ==
  /\ flushed < lsn
  /\ flushed' = lsn
  /\ UNCHANGED <<lsn, mirrorVars, exits, sessionVars, kept>>

\* A walsender sends what is on disk.
Replicate ==
  /\ replicated < flushed
  /\ replicated' = replicated + 1
  /\ UNCHANGED <<walVars, iceberg, exits, sessionVars, kept>>

\* moonlink writes a snapshot when it sees fit.
FlushIceberg ==
  /\ iceberg < replicated
  /\ iceberg' = replicated
  /\ UNCHANGED <<walVars, replicated, exits, sessionVars, kept>>

-----------------------------------------------------------------------------
(***************************************************************************)
(* Requests.                                                               *)
(***************************************************************************)

pgmooncake_get_lsn_Flushed(s) == flushed
pgmooncake_get_lsn_Next(s) == XactLastCommitEnd[s] + 1
pgmooncake_get_lsn(s) == XactLastCommitEnd[s]

SnapshotLsn_Zero(s) == 0
SnapshotLsn(s) == XactLastCommitEnd[s]

Ask(s, kind, position) ==
  /\ Idle(s)
  /\ request' = [request EXCEPT ![s] = [kind |-> kind, lsn |-> position]]
  /\ UNCHANGED <<walVars, mirrorVars, exits, XactLastCommitEnd, shown, shownIn, kept>>

BeginQuery(s)      == Ask(s, "query", pgmooncake_get_lsn(s))
create_snapshot(s) == Ask(s, "snapshot", SnapshotLsn(s))

\* moonlink answers once it has replicated what the request has to see.
Answer(s, kind) ==
  /\ request[s].kind = kind
  /\ request[s].lsn <= replicated
  /\ request' = [request EXCEPT ![s] = none]

EndQuery(s) ==
  /\ Answer(s, "query")
  /\ shown' = [shown EXCEPT ![s] = replicated]
  /\ shownIn' = [shownIn EXCEPT ![s] = exits]
  /\ UNCHANGED <<walVars, mirrorVars, exits, XactLastCommitEnd, kept>>

EndSnapshot(s) ==
  /\ Answer(s, "snapshot")
  /\ iceberg' = IF iceberg < request[s].lsn THEN replicated ELSE iceberg
  /\ kept' = IF kept < XactLastCommitEnd[s] THEN XactLastCommitEnd[s] ELSE kept
  /\ UNCHANGED <<walVars, replicated, exits, XactLastCommitEnd, shown, shownIn>>

\* An error: no such table, or a broken stream (see MoonlinkClient).
RequestFails(s) ==
  /\ ~Idle(s)
  /\ request' = [request EXCEPT ![s] = none]
  /\ UNCHANGED <<walVars, mirrorVars, exits, XactLastCommitEnd, shown, shownIn, kept>>

\* The client goes on in another session: a pooler's, or a new one.
Reconnect(s) ==
  /\ Idle(s)
  /\ XactLastCommitEnd' = [XactLastCommitEnd EXCEPT ![s] = 0]
  /\ shown' = [shown EXCEPT ![s] = 0]
  /\ UNCHANGED <<walVars, mirrorVars, exits, request, shownIn, kept>>

-----------------------------------------------------------------------------
(***************************************************************************)
(* Restarts.                                                               *)
(***************************************************************************)

GoDown ==
  /\ exits < MaxExits
  /\ exits' = exits + 1
  /\ replicated' = iceberg
  /\ request' = [s \in Sessions |-> none]
  /\ UNCHANGED <<iceberg, shownIn, kept>>

\* moonlink goes on from its last Iceberg snapshot.  Who waits gets an error.
WorkerExit ==
  /\ GoDown
  /\ UNCHANGED <<walVars, XactLastCommitEnd, shown>>

\* What was not flushed is lost, and so is every session.
ServerCrash ==
  /\ GoDown
  /\ lsn' = flushed
  /\ XactLastCommitEnd' = [s \in Sessions |-> 0]
  /\ shown' = [s \in Sessions |-> 0]
  /\ UNCHANGED flushed

Next ==
  \/ \E s \in Sessions :
       \/ Commit(s) \/ BeginQuery(s) \/ create_snapshot(s)
       \/ EndQuery(s) \/ EndSnapshot(s) \/ RequestFails(s) \/ Reconnect(s)
  \/ WalWriter \/ Replicate \/ FlushIceberg
  \/ WorkerExit \/ ServerCrash

Spec == Init /\ [][Next]_vars

(***************************************************************************)
(* Fairness: the WAL writer flushes, moonlink replicates and answers.  No  *)
(* error is counted on, nor that anybody commits or makes a snapshot.      *)
(***************************************************************************)
FairSpec ==
  /\ Spec
  /\ WF_vars(WalWriter) /\ WF_vars(Replicate)
  /\ \A s \in Sessions : WF_vars(EndQuery(s)) /\ WF_vars(EndSnapshot(s))

-----------------------------------------------------------------------------
(***************************************************************************)
(* Properties.                                                             *)
(***************************************************************************)

\* What a query has shown is to be seen again until moonlink restarts, which
\* may forget what it has not written to Iceberg.
Reads == INSTANCE SessionReads WITH
           committed <- lsn,
           durable   <- flushed,
           own       <- XactLastCommitEnd,
           shown     <- [s \in Sessions |-> IF shownIn[s] = exits THEN shown[s] ELSE 0]

\* Queries of mirrors keep the promises of SessionReads: a client reads its own
\* commits (asynchronous ones too), goes back in time only over a restart of
\* moonlink, and never acts on a commit that a crash of the server then undoes.
\* Of other sessions' commits nothing is promised but that.
ReadsAsPromised == Reads!Spec

\* A commit that create_snapshot has reported to its own session as being in
\* Iceberg stays there, over restarts of moonlink and crashes of the server.
SnapshotSurvives == kept <= iceberg

\* Every request ends although nobody commits any more: the position asked for
\* is one that the WAL reaches without help.
EveryRequestEnds == \A s \in Sessions : ~Idle(s) ~> Idle(s)
=============================================================================
