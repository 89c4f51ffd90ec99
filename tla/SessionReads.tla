----------------------------- MODULE SessionReads -----------------------------
(***************************************************************************)
(* What a client may count on when it queries a mirror, whoever else       *)
(* writes, and whatever is restarted.  The database is a log of commits,   *)
(* and a query shows what some prefix of it has made of the table.  The    *)
(* prefix contains the client's own commits and whatever the client has    *)
(* been shown before, unless the mirror was restarted since, and no commit *)
(* that a crash of the server could still undo.                            *)
(***************************************************************************)
EXTENDS Naturals

CONSTANTS Sessions

VARIABLES
  committed,  \* length of the log
  durable,    \* how much of it a crash of the server leaves
  own,        \* own[s]: position of the last commit of session s, or 0
  shown       \* shown[s]: the prefix that the last query of s showed

vars == <<committed, durable, own, shown>>

Init ==
  /\ committed \in Nat
  /\ durable = committed
  /\ own = [s \in Sessions |-> 0]
  /\ shown = [s \in Sessions |-> 0]

Commit(s) ==
  /\ committed' = committed + 1
  /\ durable' \in {durable, committed'}
  /\ own' = [own EXCEPT ![s] = committed']
  /\ UNCHANGED shown

Persist ==
  /\ durable' \in durable..committed
  /\ UNCHANGED <<committed, own, shown>>

Query(s) ==
  /\ \E p \in own[s]..durable :
       /\ shown[s] <= p
       /\ shown' = [shown EXCEPT ![s] = p]
  /\ UNCHANGED <<committed, durable, own>>

\* The client gives its session up for another one.
NewSession(s) ==
  /\ own' = [own EXCEPT ![s] = 0]
  /\ shown' = [shown EXCEPT ![s] = 0]
  /\ UNCHANGED <<committed, durable>>

MirrorRestarts ==
  /\ shown' = [s \in Sessions |-> 0]
  /\ UNCHANGED <<committed, durable, own>>

ServerCrashes ==
  /\ committed' = durable
  /\ own' = [s \in Sessions |-> 0]
  /\ shown' = [s \in Sessions |-> 0]
  /\ UNCHANGED durable

Next ==
  \/ \E s \in Sessions : Commit(s) \/ Query(s) \/ NewSession(s)
  \/ Persist \/ MirrorRestarts \/ ServerCrashes

Spec == Init /\ [][Next]_vars
=============================================================================
