----------------------------- MODULE TableAmProofs -----------------------------
(***************************************************************************)
(* Theorems about TableAm, for any tables and ages.                        *)
(***************************************************************************)
EXTENDS TableAm, TLAPS

USE DEF Exists, HasXid

\* What does not work on a mirror.
LEMMA MirrorPanics ==
  \A st \in {"insert", "copy", "create_index", "rewrite_from", "rewrite_to", "vacuum"} :
    ~Works(st, "mirror")
BY DEF Works, Reached, Unimplemented, ScanStubs, TupleWriteStubs, RelationStubs

\* Only heap tables hold anything.
IInv == TypeOK /\ \A t \in Tables : kind[t] # "heap" => holds[t] = {}

LEMMA InitInv == Init => IInv
BY AgeAssumption DEF Init, IInv, TypeOK, NoXid

\* No age is that of a table without a horizon.
LEMMA Ages == NoXid \in Nat /\ 0 \in 0..NoXid /\ 0 # NoXid /\ set_new_filelocator = NoXid
BY AgeAssumption DEF NoXid, set_new_filelocator

LEMMA StepInv == IInv /\ [Next]_vars => IInv'
<1> SUFFICES ASSUME IInv, [Next]_vars PROVE IInv'
  OBVIOUS
<1> USE Ages, AgeAssumption DEF IInv, TypeOK
<1>1. CASE UNCHANGED vars
  BY <1>1 DEF vars
<1>2. ASSUME NEW t \in Tables, NEW k \in {"heap", "mirror"}, Create(t, k) PROVE IInv'
  <2>1. NewAge(k) \in 0..NoXid /\ (k = "mirror" => NewAge(k) = NoXid)
    BY DEF NewAge
  <2> QED
    BY <1>2, <2>1 DEF Create
<1>3. ASSUME NEW t \in Tables, Drop(t) PROVE IInv'
  BY <1>3 DEF Drop
<1>4. ASSUME NEW t \in Tables, NEW st \in {"insert", "copy", "create_index"},
             NEW what \in {"rows", "index"}, Store(t, st, what)
      PROVE  IInv'
  <2>1. kind[t] = "heap"
    BY <1>4, MirrorPanics DEF Store
  <2> QED
    BY <1>4, <2>1 DEF Store
<1>5. ASSUME NEW t \in Tables, Truncate(t) PROVE IInv'
  <2>1. NewAge(kind[t]) \in 0..NoXid /\ (kind[t] # "heap" => NewAge(kind[t]) = NoXid)
    BY DEF NewAge
  <2> QED
    BY <1>5, <2>1 DEF Truncate
<1>6. ASSUME NEW t \in Tables, NEW k \in {"heap", "mirror"}, Rewrite(t, k) PROVE IInv'
  <2>1. kind[t] = "heap" /\ k = "heap"
    BY <1>6, MirrorPanics DEF Rewrite
  <2> QED
    BY <1>6, <2>1 DEF Rewrite, NewAge
<1>7. CASE AssignXid
  BY <1>7 DEF AssignXid, XidsLeft, NoXid
<1>8. ASSUME NEW t \in Tables, Autovacuum(t) PROVE IInv'
  BY <1>8 DEF Autovacuum
<1>9. ASSUME NEW t \in Tables, Maintain(t) PROVE IInv'
  BY <1>9 DEF Maintain
<1>10. ASSUME NEW t \in Tables, MaintainPanics(t) PROVE IInv'
  BY <1>10 DEF MaintainPanics
<1>11. CASE Begin("vacuum") \/ Begin("analyze") \/ End
  BY <1>11 DEF Begin, End
<1> QED
  BY <1>1, <1>2, <1>3, <1>4, <1>5, <1>6, <1>7, <1>8, <1>9, <1>10, <1>11 DEF Next, Client

\* The type invariant; in particular a mirror has no horizon to be frozen.
THEOREM TypeCorrect == Spec => []TypeOK
<1>1. IInv => TypeOK
  BY DEF IInv
<1> QED
  BY <1>1, InitInv, StepInv, PTL DEF Spec

\* Postgres never stores anything for a mirror.
THEOREM MirrorsStayEmpty == Spec => []MirrorsHoldNothing
<1>1. IInv => MirrorsHoldNothing
  BY DEF IInv, MirrorsHoldNothing
<1> QED
  BY <1>1, InitInv, StepInv, PTL DEF Spec

\* No statement turns a table into a mirror, or a mirror into a table.
THEOREM KindsStay == Spec => KindsDoNotChange
<1>1. ASSUME IInv, [Next]_vars, NEW t \in Tables, Exists(t), Exists(t)'
      PROVE  kind'[t] = kind[t]
  <2>1. CASE UNCHANGED kind
    BY <2>1
  <2>2. ASSUME NEW u \in Tables, NEW k \in {"heap", "mirror"}, Create(u, k)
        PROVE  kind'[t] = kind[t]
    BY <1>1, <2>2 DEF Create, IInv, TypeOK
  <2>3. ASSUME NEW u \in Tables, Drop(u) PROVE kind'[t] = kind[t]
    BY <1>1, <2>3 DEF Drop, IInv, TypeOK
  <2>4. ASSUME NEW u \in Tables, NEW k \in {"heap", "mirror"}, Rewrite(u, k)
        PROVE  kind'[t] = kind[t]
    <3>1. kind[u] = "heap" /\ k = "heap"
      BY <1>1, <2>4, MirrorPanics DEF Rewrite, IInv, TypeOK
    <3> QED
      BY <1>1, <2>4, <3>1 DEF Rewrite, IInv, TypeOK
  <2> QED
    BY <1>1, <2>1, <2>2, <2>3, <2>4
    DEF Next, Client, vars, Store, Truncate, AssignXid, Autovacuum, Begin, Maintain,
        MaintainPanics, End
<1>2. IInv /\ [Next]_vars => [\A t \in Tables : Exists(t) /\ Exists(t)' => kind'[t] = kind[t]]_vars
  BY <1>1
<1> QED
  BY <1>2, InitInv, StepInv, PTL DEF Spec, KindsDoNotChange

\* No kind of table stops ANALYZE: none of the callbacks it reaches panics.
LEMMA AnalyzeWorks == \A k : Works("analyze", k)
BY DEF Works, Reached, Unimplemented, ScanStubs, IndexFetchStubs, TupleReadStubs,
       TupleWriteStubs, RelationStubs, ToastStubs, SampleStubs, scan_analyze_next_block

\* ANALYZE of the database ends when it has come to every table, and not before.
THEOREM AnalyzeComesToAll == Spec => AnalyzeCoversDatabase
<1>1. ASSUME Next, command = "analyze", command' = "none" PROVE todo = {}
  <2>1. ASSUME NEW t \in Tables, MaintainPanics(t) PROVE FALSE
    BY <1>1, <2>1, AnalyzeWorks DEF MaintainPanics
  <2>2. CASE UNCHANGED command
    BY <1>1, <2>2
  <2>3. CASE Begin("vacuum") \/ Begin("analyze")
    BY <1>1, <2>3 DEF Begin
  <2>4. CASE End
    BY <2>4 DEF End
  <2> QED
    BY <1>1, <2>1, <2>2, <2>3, <2>4
    DEF Next, Client, Create, Drop, Store, Truncate, Rewrite, AssignXid, Autovacuum, Maintain
<1>2. [Next]_vars => [command = "analyze" /\ command' = "none" => todo = {}]_vars
  BY <1>1
<1> QED
  BY <1>2, PTL DEF Spec, AnalyzeCoversDatabase
=============================================================================
