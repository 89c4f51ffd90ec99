-------------------------------- MODULE TableAm --------------------------------
(***************************************************************************)
(* The table access method of mirrors (src/src/table.rs).  Queries go to   *)
(* DuckDB; what is left of the access method are stubs that panic, some    *)
(* that do nothing, and some that say "nothing here".  The panic ends the  *)
(* statement (pg_guard turns it into an error).  Which callbacks a         *)
(* statement reaches is PostgreSQL's part; the module lets clients,        *)
(* maintenance commands and autovacuum run into mirrors and tables alike.  *)
(***************************************************************************)
EXTENDS Naturals, FiniteSets

CONSTANTS
  Tables,      \* names of tables
  FreezeAge,   \* age at which autovacuum freezes a table against wraparound
  MaxAge       \* age at which Postgres assigns no xid any more

ASSUME AgeAssumption == FreezeAge \in Nat /\ MaxAge \in Nat /\ FreezeAge < MaxAge

VARIABLES
  kind,     \* kind[t]: "absent", "heap" or "mirror"
  holds,    \* holds[t]: what Postgres stores for t: rows, an index
  age,      \* age[t]: age of relfrozenxid, or NoXid
  command,  \* maintenance of the whole database: "vacuum", "analyze" or "none"
  todo      \* tables that it has not come to yet

vars == <<kind, holds, age, command, todo>>

-----------------------------------------------------------------------------
(***************************************************************************)
(* The callbacks, by outcome.                                              *)
(***************************************************************************)

ScanStubs ==
  {"scan_rescan", "scan_getnextslot", "scan_set_tidrange", "scan_getnextslot_tidrange",
   "parallelscan_estimate", "parallelscan_initialize", "parallelscan_reinitialize"}

IndexFetchStubs ==
  {"index_fetch_begin", "index_fetch_reset", "index_fetch_end", "index_fetch_tuple"}

TupleReadStubs ==
  {"tuple_fetch_row_version", "tuple_tid_valid", "tuple_get_latest_tid",
   "tuple_satisfies_snapshot", "index_delete_tuples"}

TupleWriteStubs_NoInsert ==
  {"tuple_insert_speculative", "tuple_complete_speculative", "tuple_delete", "tuple_update",
   "tuple_lock", "finish_bulk_insert"}
TupleWriteStubs_NoFinish ==
  {"tuple_insert", "tuple_insert_speculative", "tuple_complete_speculative", "multi_insert",
   "tuple_delete", "tuple_update", "tuple_lock"}
TupleWriteStubs ==
  {"tuple_insert", "tuple_insert_speculative", "tuple_complete_speculative", "multi_insert",
   "tuple_delete", "tuple_update", "tuple_lock", "finish_bulk_insert"}

RelationStubs ==
  {"relation_copy_data", "relation_copy_for_cluster", "relation_vacuum",
   "scan_analyze_next_tuple", "index_build_range_scan", "index_validate_scan"}

ToastStubs == {"relation_toast_am", "relation_fetch_toast_slice"}

SampleStubs ==
  {"scan_bitmap_next_block", "scan_bitmap_next_tuple", "scan_sample_next_block",
   "scan_sample_next_tuple"}

Unimplemented ==
  ScanStubs \cup IndexFetchStubs \cup TupleReadStubs \cup TupleWriteStubs \cup RelationStubs
    \cup ToastStubs \cup SampleStubs

\* These say that there is nothing to be had.
scan_analyze_next_block_True == TRUE
scan_analyze_next_block == FALSE
relation_needs_toast_table == FALSE

NoXid == MaxAge + 1
\* relation_set_new_filelocator leaves freeze_xid as it comes, which is invalid.
set_new_filelocator_Recent == 0
set_new_filelocator == NoXid

-----------------------------------------------------------------------------
(***************************************************************************)
(* The callbacks that a statement reaches on an empty table, at least.     *)
(***************************************************************************)

Reached ==
  [create       |-> IF relation_needs_toast_table THEN {"relation_toast_am"} ELSE {},
   insert       |-> {"slot_callbacks", "tuple_insert"},
   copy         |-> {"slot_callbacks", "multi_insert", "finish_bulk_insert"},
   truncate     |-> {"relation_nontransactional_truncate"},
   create_index |-> {"index_build_range_scan"},
   rewrite_from |-> {"scan_begin", "slot_callbacks", "scan_getnextslot"},
   rewrite_to   |-> {"finish_bulk_insert"},
   vacuum       |-> {"relation_vacuum"},
   analyze      |-> {"relation_size", "scan_begin", "scan_end", "relation_estimate_size"} \cup
                    (IF scan_analyze_next_block THEN {"scan_analyze_next_tuple"} ELSE {})]

\* The statement does not panic on a table of this kind.
Works(statement, k) == k = "heap" \/ Reached[statement] \cap Unimplemented = {}

\* The age of a table that was just given a new file.
NewAge(k) == IF k = "heap" THEN 0 ELSE set_new_filelocator

Exists(t) == kind[t] # "absent"
HasXid(t) == Exists(t) /\ age[t] # NoXid
\* Postgres assigns xids.
XidsLeft == \A t \in Tables : HasXid(t) => age[t] < MaxAge

TypeOK ==
  /\ kind \in [Tables -> {"absent", "heap", "mirror"}]
  /\ holds \in [Tables -> SUBSET {"rows", "index"}]
  /\ age \in [Tables -> 0..NoXid]
  /\ \A t \in Tables : kind[t] # "heap" => age[t] = NoXid
  /\ command \in {"none", "vacuum", "analyze"}
  /\ todo \subseteq Tables

Init ==
  /\ kind = [t \in Tables |-> "absent"]
  /\ holds = [t \in Tables |-> {}]
  /\ age = [t \in Tables |-> NoXid]
  /\ command = "none"
  /\ todo = {}

-----------------------------------------------------------------------------
(***************************************************************************)
(* Clients.                                                                *)
(***************************************************************************)

Create(t, k) ==
  /\ ~Exists(t) /\ XidsLeft
  /\ Works("create", k)
  /\ kind' = [kind EXCEPT ![t] = k]
  /\ age' = [age EXCEPT ![t] = NewAge(k)]
  /\ UNCHANGED <<holds, command, todo>>

Drop(t) ==
  /\ Exists(t) /\ XidsLeft
  /\ kind' = [kind EXCEPT ![t] = "absent"]
  /\ holds' = [holds EXCEPT ![t] = {}]
  /\ age' = [age EXCEPT ![t] = NoXid]
  /\ UNCHANGED <<command, todo>>

\* INSERT, COPY FROM (of any rows) and CREATE INDEX.
Store(t, statement, what) ==
  /\ Exists(t) /\ XidsLeft
  /\ Works(statement, kind[t])
  /\ holds' = [holds EXCEPT ![t] = @ \cup {what}]
  /\ UNCHANGED <<kind, age, command, todo>>

\* TRUNCATE: a new file, or none if the table is as new as the transaction.
Truncate(t) ==
  /\ Exists(t) /\ XidsLeft
  /\ Works("truncate", kind[t])
  /\ holds' = [holds EXCEPT ![t] = @ \ {"rows"}]
  /\ age' = [age EXCEPT ![t] = NewAge(kind[t])]
  /\ UNCHANGED <<kind, command, todo>>

\* ALTER TABLE .. SET ACCESS METHOD, and every other rewrite.
Rewrite(t, k) ==
  /\ Exists(t) /\ XidsLeft
  /\ Works("rewrite_from", kind[t]) /\ Works("rewrite_to", k)
  /\ "index" \in holds[t] => Works("create_index", k)
  /\ kind' = [kind EXCEPT ![t] = k]
  /\ age' = [age EXCEPT ![t] = NewAge(k)]
  /\ UNCHANGED <<holds, command, todo>>

\* Transactions go by.
AssignXid ==
  /\ XidsLeft
  /\ age' = [t \in Tables |-> IF HasXid(t) THEN age[t] + 1 ELSE age[t]]
  /\ UNCHANGED <<kind, holds, command, todo>>

-----------------------------------------------------------------------------
(***************************************************************************)
(* Maintenance.                                                            *)
(***************************************************************************)

\* A worker freezes what is old; a panic leaves the table as it is, and the
\* worker goes on to the next one.
Autovacuum(t) ==
  /\ HasXid(t) /\ age[t] >= FreezeAge
  /\ Works("vacuum", kind[t])
  /\ age' = [age EXCEPT ![t] = 0]
  /\ UNCHANGED <<kind, holds, command, todo>>

Begin(c) ==
  /\ command = "none"
  /\ command' = c
  /\ todo' = {t \in Tables : Exists(t)}
  /\ UNCHANGED <<kind, holds, age>>

\* One table in a transaction of its own, if it is still there.
Maintain(t) ==
  /\ t \in todo
  /\ Exists(t) => Works(command, kind[t])
  /\ todo' = todo \ {t}
  /\ age' = IF command = "vacuum" /\ HasXid(t) THEN [age EXCEPT ![t] = 0] ELSE age
  /\ UNCHANGED <<kind, holds, command>>

\* The panic ends the command: it comes to no other table.
MaintainPanics(t) ==
  /\ t \in todo
  /\ Exists(t) /\ ~Works(command, kind[t])
  /\ command' = "none"
  /\ todo' = {}
  /\ UNCHANGED <<kind, holds, age>>

End ==
  /\ command # "none"
  /\ todo = {}
  /\ command' = "none"
  /\ UNCHANGED <<kind, holds, age, todo>>

Client(t) ==
  \/ Create(t, "heap") \/ Create(t, "mirror") \/ Drop(t)
  \/ Store(t, "insert", "rows") \/ Store(t, "copy", "rows") \/ Store(t, "create_index", "index")
  \/ Truncate(t)
  \/ Rewrite(t, "heap") \/ Rewrite(t, "mirror")

Next ==
  \/ \E t \in Tables : Client(t) \/ Autovacuum(t) \/ Maintain(t) \/ MaintainPanics(t)
  \/ Begin("vacuum") \/ Begin("analyze") \/ End
  \/ AssignXid

Spec == Init /\ [][Next]_vars

\* Fairness: autovacuum comes to every old table that it can vacuum.
FairSpec == Spec /\ \A t \in Tables : WF_vars(Autovacuum(t))

-----------------------------------------------------------------------------
(***************************************************************************)
(* Properties.                                                             *)
(***************************************************************************)

\* Postgres never holds anything of its own for a mirror, which queries, going
\* to DuckDB, would not see: no row, no index, whatever statements are tried.
MirrorsHoldNothing == \A t \in Tables : kind[t] = "mirror" => holds[t] = {}

\* A table never turns into a mirror, nor a mirror into a table: a mirror that
\* moonlink was not asked for arises from CREATE TABLE .. USING mooncake alone.
KindsDoNotChange ==
  [][\A t \in Tables : Exists(t) /\ Exists(t)' => kind'[t] = kind[t]]_vars

\* ANALYZE of the whole database comes to every table; no mirror stops it.
AnalyzeCoversDatabase == [][command = "analyze" /\ command' = "none" => todo = {}]_vars

\* Mirrors, which no VACUUM can freeze, never bring the database to the point
\* where it assigns no xid any more: they have no horizon to be frozen.
XidsGoOn == []<>XidsLeft
=============================================================================
