---------------------------- MODULE MCMirrorTables ----------------------------
(***************************************************************************)
(* MirrorTables for the model checker: sessions are interchangeable, and   *)
(* so are names.                                                           *)
(***************************************************************************)
EXTENDS MirrorTables, TLC

Symmetry == Permutations(Sessions) \cup Permutations(Names)

\* The transaction of s has a savepoint, or has gone back to one: it has more
\* callbacks to run than tables to drop for them.
UsesSavepoint(s) ==
  \/ savepoints[Client(s)] # <<>>
  \/ Len(hooks[Client(s)]) > Cardinality(dropped[Client(s)] \ acked[Client(s)])

\* Bound: one transaction at a time does.
OneRollsBack == Cardinality({s \in Sessions : UsesSavepoint(s)}) <= 1
\* Bound: calls that start together make no more than MaxOid mirrors either.
MirrorsMade == nextOid <= MaxOid + 1
=============================================================================
