---------------------------- MODULE MirrorRegistry ----------------------------
(***************************************************************************)
(* What the catalog and moonlink promise each other about mirrors, with    *)
(* neither sessions nor transactions.  A mirror is made for a name and is  *)
(* registered under that name at most once, while its creation lasts; it   *)
(* leaves the catalog only after moonlink has forgotten it, and moonlink   *)
(* hears no more of it then.  There is one exception: late mirrors, which  *)
(* were being created when they were to be forgotten, or went with the     *)
(* whole catalog.                                                          *)
(***************************************************************************)
EXTENDS Naturals

CONSTANTS Names

VARIABLES
  mirror,      \* mirror[n]: the mirror of that name in the catalog, or 0
  registered,  \* registered[n]: the mirror moonlink knows by that name, or 0
  nextOid,     \* the next mirror to be made
  pending,     \* <<n, o>>: the creation of mirror o, of name n, still goes on
  late         \* late mirrors

vars == <<mirror, registered, nextOid, pending, late>>

\* moonlink knows the mirror n, or may yet come to know it.
Known(n) == mirror[n] # 0 /\ (registered[n] = mirror[n] \/ <<n, mirror[n]>> \in pending)

Init ==
  /\ mirror = [n \in Names |-> 0]
  /\ registered = [n \in Names |-> 0]
  /\ nextOid = 1
  /\ pending = {}
  /\ late = {}

Make(n) ==
  /\ mirror[n] = 0
  /\ mirror' = [mirror EXCEPT ![n] = nextOid]
  /\ pending' = pending \cup {<<n, nextOid>>}
  /\ nextOid' = nextOid + 1
  /\ UNCHANGED <<registered, late>>

Register(n, o) ==
  /\ <<n, o>> \in pending
  /\ mirror[n] = o \/ o \in late
  /\ registered[n] = 0
  /\ registered' = [registered EXCEPT ![n] = o]
  /\ pending' = pending \ {<<n, o>>}
  /\ UNCHANGED <<mirror, nextOid, late>>

\* Creations fail.
GiveUp ==
  /\ UNCHANGED <<mirror, registered, nextOid, late>>
  /\ pending' \subseteq pending

Forget(n) ==
  /\ registered' = [registered EXCEPT ![n] = 0]
  /\ \/ UNCHANGED late
     \/ <<n, mirror[n]>> \in pending /\ late' = late \cup {mirror[n]}
  /\ UNCHANGED <<mirror, nextOid, pending>>

Drop(N) ==
  /\ \A n \in N : Known(n) => mirror[n] \in late
  /\ mirror' = [n \in Names |-> IF n \in N THEN 0 ELSE mirror[n]]
  /\ UNCHANGED <<registered, nextOid, pending, late>>

DropAll ==
  /\ mirror' = [n \in Names |-> 0]
  /\ late' = late \cup {mirror[n] : n \in {m \in Names : Known(m)}}
  /\ UNCHANGED <<registered, nextOid, pending>>

Next ==
  \/ GiveUp
  \/ \E n \in Names : Make(n) \/ Forget(n)
  \/ \E p \in pending : Register(p[1], p[2])
  \/ \E N \in SUBSET Names : Drop(N)
  \/ DropAll

Spec == Init /\ [][Next]_vars
=============================================================================
