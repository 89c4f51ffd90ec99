-------------------------- MODULE OrphanSlotsProofs ---------------------------
(***************************************************************************)
(* Theorems about OrphanSlots, for any sets of slots and any number of     *)
(* walsenders and mirrors.                                                 *)
(***************************************************************************)
EXTENDS OrphanSlots, TLAPS

\* The slot at hand is a pair of the list, when there is one.
CurrentOK == current \in [Procs -> (Slots \X Nat) \cup {<<>>}]

TypeInv == TypeOK /\ CurrentOK

\* What is to be dropped was selected by a listing.
TodoInv == \A p \in Procs : \A e \in todo[p] : e[1] \in Selected

\* drop_orphan_slots has a list only if it counted no mirrors, and there are
\* none as long as none is created.
CountInv ==
  /\ pc["admin"] \in {"terminate", "drop"} => noTables
  /\ pc["admin"] # "idle" /\ noTables /\ ~createdSince => mirrors = 0

\* While DROP EXTENSION runs, each slot of this database is either spared or
\* still to be dropped.
SparedInv ==
  /\ extension = "dropping" <=> pc["watcher"] # "idle"
  /\ pc["watcher"] = "finish" => todo["watcher"] = {}
  /\ extension = "dropping" =>
       \A s \in slots \cap CurrentDatabase :
         s \in spared \/ \E e \in todo["watcher"] : e[1] = s

-----------------------------------------------------------------------------
(***************************************************************************)
(* Types.                                                                  *)
(***************************************************************************)

\* A listing is a set of slots of this database, with pids of walsenders that
\* have attached.
LEMMA ListingSelects ==
  ASSUME TypeInv
  PROVE  /\ Listing \in SUBSET (Slots \X (0..pids))
         /\ \A e \in Listing : e[1] \in Selected
         /\ \A s \in slots \cap CurrentDatabase : \E e \in Listing : e[1] = s
<1>1. /\ Listing \in SUBSET (Slots \X (0..pids))
      /\ \A e \in Listing : e[1] \in Selected
  BY DEF TypeInv, TypeOK, Listing
<1>2. ASSUME NEW s \in slots \cap CurrentDatabase PROVE <<s, holder[s]>> \in Listing
  BY DEF Listing, Selected, LikeMoonlink, CurrentDatabase, Slots
<1> QED
  BY <1>1, <1>2

\* Taking a list keeps the types.
LEMMA StartTypes ==
  ASSUME TypeInv, NEW p \in Procs, NEW list \in SUBSET (Slots \X (0..pids)),
         Start(p, list)
  PROVE  /\ todo' \in [Procs -> SUBSET (Slots \X (0..pids))]
         /\ pc' \in [Procs -> {"idle", "counted", "terminate", "drop", "finish"}]
         /\ pc'[p] \in {"finish", "terminate"}
         /\ pc'[p] = "finish" => list = {}
         /\ todo'[p] = list
         /\ \A q \in Procs \ {p} : pc'[q] = pc[q] /\ todo'[q] = todo[q]
BY DEF Start, TypeInv, TypeOK

\* Going on to the next slot keeps the types.
LEMMA NextSlotTypes ==
  ASSUME TypeInv, NEW p \in Procs, NextSlot(p)
  PROVE  /\ todo' \in [Procs -> SUBSET (Slots \X (0..pids))]
         /\ pc' \in [Procs -> {"idle", "counted", "terminate", "drop", "finish"}]
         /\ pc'[p] \in {"finish", "terminate"}
         /\ pc'[p] = "finish" => todo'[p] = {}
         /\ todo'[p] = todo[p] \ {current[p]}
         /\ \A q \in Procs \ {p} : /\ pc'[q] = pc[q] /\ todo'[q] = todo[q]
                                   /\ current'[q] = current[q]
         /\ current' = [current EXCEPT ![p] = <<>>]
         /\ CurrentOK'
<1>1. todo[p] \ {current[p]} \in SUBSET (Slots \X (0..pids))
  BY DEF TypeInv, TypeOK
<1>2. Start(p, todo[p] \ {current[p]}) /\ current' = [current EXCEPT ![p] = <<>>]
  BY DEF NextSlot
<1>3. CurrentOK' /\ \A q \in Procs \ {p} : current'[q] = current[q]
  BY <1>2 DEF TypeInv, CurrentOK
<1> QED
  BY <1>1, <1>2, <1>3, StartTypes

\* Giving up keeps the types.
LEMMA AbandonTypes ==
  ASSUME TypeInv, NEW p \in Procs, Abandon(p)
  PROVE  /\ todo' \in [Procs -> SUBSET (Slots \X (0..pids))]
         /\ pc' \in [Procs -> {"idle", "counted", "terminate", "drop", "finish"}]
         /\ pc'[p] = "idle" /\ todo'[p] = {}
         /\ \A q \in Procs \ {p} : /\ pc'[q] = pc[q] /\ todo'[q] = todo[q]
                                   /\ current'[q] = current[q]
         /\ CurrentOK'
BY DEF Abandon, TypeInv, TypeOK, CurrentOK

\* The first state has the types.
LEMMA TypeInit == Init => TypeInv
<1> SUFFICES ASSUME Init PROVE TypeInv
  OBVIOUS
<1>1. /\ mirrors \in 0..MaxMirrors /\ creating \in 0..MaxMirrors
      /\ slots \subseteq Slots /\ signalled = {}
      /\ pids = 0 /\ pids \in 0..MaxPid
      /\ publication \in BOOLEAN /\ extension = "installed"
      /\ noTables \in BOOLEAN /\ createdSince \in BOOLEAN /\ spared = {}
  <2>1. 0 \in 0..MaxMirrors /\ 0 \in 0..MaxPid
    BY BoundAssumption
  <2>2. InitSlots \subseteq Slots
    BY SlotsAssumption
  <2> QED
    BY <2>1, <2>2 DEF Init
<1>2. holder \in [Slots -> 0..pids] /\ \A s \in Slots \ slots : holder[s] = NoPid
  <2>1. holder = [s \in Slots |-> NoPid] /\ NoPid \in 0..pids
    BY <1>1 DEF Init, NoPid
  <2> QED
    BY <2>1
<1>3. /\ pc = [p \in Procs |-> "idle"]
      /\ todo = [p \in Procs |-> {}]
      /\ current = [p \in Procs |-> <<>>]
  BY DEF Init
<1>4. CurrentOK /\ todo \in [Procs -> SUBSET (Slots \X (0..pids))]
  BY <1>3 DEF CurrentOK
<1>5. /\ pc \in [Procs -> {"idle", "counted", "terminate", "drop", "finish"}]
      /\ \A p \in Procs : pc[p] = "drop" => current[p] \in todo[p]
  BY <1>3
<1> QED
  BY <1>1, <1>2, <1>4, <1>5 DEF TypeInv, TypeOK

\* Every step keeps the types: a slot is dropped only when nobody holds it, so
\* that a slot that is not there is held by nobody.
LEMMA TypeStep == TypeInv /\ [Next]_vars => TypeInv'
<1> SUFFICES ASSUME TypeInv, [Next]_vars PROVE TypeInv'
  OBVIOUS
<1> USE DEF TypeInv, catalogVars, moonlinkVars, history
<1>p. Procs = {"admin", "watcher"}
  BY DEF Procs
<1>1. CASE UNCHANGED vars
  BY <1>1 DEF vars, TypeOK, CurrentOK
<1>2. CASE CreateMirror
  BY <1>2, BoundAssumption DEF CreateMirror, TypeOK, CurrentOK
<1>3. CASE CreateReturns
  <2>1. slots' \subseteq Slots /\ slots \subseteq slots' /\ spared' \subseteq Slots
    BY <1>3 DEF CreateReturns, TypeOK, Slots
  <2>2. creating' \in 0..MaxMirrors /\ publication' \in BOOLEAN
    BY <1>3, BoundAssumption DEF CreateReturns, TypeOK
  <2>3. UNCHANGED <<mirrors, extension, moonlinkVars, pc, todo, current, noTables,
                    createdSince>>
    BY <1>3 DEF CreateReturns
  <2> QED
    BY <2>1, <2>2, <2>3 DEF TypeOK, CurrentOK
<1>4. CASE DropMirror \/ CreateExtension
  <2>1. mirrors' \in 0..MaxMirrors /\ extension' \in {"installed", "dropping", "gone"}
    BY <1>4, BoundAssumption DEF DropMirror, CreateExtension, TypeOK
  <2>2. UNCHANGED <<publication, slots, moonlinkVars, pc, todo, current, noTables,
                    creating, history>>
    BY <1>4 DEF DropMirror, CreateExtension
  <2> QED
    BY <2>1, <2>2 DEF TypeOK, CurrentOK
<1>5. ASSUME NEW s \in Slots, Attach(s) PROVE TypeInv'
  <2>1. pids \in Nat /\ MaxPid \in Nat /\ pids' = pids + 1 /\ pids < MaxPid
    BY <1>5, BoundAssumption DEF Attach, TypeOK
  <2>2. holder' \in [Slots -> 0..pids'] /\ pids' \in 0..MaxPid
    BY <1>5, <2>1 DEF Attach, TypeOK
  <2>3. \A t \in Slots \ slots' : holder'[t] = NoPid
    BY <1>5 DEF Attach, TypeOK
  <2>4. signalled' \subseteq 1..pids'
    BY <1>5, <2>1 DEF Attach, TypeOK
  <2>5. todo' \in [Procs -> SUBSET (Slots \X (0..pids'))]
    <3>1. Slots \X (0..pids) \subseteq Slots \X (0..pids')
      BY <2>1
    <3>2. todo \in [Procs -> SUBSET (Slots \X (0..pids))] /\ todo' = todo
      BY <1>5 DEF Attach, TypeOK
    <3> QED
      BY <3>1, <3>2
  <2> QED
    BY <1>5, <2>2, <2>3, <2>4, <2>5 DEF Attach, TypeOK, CurrentOK
<1>6. ASSUME NEW s \in Slots, Detach(s) \/ Exit(s) PROVE TypeInv'
  <2>1. /\ holder' = [holder EXCEPT ![s] = NoPid]
        /\ UNCHANGED <<catalogVars, creating, slots, signalled, pids, pc, todo, current,
                       noTables, history>>
    BY <1>6 DEF Detach, Exit, Release
  <2>2. holder' \in [Slots -> 0..pids'] /\ \A t \in Slots \ slots' : holder'[t] = NoPid
    BY <2>1 DEF NoPid, TypeOK
  <2> QED
    BY <2>1, <2>2 DEF TypeOK, CurrentOK
<1>7. CASE drop_orphan_slots
  BY <1>7, <1>p DEF drop_orphan_slots, TypeOK, CurrentOK
<1>8. CASE ListOrphans
  <2>1. (IF noTables THEN Listing ELSE {}) \in SUBSET (Slots \X (0..pids))
    BY ListingSelects
  <2> QED
    BY <1>8, <1>p, <2>1, StartTypes DEF ListOrphans, TypeOK, CurrentOK
<1>9. ASSUME NEW p \in Procs, Terminate(p) PROVE TypeInv'
  <2>1. PICK e \in todo[p] :
          /\ current' = [current EXCEPT ![p] = e]
          /\ signalled' = IF e[2] # NoPid /\ \E s \in slots : holder[s] = e[2]
                          THEN signalled \cup {e[2]}
                          ELSE signalled
    BY <1>9 DEF Terminate
  <2>2. /\ pc' = [pc EXCEPT ![p] = "drop"]
        /\ UNCHANGED <<catalogVars, slots, holder, pids, todo, noTables, creating,
                       history>>
    BY <1>9 DEF Terminate
  <2>3. e \in Slots \X (0..pids)
    BY DEF TypeOK
  <2>4. signalled' \subseteq 1..pids'
    <3>1. e[2] # NoPid => e[2] \in 1..pids
      BY <2>3 DEF TypeOK, NoPid
    <3>2. signalled \subseteq 1..pids /\ pids' = pids
      BY <2>2 DEF TypeOK
    <3>3. signalled' = signalled \/ (e[2] # NoPid /\ signalled' = signalled \cup {e[2]})
      BY <2>1
    <3> QED
      BY <3>1, <3>2, <3>3
  <2>5. CurrentOK' /\ \A q \in Procs : pc'[q] = "drop" => current'[q] \in todo'[q]
    <3>1. e \in (Slots \X Nat) \cup {<<>>}
      BY <2>3 DEF TypeOK
    <3> QED
      BY <2>1, <2>2, <3>1 DEF TypeOK, CurrentOK
  <2> QED
    BY <2>2, <2>4, <2>5 DEF TypeOK
<1>10. ASSUME NEW p \in Procs, DropSlot(p) PROVE TypeInv'
  <2>1. NextSlot(p) /\ UNCHANGED <<catalogVars, moonlinkVars, noTables, creating, history>>
    BY <1>10 DEF DropSlot
  <2>2. slots' \subseteq Slots /\ \A s \in Slots \ slots' : holder'[s] = NoPid
    BY <1>10 DEF DropSlot, Droppable, TypeOK
  <2>3. \A q \in Procs : pc'[q] = "drop" => current'[q] \in todo'[q]
    BY <2>1, NextSlotTypes DEF TypeOK
  <2> QED
    BY <2>1, <2>2, <2>3, NextSlotTypes DEF TypeOK
<1>11. CASE WatcherSkipsSlot
  <2>1. /\ NextSlot("watcher")
        /\ UNCHANGED <<catalogVars, creating, slots, moonlinkVars, noTables, createdSince>>
    BY <1>11 DEF WatcherSkipsSlot
  <2>2. \A q \in Procs : pc'[q] = "drop" => current'[q] \in todo'[q]
    BY <1>p, <2>1, NextSlotTypes DEF TypeOK
  <2>3. spared' \subseteq Slots
    BY <1>11, <1>p DEF WatcherSkipsSlot, TypeOK
  <2> QED
    BY <1>p, <2>1, <2>2, <2>3, NextSlotTypes DEF TypeOK
<1>12. CASE DropSlotFails
  BY <1>12, <1>p, AbandonTypes DEF DropSlotFails, TypeOK
<1>13. CASE ReturnOrphans
  BY <1>13, <1>p, AbandonTypes DEF ReturnOrphans, TypeOK
<1>14. CASE CommitDropExtension
  <2>1. /\ Abandon("watcher") /\ extension' = "gone" /\ publication' = FALSE
        /\ UNCHANGED <<slots, moonlinkVars, noTables, creating, history>>
    BY <1>14 DEF CommitDropExtension
  <2>2. mirrors' \in 0..MaxMirrors
    BY <1>14, BoundAssumption DEF CommitDropExtension
  <2> QED
    BY <1>p, <2>1, <2>2, AbandonTypes DEF TypeOK
<1>15. CASE RollBackDropExtension
  BY <1>15, <1>p, AbandonTypes DEF RollBackDropExtension, TypeOK
<1>16. CASE DropExtension
  <2>1. /\ Start("watcher", Listing) /\ extension' = "dropping" /\ spared' = Slots \ slots
        /\ UNCHANGED <<mirrors, creating, publication, slots, moonlinkVars, current,
                       noTables, createdSince>>
    BY <1>16 DEF DropExtension
  <2>2. spared' \subseteq Slots
    BY <2>1
  <2>3. /\ todo' \in [Procs -> SUBSET (Slots \X (0..pids))]
        /\ pc' \in [Procs -> {"idle", "counted", "terminate", "drop", "finish"}]
        /\ pc'["watcher"] # "drop"
        /\ \A q \in Procs \ {"watcher"} : pc'[q] = pc[q] /\ todo'[q] = todo[q]
    BY <2>1, <1>p, ListingSelects, StartTypes
  <2>4. \A q \in Procs : pc'[q] = "drop" => current'[q] \in todo'[q]
    BY <2>1, <2>3, <1>p DEF TypeOK
  <2> QED
    BY <2>1, <2>2, <2>3, <2>4 DEF TypeOK, CurrentOK
<1> QED
  BY <1>1, <1>2, <1>3, <1>4, <1>5, <1>6, <1>7, <1>8, <1>9, <1>10, <1>11, <1>12, <1>13,
     <1>14, <1>15, <1>16, <1>p
  DEF Next, AdminStep, WatcherStep

\* Everything has its type, for any slots and bounds; in particular a slot that
\* is dropped was free, and a slot at hand is always in the list.
THEOREM TypeCorrect == Spec => []TypeOK
<1>1. TypeInv => TypeOK
  BY DEF TypeInv
<1> QED
  BY <1>1, TypeInit, TypeStep, PTL DEF Spec
-----------------------------------------------------------------------------
(***************************************************************************)
(* What is dropped, and what is not.                                       *)
(***************************************************************************)

\* Every step keeps the lists within the database.
LEMMA TodoStep == TypeInv /\ TodoInv /\ [Next]_vars => TodoInv'
<1> SUFFICES ASSUME TypeInv, TodoInv, [Next]_vars PROVE TodoInv'
  OBVIOUS
<1> USE DEF TodoInv
<1>1. CASE UNCHANGED todo
  BY <1>1
<1>2. ASSUME NEW p \in Procs, NextSlot(p) PROVE TodoInv'
  BY <1>2, NextSlotTypes
<1>3. ASSUME NEW p \in Procs, Abandon(p) PROVE TodoInv'
  BY <1>3, AbandonTypes
<1>4. CASE ListOrphans
  <2>1. /\ (IF noTables THEN Listing ELSE {}) \in SUBSET (Slots \X (0..pids))
        /\ \A e \in (IF noTables THEN Listing ELSE {}) : e[1] \in Selected
    BY ListingSelects
  <2> QED
    BY <1>4, <2>1, StartTypes DEF ListOrphans, Procs
<1>5. CASE DropExtension
  BY <1>5, ListingSelects, StartTypes DEF DropExtension, Procs
<1> QED
  BY <1>1, <1>2, <1>3, <1>4, <1>5
  DEF Next, AdminStep, WatcherStep, vars, CreateMirror, CreateReturns, DropMirror,
      Attach, Detach, Exit, Release, drop_orphan_slots, Terminate, DropSlot,
      DropSlotFails, ReturnOrphans, WatcherSkipsSlot, CommitDropExtension,
      RollBackDropExtension, CreateExtension, Procs

\* No replication slot of another database is dropped, by the function or by the
\* trigger, whatever else goes on.
THEOREM OtherDatabasesAreKept == Spec => OtherDatabasesKept
<1>1. ASSUME TypeInv, TodoInv, [Next]_vars, NEW s \in OtherSlots, s \in slots
      PROVE  s \in slots'
  <2>1. s \notin Selected
    BY SlotsAssumption DEF Selected, CurrentDatabase
  <2>2. ASSUME NEW p \in Procs, DropSlot(p) PROVE s \in slots'
    <3>1. current[p] \in todo[p]
      BY <1>1, <2>2 DEF DropSlot, TypeInv, TypeOK
    <3>2. current[p][1] # s
      BY <1>1, <2>1, <3>1 DEF TodoInv
    <3> QED
      BY <1>1, <2>2, <3>2 DEF DropSlot
  <2>3. CASE slots \subseteq slots'
    BY <1>1, <2>3
  <2> QED
    BY <1>1, <2>2, <2>3
    DEF Next, AdminStep, WatcherStep, vars, CreateMirror, CreateReturns, DropMirror,
        Attach, Detach, Exit, Release, drop_orphan_slots, ListOrphans, Terminate,
        DropSlotFails, ReturnOrphans, DropExtension, WatcherSkipsSlot,
        CommitDropExtension, RollBackDropExtension, CreateExtension, Procs
<1>2. TypeInv /\ TodoInv /\ [Next]_vars
        => [\A s \in OtherSlots \cap slots : s \in slots']_vars
  BY <1>1
<1>3. Init => TodoInv
  BY DEF Init, TodoInv
<1> QED
  BY <1>2, <1>3, TypeInit, TypeStep, TodoStep, PTL DEF Spec, OtherDatabasesKept

\* Every step keeps what the count has found.
LEMMA CountStep == TypeInv /\ CountInv /\ [Next]_vars => CountInv'
<1> SUFFICES ASSUME TypeInv, CountInv, [Next]_vars PROVE CountInv'
  OBVIOUS
<1> USE DEF CountInv
<1>p. Procs = {"admin", "watcher"}
  BY DEF Procs
<1>1. CASE UNCHANGED <<mirrors, noTables, createdSince>> /\ pc'["admin"] = pc["admin"]
  BY <1>1
<1>2. CASE CreateMirror
  BY <1>2 DEF CreateMirror
<1>3. CASE DropMirror
  BY <1>3 DEF DropMirror, TypeInv, TypeOK, history
<1>4. CASE drop_orphan_slots
  BY <1>4, <1>p DEF drop_orphan_slots, TypeInv, TypeOK, catalogVars
<1>5. CASE ListOrphans
  <2>1. (IF noTables THEN Listing ELSE {}) \in SUBSET (Slots \X (0..pids))
    BY ListingSelects
  <2>2. pc'["admin"] = "terminate" => noTables
    BY <1>5, <1>p, <2>1, StartTypes DEF ListOrphans, Start, TypeInv, TypeOK
  <2>3. pc'["admin"] \in {"finish", "terminate"} /\ pc["admin"] = "counted"
    BY <1>5, <1>p, <2>1, StartTypes DEF ListOrphans
  <2>4. UNCHANGED <<mirrors, noTables, createdSince>>
    BY <1>5 DEF ListOrphans, catalogVars, history
  <2> QED
    BY <2>2, <2>3, <2>4
<1>6. ASSUME NEW p \in Procs, Terminate(p) PROVE CountInv'
  BY <1>6, <1>p DEF Terminate, TypeInv, TypeOK, catalogVars, history
<1>7. ASSUME NEW p \in Procs, DropSlot(p) PROVE CountInv'
  <2>1. /\ NextSlot(p) /\ pc[p] = "drop"
        /\ UNCHANGED <<mirrors, noTables, createdSince>>
    BY <1>7 DEF DropSlot, catalogVars, history
  <2> QED
    BY <1>p, <2>1, NextSlotTypes
<1>8. CASE WatcherSkipsSlot
  <2>1. NextSlot("watcher") /\ UNCHANGED <<mirrors, noTables, createdSince>>
    BY <1>8 DEF WatcherSkipsSlot, catalogVars
  <2> QED
    BY <1>1, <1>p, <2>1, NextSlotTypes
<1>9. CASE DropSlotFails \/ ReturnOrphans
  <2>1. Abandon("admin") /\ UNCHANGED <<mirrors, noTables, createdSince>>
    BY <1>9 DEF DropSlotFails, ReturnOrphans, catalogVars, history
  <2> QED
    BY <1>p, <2>1, AbandonTypes
<1>10. CASE CommitDropExtension \/ RollBackDropExtension
  <2>1. /\ Abandon("watcher") /\ UNCHANGED <<noTables, createdSince>>
        /\ mirrors' = 0 \/ mirrors' = mirrors
    BY <1>10 DEF CommitDropExtension, RollBackDropExtension, history
  <2> QED
    BY <1>p, <2>1, AbandonTypes
<1>11. CASE DropExtension
  <2>1. Start("watcher", Listing) /\ UNCHANGED <<mirrors, noTables, createdSince>>
    BY <1>11 DEF DropExtension
  <2> QED
    BY <1>1, <1>p, <2>1, ListingSelects, StartTypes
<1> QED
  BY <1>1, <1>2, <1>3, <1>4, <1>5, <1>6, <1>7, <1>8, <1>9, <1>10, <1>11, <1>p
  DEF Next, AdminStep, WatcherStep, vars, CreateReturns, Attach, Detach, Exit, Release,
      CreateExtension, catalogVars, history

\* drop_orphan_slots takes a slot from a database with mirrors only when one of
\* them was created after it had counted none.
THEOREM LiveSlotsAreKept == Spec => LiveSlotLostOnlyByRace
<1>1. ASSUME TypeInv, CountInv, DropsSlot("admin"), mirrors > 0 PROVE createdSince
  BY <1>1 DEF CountInv, DropsSlot, TypeInv, TypeOK
<1>2. TypeInv /\ CountInv => [DropsSlot("admin") /\ mirrors > 0 => createdSince]_vars
  BY <1>1
<1>3. Init => CountInv
  BY DEF Init, CountInv, Procs
<1> QED
  BY <1>2, <1>3, TypeInit, TypeStep, CountStep, PTL DEF Spec, LiveSlotLostOnlyByRace

\* Every step keeps the slots accounted for: a slot leaves the list of the trigger
\* when it is dropped or found in use, and a new slot is spared.
LEMMA SparedStep == TypeInv /\ SparedInv /\ [Next]_vars => SparedInv'
<1> SUFFICES ASSUME TypeInv, SparedInv, [Next]_vars PROVE SparedInv'
  OBVIOUS
<1> USE DEF SparedInv
<1>p. Procs = {"admin", "watcher"}
  BY DEF Procs
<1>1. CASE /\ UNCHANGED <<extension, slots, spared>>
           /\ pc'["watcher"] = pc["watcher"] /\ todo'["watcher"] = todo["watcher"]
  BY <1>1
<1>2. CASE CreateReturns
  BY <1>2 DEF CreateReturns
<1>3. CASE CreateExtension
  BY <1>3 DEF CreateExtension, history
<1>4. CASE drop_orphan_slots
  BY <1>4, <1>1 DEF drop_orphan_slots, TypeInv, TypeOK, catalogVars
<1>5. CASE ListOrphans
  <2>1. (IF noTables THEN Listing ELSE {}) \in SUBSET (Slots \X (0..pids))
    BY ListingSelects
  <2>2. UNCHANGED <<extension, slots, spared>>
    BY <1>5 DEF ListOrphans, catalogVars, history
  <2> QED
    BY <1>1, <1>5, <1>p, <2>1, <2>2, StartTypes DEF ListOrphans
<1>6. ASSUME NEW p \in Procs, Terminate(p) PROVE SparedInv'
  BY <1>6, <1>p DEF Terminate, TypeInv, TypeOK, catalogVars, history
<1>7. CASE DropSlot("admin")
  <2>1. /\ NextSlot("admin") /\ slots' \subseteq slots
        /\ UNCHANGED <<extension, spared>>
    BY <1>7 DEF DropSlot, catalogVars, history
  <2> QED
    BY <1>p, <2>1, NextSlotTypes
<1>8. CASE DropSlot("watcher")
  <2>1. /\ NextSlot("watcher") /\ slots' = slots \ {current["watcher"][1]}
        /\ pc["watcher"] = "drop" /\ UNCHANGED <<extension, spared>>
    BY <1>8 DEF DropSlot, catalogVars, history
  <2> QED
    BY <1>p, <2>1, NextSlotTypes
<1>9. CASE WatcherSkipsSlot
  <2>1. /\ NextSlot("watcher") /\ spared' = spared \cup {current["watcher"][1]}
        /\ pc["watcher"] = "drop" /\ UNCHANGED <<extension, slots>>
    BY <1>9 DEF WatcherSkipsSlot, catalogVars
  <2> QED
    BY <1>p, <2>1, NextSlotTypes
<1>10. CASE DropSlotFails \/ ReturnOrphans
  <2>1. Abandon("admin") /\ UNCHANGED <<extension, slots, spared>>
    BY <1>10 DEF DropSlotFails, ReturnOrphans, catalogVars, history
  <2> QED
    BY <1>1, <1>p, <2>1, AbandonTypes
<1>11. CASE CommitDropExtension \/ RollBackDropExtension
  <2>1. Abandon("watcher") /\ extension' # "dropping"
    BY <1>11 DEF CommitDropExtension, RollBackDropExtension
  <2> QED
    BY <1>p, <2>1, AbandonTypes
<1>12. CASE DropExtension
  <2>1. /\ Start("watcher", Listing) /\ extension' = "dropping" /\ slots' = slots
    BY <1>12 DEF DropExtension
  <2> QED
    BY <1>p, <2>1, ListingSelects, StartTypes
<1> QED
  BY <1>1, <1>2, <1>3, <1>4, <1>5, <1>6, <1>7, <1>8, <1>9, <1>10, <1>11, <1>12, <1>p
  DEF Next, AdminStep, WatcherStep, vars, CreateMirror, DropMirror, Attach, Detach,
      Exit, Release, catalogVars, history

\* When pg_mooncake is gone, every slot left in the database was found in use by
\* the trigger or made since: one slot in use costs no other slot its removal.
THEOREM OnlyHeldSlotsAreLeft == Spec => OnlyHeldSlotsStay
<1>1. ASSUME TypeInv, SparedInv, [Next]_vars,
             extension = "dropping", extension' = "gone"
      PROVE  slots \cap CurrentDatabase \subseteq spared
  <2>1. CommitDropExtension
    BY <1>1
    DEF Next, AdminStep, WatcherStep, vars, CreateMirror, CreateReturns, DropMirror,
        Attach, Detach, Exit, Release, drop_orphan_slots, ListOrphans, Terminate,
        DropSlot, DropSlotFails, ReturnOrphans, DropExtension, WatcherSkipsSlot,
        RollBackDropExtension, CreateExtension, catalogVars
  <2> QED
    BY <1>1, <2>1 DEF CommitDropExtension, SparedInv
<1>2. TypeInv /\ SparedInv /\ [Next]_vars
        => [extension = "dropping" /\ extension' = "gone"
              => slots \cap CurrentDatabase \subseteq spared]_vars
  BY <1>1
<1>3. Init => SparedInv
  BY DEF Init, SparedInv, Procs
<1> QED
  BY <1>2, <1>3, TypeInit, TypeStep, SparedStep, PTL DEF Spec, OnlyHeldSlotsStay
=============================================================================
