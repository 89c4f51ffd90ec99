----------------------------- MODULE OrphanSlots ------------------------------
(***************************************************************************)
(* The two ways in which the extension removes moonlink's replication      *)
(* slots: the function mooncake.drop_orphan_slots, which an administrator  *)
(* calls (src/src/functions.rs), and the event trigger that fires on DROP  *)
(* EXTENSION pg_mooncake (src/src/sql/bootstrap.sql).  Both list the slots *)
(* with the pids of the walsenders that hold them, then terminate and drop *)
(* one after the other, while moonlink attaches and detaches and clients   *)
(* create and drop mirrors.                                                *)
(*                                                                         *)
(* Slots live outside of transactions: a dropped slot stays dropped when   *)
(* the transaction that dropped it is rolled back.  The publication and    *)
(* the catalog do not.                                                     *)
(***************************************************************************)
EXTENDS Naturals

CONSTANTS
  MoonlinkSlots,   \* slots moonlink_slot_* of the current database
  LookalikeSlots,  \* slots of others that LIKE 'moonlink_slot_%' matches too
  OtherSlots,      \* slots moonlink_slot_* of other databases
  InitSlots,       \* the slots there are at first
  CanCreate,       \* whether clients create mirrors
  CanRollBack,     \* whether a client rolls back a DROP EXTENSION
  MaxMirrors,      \* bound: mirrors at a time, and calls that create some
  MaxPid           \* bound: walsenders that ever attach

Slots == MoonlinkSlots \cup LookalikeSlots \cup OtherSlots

ASSUME SlotsAssumption ==
  /\ MoonlinkSlots \cap OtherSlots = {}
  /\ LookalikeSlots \cap OtherSlots = {}
  /\ InitSlots \subseteq Slots
  /\ CanCreate \in BOOLEAN
  /\ CanRollBack \in BOOLEAN

ASSUME BoundAssumption == MaxMirrors \in Nat /\ MaxPid \in Nat

VARIABLES
  mirrors,      \* number of mooncake tables in the catalog
  creating,     \* create_table calls that moonlink has not answered yet
  slots,        \* existing replication slots
  holder,       \* holder[s]: pid of the walsender that holds s, or NoPid
  signalled,    \* pids of walsenders that were told to terminate
  pids,         \* how many walsenders have attached
  publication,  \* whether moonlink_pub exists
  extension,    \* "installed", "dropping" (not committed yet) or "gone"
  pc,           \* pc[p]: where p is
  todo,         \* todo[p]: pairs of a listed slot and its active_pid
  current,      \* current[p]: the slot p works on
  noTables,     \* drop_orphan_slots: its count of mooncake tables was zero
  createdSince, \* history: a mirror was created since that count
  spared        \* history: slots that were made, or found in use, since DROP
                \* EXTENSION began

moonlinkVars == <<holder, signalled, pids>>
catalogVars  == <<mirrors, publication, extension>>
history      == <<createdSince, spared>>
vars == <<catalogVars, creating, slots, moonlinkVars, pc, todo, current, noTables,
          history>>

-----------------------------------------------------------------------------

NoPid == 0
Procs == {"admin", "watcher"}   \* drop_orphan_slots, and the DROP EXTENSION

\* slot_name LIKE 'moonlink_slot_%': LIKE takes each _ for any character.
LikeMoonlink    == Slots
CurrentDatabase == MoonlinkSlots \cup LookalikeSlots

\* The slots that the two listings select.
Selected_AllDatabases == LikeMoonlink
Selected == LikeMoonlink \cap CurrentDatabase

\* list_orphan_slots: the slots that it reports with is_orphan.
list_orphan_slots == {s \in slots \cap LikeMoonlink : s \in CurrentDatabase /\ mirrors = 0}

\* The listing with pids, as it is now: pg_replication_slots is no snapshot.
Listing == {<<s, holder[s]>> : s \in slots \cap Selected}

TypeOK ==
  /\ mirrors \in 0..MaxMirrors
  /\ creating \in 0..MaxMirrors
  /\ slots \subseteq Slots
  /\ holder \in [Slots -> 0..pids]
  /\ \A s \in Slots \ slots : holder[s] = NoPid
  /\ signalled \subseteq 1..pids
  /\ pids \in 0..MaxPid
  /\ publication \in BOOLEAN
  /\ extension \in {"installed", "dropping", "gone"}
  /\ pc \in [Procs -> {"idle", "counted", "terminate", "drop", "finish"}]
  /\ todo \in [Procs -> SUBSET (Slots \X (0..pids))]
  /\ \A p \in Procs : pc[p] = "drop" => current[p] \in todo[p]
  /\ noTables \in BOOLEAN
  /\ createdSince \in BOOLEAN
  /\ spared \subseteq Slots

Init ==
  /\ mirrors = 0
  /\ creating = 0
  /\ slots = InitSlots
  /\ holder = [s \in Slots |-> NoPid]
  /\ signalled = {}
  /\ pids = 0
  /\ publication \in BOOLEAN
  /\ extension = "installed"
  /\ pc = [p \in Procs |-> "idle"]
  /\ todo = [p \in Procs |-> {}]
  /\ current = [p \in Procs |-> <<>>]
  /\ noTables = FALSE
  /\ createdSince = FALSE
  /\ spared = {}

-----------------------------------------------------------------------------
(***************************************************************************)
(* Clients and moonlink.                                                   *)
(***************************************************************************)

\* create_table commits the mirror over the loopback ...
CreateMirror ==
  /\ CanCreate
  /\ extension = "installed"
  /\ mirrors < MaxMirrors
  /\ creating < MaxMirrors
  /\ mirrors' = mirrors + 1
  /\ creating' = creating + 1
  /\ createdSince' = TRUE
  /\ UNCHANGED <<publication, extension, slots, moonlinkVars, pc, todo, current,
                 noTables, spared>>

\* ... and returns when moonlink has a slot and a publication.
CreateReturns ==
  /\ creating > 0
  /\ creating' = creating - 1
  /\ publication' = TRUE
  /\ IF slots \cap MoonlinkSlots = {}
       THEN \E s \in MoonlinkSlots : slots' = slots \cup {s} /\ spared' = spared \cup {s}
       ELSE UNCHANGED <<slots, spared>>
  /\ UNCHANGED <<mirrors, extension, moonlinkVars, pc, todo, current, noTables,
                 createdSince>>

DropMirror ==
  /\ extension = "installed"
  /\ mirrors > 0
  /\ mirrors' = mirrors - 1
  /\ UNCHANGED <<publication, extension, slots, moonlinkVars, pc, todo, current,
                 noTables, creating, history>>

\* A walsender acquires a slot (of moonlink, or of whoever the slot belongs to).
Attach(s) ==
  /\ s \in slots
  /\ holder[s] = NoPid
  /\ pids < MaxPid
  /\ pids' = pids + 1
  /\ holder' = [holder EXCEPT ![s] = pids + 1]
  /\ UNCHANGED <<catalogVars, slots, signalled, pc, todo, current, noTables,
                 creating, history>>

\* A walsender ends: by itself, or some time after it was told to.
Release(s) ==
  /\ holder[s] # NoPid
  /\ holder' = [holder EXCEPT ![s] = NoPid]
  /\ UNCHANGED <<catalogVars, slots, signalled, pids, pc, todo, current, noTables,
                 creating, history>>

Detach(s) == holder[s] \notin signalled /\ Release(s)
Exit(s)   == holder[s] \in signalled /\ Release(s)

-----------------------------------------------------------------------------
(***************************************************************************)
(* What both do with each listed slot.                                     *)
(***************************************************************************)

Start(p, list) ==
  /\ todo' = [todo EXCEPT ![p] = list]
  /\ pc' = [pc EXCEPT ![p] = IF list = {} THEN "finish" ELSE "terminate"]

Terminate_Never(p) ==
  /\ pc[p] = "terminate"
  /\ \E e \in todo[p] : current' = [current EXCEPT ![p] = e]
  /\ pc' = [pc EXCEPT ![p] = "drop"]
  /\ UNCHANGED <<catalogVars, slots, moonlinkVars, todo, noTables, creating,
                 history>>

\* pg_terminate_backend(active_pid), with the pid of the listing: a signal, if
\* that process is still there.  Nobody waits for its end.
Terminate(p) ==
  /\ pc[p] = "terminate"
  /\ \E e \in todo[p] :
       /\ current' = [current EXCEPT ![p] = e]
       /\ signalled' = IF e[2] # NoPid /\ \E s \in slots : holder[s] = e[2]
                       THEN signalled \cup {e[2]}
                       ELSE signalled
  /\ pc' = [pc EXCEPT ![p] = "drop"]
  /\ UNCHANGED <<catalogVars, slots, holder, pids, todo, noTables, creating,
                 history>>

Droppable_Held(s) == s \in slots

\* pg_drop_replication_slot raises an error for a slot that is held, or gone.
Droppable(s) == s \in slots /\ holder[s] = NoPid

NextSlot(p) ==
  /\ Start(p, todo[p] \ {current[p]})
  /\ current' = [current EXCEPT ![p] = <<>>]

DropSlot(p) ==
  LET s == current[p][1]
  IN /\ pc[p] = "drop"
     /\ Droppable(s)
     /\ slots' = slots \ {s}
     /\ NextSlot(p)
     /\ UNCHANGED <<catalogVars, moonlinkVars, noTables, creating, history>>

Abandon(p) ==
  /\ pc' = [pc EXCEPT ![p] = "idle"]
  /\ todo' = [todo EXCEPT ![p] = {}]
  /\ current' = [current EXCEPT ![p] = <<>>]

-----------------------------------------------------------------------------
(***************************************************************************)
(* mooncake.drop_orphan_slots()                                            *)
(***************************************************************************)

\* The count of mooncake tables comes from the snapshot of the statement.
drop_orphan_slots ==
  /\ extension # "gone"
  /\ pc["admin"] = "idle"
  /\ pc' = [pc EXCEPT !["admin"] = "counted"]
  /\ noTables' = (mirrors = 0)
  /\ createdSince' = FALSE
  /\ UNCHANGED <<catalogVars, creating, slots, moonlinkVars, todo, current,
                 spared>>

ListOrphans_NoRefusal ==
  /\ pc["admin"] = "counted"
  /\ Start("admin", Listing)
  /\ UNCHANGED <<catalogVars, slots, moonlinkVars, current, noTables, creating,
                 history>>

ListOrphans ==
  /\ pc["admin"] = "counted"
  /\ Start("admin", IF noTables THEN Listing ELSE {})
  /\ UNCHANGED <<catalogVars, slots, moonlinkVars, current, noTables, creating,
                 history>>

\* The error is no Err that the code could turn into a warning: it unwinds the
\* function, and what was dropped before stays dropped.
DropSlotFails ==
  /\ pc["admin"] = "drop"
  /\ ~Droppable(current["admin"][1])
  /\ Abandon("admin")
  /\ UNCHANGED <<catalogVars, slots, moonlinkVars, noTables, creating, history>>

\* attempt_drop_publication, with the last slot or without any.
ReturnOrphans ==
  /\ pc["admin"] = "finish"
  /\ publication' = (publication /\ ~noTables)
  /\ Abandon("admin")
  /\ UNCHANGED <<mirrors, extension, slots, moonlinkVars, noTables, creating,
                 history>>

-----------------------------------------------------------------------------
(***************************************************************************)
(* DROP EXTENSION pg_mooncake CASCADE, which drops the mirrors as well.    *)
(***************************************************************************)

DropExtension ==
  /\ extension = "installed"
  /\ extension' = "dropping"
  /\ Start("watcher", Listing)
  /\ spared' = Slots \ slots
  /\ UNCHANGED <<mirrors, creating, publication, slots, moonlinkVars, current,
                 noTables, createdSince>>

WatcherSkipsSlot_Again ==
  /\ pc["watcher"] = "drop"
  /\ ~Droppable(current["watcher"][1])
  /\ pc' = [pc EXCEPT !["watcher"] = "terminate"]
  /\ UNCHANGED <<catalogVars, slots, moonlinkVars, todo, current, noTables,
                 creating, history>>

WatcherSkipsSlot_EndsLoop ==
  /\ pc["watcher"] = "drop"
  /\ ~Droppable(current["watcher"][1])
  /\ Start("watcher", {})
  /\ current' = [current EXCEPT !["watcher"] = <<>>]
  /\ spared' = spared \cup {current["watcher"][1]}
  /\ UNCHANGED <<catalogVars, slots, moonlinkVars, noTables, creating,
                 createdSince>>

\* EXCEPTION WHEN OTHERS: the slot is left behind with a warning.
WatcherSkipsSlot ==
  /\ pc["watcher"] = "drop"
  /\ ~Droppable(current["watcher"][1])
  /\ NextSlot("watcher")
  /\ spared' = spared \cup {current["watcher"][1]}
  /\ UNCHANGED <<catalogVars, creating, slots, moonlinkVars, noTables,
                 createdSince>>

\* The publication, the trigger and its function go with the commit.
CommitDropExtension ==
  /\ pc["watcher"] = "finish"
  /\ mirrors' = 0
  /\ publication' = FALSE
  /\ extension' = "gone"
  /\ Abandon("watcher")
  /\ UNCHANGED <<slots, moonlinkVars, noTables, creating, history>>

RollBackDropExtension ==
  /\ CanRollBack
  /\ pc["watcher"] = "finish"
  /\ extension' = "installed"
  /\ Abandon("watcher")
  /\ UNCHANGED <<mirrors, publication, slots, moonlinkVars, noTables, creating,
                 history>>

CreateExtension ==
  /\ extension = "gone"
  /\ extension' = "installed"
  /\ UNCHANGED <<mirrors, publication, slots, moonlinkVars, pc, todo, current,
                 noTables, creating, history>>

-----------------------------------------------------------------------------

AdminStep == ListOrphans \/ Terminate("admin") \/ DropSlot("admin")
             \/ DropSlotFails \/ ReturnOrphans

WatcherStep == Terminate("watcher") \/ DropSlot("watcher") \/ WatcherSkipsSlot
               \/ CommitDropExtension \/ RollBackDropExtension

Next ==
  \/ CreateMirror \/ CreateReturns \/ DropMirror
  \/ \E s \in Slots : Attach(s) \/ Detach(s) \/ Exit(s)
  \/ drop_orphan_slots \/ AdminStep
  \/ DropExtension \/ WatcherStep \/ CreateExtension

Spec == Init /\ [][Next]_vars

(***************************************************************************)
(* Fairness: a statement that has begun goes on, and a walsender that was  *)
(* told to terminate does so some time.  RetrySpec adds an administrator   *)
(* who calls drop_orphan_slots again and again; that walsenders attach     *)
(* MaxPid times in all says that moonlink does not come back for ever.     *)
(***************************************************************************)
FairSpec ==
  /\ Spec
  /\ WF_vars(AdminStep) /\ WF_vars(WatcherStep)
  /\ \A s \in Slots : WF_vars(Exit(s))

RetrySpec == FairSpec /\ WF_vars(drop_orphan_slots)

-----------------------------------------------------------------------------
(***************************************************************************)
(* Properties.                                                             *)
(***************************************************************************)

\* Neither way ever drops a slot of another database.
OtherDatabasesKept == [][\A s \in OtherSlots \cap slots : s \in slots']_vars

\* A slot that cannot be dropped, or another client's walsender that comes back
\* to it, never keeps DROP EXTENSION from ending.
DropExtensionEnds == extension = "dropping" ~> extension # "dropping"

\* One slot in use keeps no other slot from being dropped: when pg_mooncake is
\* gone, the slots left in this database are those that the trigger found in
\* use, or that moonlink made for a call of create_table still under way.
OnlyHeldSlotsStay ==
  [][extension = "dropping" /\ extension' = "gone"
       => slots \cap CurrentDatabase \subseteq spared]_vars

\* "Database still has mooncake tables - refuse to nuke slots": as long as no
\* mirror is created after drop_orphan_slots has counted them, it drops no slot
\* of a database that has one.
DropsSlot(p) == pc[p] = "drop" /\ slots' # slots /\ current'[p] # current[p]
LiveSlotLostOnlyByRace ==
  [][DropsSlot("admin") /\ mirrors > 0 => createdSince]_vars

\* Calling drop_orphan_slots again after it failed on a slot in use gets rid of
\* every slot that list_orphan_slots calls an orphan, whenever there are some.
RetriesClean == []<>(list_orphan_slots = {} \/ extension = "gone")

\* Terminating its walsender first lets the slot be dropped: the function never
\* gives up in the middle of its list.
DropOrphanSlotsGoesOn == [][pc["admin"] = "drop" => pc'["admin"] # "idle"]_vars
=============================================================================
