---------------------------- MODULE DaemonProofs ----------------------------
(***************************************************************************)
(* Proofs about Daemon, for any slots, updates and tasks, and about         *)
(* Workspace, for any tasks, directories and roots.                         *)
(***************************************************************************)
EXTENDS Daemon, Workspace, FiniteSetTheorems, TLAPS

-----------------------------------------------------------------------------
(* Daemon.                                                                    *)

PollerPCs == {"wait", "enter", "claim", "dispatch", "sleep", "stopped"}
Claiming == poller.pc \in {"claim", "dispatch"}

\* The poller holds slots only between the one it waited for and the last it gave to a
\* task, and tasks without one only while it deals them out.
SlotsInv ==
    /\ sem \subseteq Slots /\ inTask \subseteq Slots
    /\ poller \in [pc : PollerPCs, grip : SUBSET Slots, got : Nat, sent : BOOLEAN]
    /\ SlotsKept
    /\ poller.pc \notin {"enter", "claim", "dispatch"} => poller.grip = {}
    /\ poller.pc # "dispatch" => poller.got = 0

\* activeTasks counts the task goroutines at every point of their lives, and
\* claimsInFlight is the poller's own claim.
CountsInv ==
    /\ arrivals \in Nat /\ backlog \in Nat /\ nudging \in Nat /\ leaving \in Nat
    /\ activeTasks = Cardinality(inTask) + nudging + leaving
    /\ claimsInFlight = IF Claiming THEN 1 ELSE 0

\* The update that set the flag is the only one past it, holds the barrier from the
\* moment it set it until it lifts it, and no work is left once it replaces the binary.
UpdaterPCs == {"idle", "pause", "drain", "fetched", "probe", "reload", "barrier",
               "update", "restart", "release", "disown", "done"}
Owning(u) == updater[u] \notin {"idle", "fetched"}
Holding(u) == updater[u] \in {"drain", "update", "restart", "release", "done"}
UpdatesInv ==
    /\ wakeup \in BOOLEAN /\ pauseClaims \in BOOLEAN /\ updating \in BOOLEAN
    /\ restartBinary \in BOOLEAN /\ ctxDone \in BOOLEAN /\ returned \in BOOLEAN
    /\ updater \in [Goroutines -> UpdaterPCs]
    /\ \A u \in Goroutines :
          /\ Owning(u) => updating
          /\ Holding(u) => pauseClaims
          /\ Replacing(u) => activeTasks = 0 /\ claimsInFlight = 0
    /\ \A u, v \in Goroutines : Owning(u) /\ Owning(v) => u = v

DaemonInv == SlotsInv /\ CountsInv /\ UpdatesInv

-----------------------------------------------------------------------------
(* Slots.                                                                     *)

LEMMA SlotSets ==
  ASSUME NEW S \in SUBSET Slots
  PROVE  /\ IsFiniteSet(S) /\ Cardinality(S) \in Nat /\ (Cardinality(S) = 0 <=> S = {})
         /\ \A s \in S : Cardinality(S \ {s}) = Cardinality(S) - 1
         /\ \A s \in Slots \ S : Cardinality(S \cup {s}) = Cardinality(S) + 1
<1>1. IsFiniteSet(S)
  BY FS_Subset, DaemonAssumption
<1> QED BY <1>1, FS_CardinalityType, FS_EmptySet, FS_AddElement, FS_RemoveElement

LEMMA DaemonInitHolds == DaemonInit => DaemonInv
<1> SUFFICES ASSUME DaemonInit PROVE DaemonInv OBVIOUS
<1>1. SlotsInv
  BY SlotSets DEF DaemonInit, SlotsInv, SlotsKept, PollerPCs
<1>2. CountsInv
  BY FS_EmptySet, DaemonAssumption DEF DaemonInit, CountsInv, Claiming
<1>3. UpdatesInv
  BY DEF DaemonInit, UpdatesInv, UpdaterPCs, Owning, Holding, Replacing
<1> QED BY <1>1, <1>2, <1>3 DEF DaemonInv

\* The steps that move no slot.
SlotsStay == UNCHANGED << sem, inTask >>
             /\ \/ UNCHANGED poller
                \/ \E pc \in {"sleep", "wait", "stopped"} :
                      poller.pc \in {"sleep", "wait"} /\ poller' = [poller EXCEPT !.pc = pc]

LEMMA SlotsFrame == ASSUME SlotsInv, SlotsStay PROVE SlotsInv'
<1>1. CASE UNCHANGED poller
  BY <1>1 DEF SlotsInv, SlotsStay, SlotsKept
<1>2. ASSUME NEW pc \in {"sleep", "wait", "stopped"}, poller.pc \in {"sleep", "wait"},
             poller' = [poller EXCEPT !.pc = pc]
      PROVE  SlotsInv'
  BY <1>2 DEF SlotsInv, SlotsStay, SlotsKept, PollerPCs
<1> QED BY <1>1, <1>2 DEF SlotsStay

\* The poller's record while it claims and deals out.
LEMMA PollerDeals ==
  ASSUME poller \in [pc : PollerPCs, grip : SUBSET Slots, got : Nat, sent : BOOLEAN]
  PROVE  /\ \A n \in Nat :
               LET next == [poller EXCEPT !.pc = "dispatch", !.got = n]
               IN  /\ next \in [pc : PollerPCs, grip : SUBSET Slots, got : Nat, sent : BOOLEAN]
                   /\ next.pc = "dispatch" /\ next.grip = poller.grip /\ next.got = n
         /\ \A s \in Slots : poller.got \in Nat \ {0} =>
               LET next == [poller EXCEPT !.grip = @ \ {s}, !.got = @ - 1, !.sent = TRUE]
               IN  /\ next \in [pc : PollerPCs, grip : SUBSET Slots, got : Nat, sent : BOOLEAN]
                   /\ next.pc = poller.pc /\ next.grip = poller.grip \ {s}
                   /\ next.got = poller.got - 1
<1>1. "dispatch" \in PollerPCs
  BY DEF PollerPCs
<1>2. ASSUME NEW n \in Nat, NEW next, next = [poller EXCEPT !.pc = "dispatch", !.got = n]
      PROVE  /\ next \in [pc : PollerPCs, grip : SUBSET Slots, got : Nat, sent : BOOLEAN]
             /\ next.pc = "dispatch" /\ next.grip = poller.grip /\ next.got = n
  BY <1>1, <1>2
<1>3. ASSUME NEW s \in Slots, poller.got \in Nat \ {0}, NEW next,
             next = [poller EXCEPT !.grip = @ \ {s}, !.got = @ - 1, !.sent = TRUE]
      PROVE  /\ next \in [pc : PollerPCs, grip : SUBSET Slots, got : Nat, sent : BOOLEAN]
             /\ next.pc = poller.pc /\ next.grip = poller.grip \ {s}
             /\ next.got = poller.got - 1
  <2>1. poller.got - 1 \in Nat /\ poller.grip \ {s} \in SUBSET Slots /\ TRUE \in BOOLEAN
    BY <1>3
  <2> QED BY <1>3, <2>1
<1> QED BY <1>2, <1>3

\* The poller lets go of what it holds.
LEMMA GripReleased ==
  ASSUME SlotsInv, ReleaseGrip, UNCHANGED inTask, NEW pc \in {"wait", "sleep"},
         poller.pc # "dispatch" \/ poller.got = 0,
         poller' = [poller EXCEPT !.pc = pc, !.grip = {}]
  PROVE  SlotsInv'
<1>1. poller' \in [pc : PollerPCs, grip : SUBSET Slots, got : Nat, sent : BOOLEAN]
      /\ poller'.pc = pc /\ poller'.grip = {} /\ poller'.got = poller.got /\ poller.got = 0
  BY DEF SlotsInv, PollerPCs
<1>2. Cardinality({}) = 0
  BY FS_EmptySet
<1> QED BY <1>1, <1>2 DEF SlotsInv, SlotsKept, ReleaseGrip

LEMMA SlotsSteps == ASSUME SlotsInv, PollerStep \/ TasksStep PROVE SlotsInv'
<1> USE DEF PollerAt, PollerGoes, ReleaseGrip
<1>1. CASE TakeSlots
  BY <1>1, SlotSets DEF TakeSlots, SlotsInv, SlotsKept, PollerPCs
<1>2. CASE NoSlot \/ PollAgain \/ PollerStops
  <2>1. SlotsStay
    BY <1>2 DEF SlotsInv, NoSlot, PollAgain, PollerStops, SlotsStay, taskVars
  <2> QED BY <2>1, SlotsFrame
<1>3. CASE EnterClaim
  <2>1. CASE ~pauseClaims
    BY <1>3, <2>1 DEF EnterClaim, SlotsInv, SlotsKept, PollerPCs
  <2>2. CASE pauseClaims
    BY <1>3, <2>2, GripReleased DEF EnterClaim
  <2> QED BY <2>1, <2>2
<1>4. CASE ClaimTasks
  <2>1. PICK n \in 0 .. Cardinality(poller.grip) :
            poller' = [poller EXCEPT !.pc = "dispatch", !.got = n]
    BY <1>4 DEF ClaimTasks
  <2>2. n \in Nat /\ n <= Cardinality(poller.grip)
    BY <2>1, SlotSets DEF SlotsInv
  <2>3. poller' \in [pc : PollerPCs, grip : SUBSET Slots, got : Nat, sent : BOOLEAN]
        /\ poller'.pc = "dispatch" /\ poller'.grip = poller.grip /\ poller'.got = n
    BY <2>1, <2>2, PollerDeals DEF SlotsInv
  <2> QED BY <1>4, <2>2, <2>3 DEF ClaimTasks, SlotsInv, SlotsKept
<1>5. CASE ClaimFails
  BY <1>5, GripReleased DEF ClaimFails
<1>6. CASE Dispatch
  <2>1. PICK s \in poller.grip :
            /\ inTask' = inTask \cup {s}
            /\ poller' = [poller EXCEPT !.grip = @ \ {s}, !.got = @ - 1, !.sent = TRUE]
    BY <1>6 DEF Dispatch
  <2>2. Cardinality(poller.grip \ {s}) = Cardinality(poller.grip) - 1
    BY SlotSets DEF SlotsInv
  <2>3. poller.got \in Nat \ {0} /\ Cardinality(poller.grip) \in Nat /\ s \in Slots
    BY <1>6, SlotSets DEF Dispatch, SlotsInv
  <2>4. poller' \in [pc : PollerPCs, grip : SUBSET Slots, got : Nat, sent : BOOLEAN]
        /\ poller'.pc = "dispatch" /\ poller'.grip = poller.grip \ {s}
        /\ poller'.got = poller.got - 1
    BY <1>6, <2>1, <2>3, PollerDeals DEF Dispatch, SlotsInv
  <2>5. poller'.got <= Cardinality(poller'.grip)
    BY <2>2, <2>3, <2>4 DEF SlotsInv, SlotsKept
  <2> QED BY <1>6, <2>1, <2>3, <2>4, <2>5 DEF Dispatch, SlotsInv, SlotsKept
<1>7. CASE ExitClaim
  <2>1. PICK pc \in {"wait", "sleep"} : poller' = [poller EXCEPT !.pc = pc, !.grip = {}]
    BY <1>7 DEF ExitClaim
  <2> QED BY <1>7, <2>1, GripReleased DEF ExitClaim
<1>8. CASE Nudge \/ Leave
  <2>1. SlotsStay
    BY <1>8 DEF Nudge, Leave, SlotsStay, pollVars
  <2> QED BY <2>1, SlotsFrame
<1>9. ASSUME NEW s \in Slots, ReleaseSlot(s) PROVE SlotsInv'
  BY <1>9 DEF ReleaseSlot, SlotsInv, SlotsKept, pollVars
<1> QED BY <1>1, <1>2, <1>3, <1>4, <1>5, <1>6, <1>7, <1>8, <1>9 DEF PollerStep, TasksStep

-----------------------------------------------------------------------------
(* Counters.                                                                  *)

LEMMA CountsSteps ==
  ASSUME SlotsInv, CountsInv, PollerStep \/ Arrive \/ TasksStep PROVE CountsInv'
<1> USE DEF PollerAt, PollerGoes, Claiming
<1>0. inTask \in SUBSET Slots /\ Cardinality(poller.grip) \in Nat
      /\ poller \in [pc : PollerPCs, grip : SUBSET Slots, got : Nat, sent : BOOLEAN]
  BY SlotSets DEF SlotsInv
<1>1. CASE TakeSlots \/ NoSlot \/ PollAgain \/ PollerStops
  <2>1. ~Claiming' /\ ~Claiming
        /\ UNCHANGED << arrivals, backlog, nudging, leaving, activeTasks, inTask, claimsInFlight >>
    <3>1. CASE TakeSlots
      BY <1>0, <3>1 DEF TakeSlots
    <3>2. CASE NoSlot
      BY <1>0, <3>2 DEF NoSlot, taskVars
    <3>3. CASE PollAgain
      BY <1>0, <3>3 DEF PollAgain, taskVars
    <3>4. CASE PollerStops
      BY <1>0, <3>4 DEF PollerStops, taskVars
    <3> QED BY <1>1, <3>1, <3>2, <3>3, <3>4
  <2> QED BY <2>1 DEF CountsInv
<1>2. CASE EnterClaim
  <2>1. CASE ~pauseClaims
    BY <1>0, <1>2, <2>1 DEF EnterClaim, CountsInv
  <2>2. CASE pauseClaims
    BY <1>0, <1>2, <2>2 DEF EnterClaim, CountsInv
  <2> QED BY <2>1, <2>2
<1>3. CASE ClaimTasks
  <2>1. PICK n \in 0 .. Cardinality(poller.grip) :
            /\ n <= backlog /\ backlog' = backlog - n
            /\ poller' = [poller EXCEPT !.pc = "dispatch", !.got = n]
    BY <1>3 DEF ClaimTasks
  <2> QED BY <1>0, <1>3, <2>1 DEF ClaimTasks, CountsInv
<1>4. CASE ClaimFails
  BY <1>0, <1>4 DEF ClaimFails, CountsInv
<1>5. CASE Dispatch
  <2>1. PICK s \in poller.grip :
            /\ inTask' = inTask \cup {s}
            /\ poller' = [poller EXCEPT !.grip = @ \ {s}, !.got = @ - 1, !.sent = TRUE]
    BY <1>5 DEF Dispatch
  <2>2. s \in Slots \ inTask
    BY <1>0 DEF SlotsInv, SlotsKept
  <2>3. Cardinality(inTask') = Cardinality(inTask) + 1 /\ Cardinality(inTask) \in Nat
    BY <1>0, <2>1, <2>2, SlotSets
  <2> QED BY <1>0, <1>5, <2>1, <2>3 DEF Dispatch, CountsInv
<1>6. CASE ExitClaim
  BY <1>0, <1>6 DEF ExitClaim, CountsInv
<1>7. CASE Arrive \/ Nudge \/ Leave
  <2>1. Cardinality(inTask) \in Nat
    BY <1>0, SlotSets
  <2>2. CASE Arrive
    BY <2>1, <2>2 DEF Arrive, CountsInv
  <2>3. CASE Nudge
    BY <2>1, <2>3 DEF Nudge, CountsInv
  <2>4. CASE Leave
    BY <2>1, <2>4 DEF Leave, CountsInv, pollVars
  <2> QED BY <1>7, <2>2, <2>3, <2>4
<1>8. ASSUME NEW s \in Slots, ReleaseSlot(s) PROVE CountsInv'
  <2>1. Cardinality(inTask') = Cardinality(inTask) - 1 /\ Cardinality(inTask) \in Nat
    BY <1>0, <1>8, SlotSets DEF ReleaseSlot
  <2> QED BY <1>8, <2>1 DEF ReleaseSlot, CountsInv, pollVars
<1> QED BY <1>1, <1>2, <1>3, <1>4, <1>5, <1>6, <1>7, <1>8 DEF PollerStep, TasksStep

-----------------------------------------------------------------------------
(* Updates.                                                                   *)

\* Work may end while an update replaces the binary, and none may start: the poller
\* cannot pass the barrier, and has no claim in flight to deal tasks out of.
LEMMA WorkSteps ==
  ASSUME DaemonInv, PollerStep \/ Arrive \/ TasksStep PROVE UpdatesInv'
<1> USE DEF PollerAt, PollerGoes, Claiming
<1>1. UNCHANGED << pauseClaims, updateVars, exitVars >> /\ wakeup' \in BOOLEAN
  BY DEF DaemonInv, UpdatesInv, PollerStep, TakeSlots, NoSlot, EnterClaim, ClaimTasks, ClaimFails,
         Dispatch, ExitClaim, PollAgain, PollerStops, Arrive, TasksStep, Nudge, Leave, ReleaseSlot,
         pollVars
<1>2. ASSUME NEW u \in Goroutines, Replacing(u)
      PROVE  UNCHANGED << activeTasks, claimsInFlight >>
  <2>1. pauseClaims /\ activeTasks = 0 /\ claimsInFlight = 0
    BY <1>2 DEF DaemonInv, UpdatesInv, Holding, Replacing
  <2>2. ~Claiming /\ leaving = 0
    <3>1. Cardinality(inTask) \in Nat
      BY SlotSets DEF DaemonInv, SlotsInv
    <3>2. leaving = 0
      BY <2>1, <3>1 DEF DaemonInv, CountsInv
    <3>3. ~Claiming
      BY <2>1 DEF DaemonInv, CountsInv
    <3> QED BY <3>2, <3>3
  <2>3. CASE PollerStep
    BY <2>1, <2>2, <2>3 DEF PollerStep, TakeSlots, NoSlot, EnterClaim, ClaimTasks, ClaimFails,
         Dispatch, ExitClaim, PollAgain, PollerStops, taskVars
  <2>4. CASE Arrive \/ TasksStep
    <3>1. CASE Arrive \/ Nudge
      BY <3>1 DEF Arrive, Nudge
    <3>3. ~Leave
      BY <2>2 DEF Leave
    <3>2. CASE \E s \in Slots : ReleaseSlot(s)
      BY <3>2 DEF ReleaseSlot
    <3> QED BY <2>4, <3>1, <3>2, <3>3 DEF TasksStep
  <2> QED BY <2>3, <2>4
<1> QED BY <1>1, <1>2 DEF DaemonInv, UpdatesInv, Owning, Holding, Replacing, updateVars, exitVars

\* What a goroutine that steps to pc must give: only the owner of an update changes
\* the flags, but for the update that begins.
UpdaterMove(u, pc) ==
    /\ updater' = [updater EXCEPT ![u] = pc]
    /\ UNCHANGED << wakeup, activeTasks, claimsInFlight, returned >>
    /\ restartBinary' \in BOOLEAN /\ ctxDone' \in BOOLEAN
    /\ updating' \in BOOLEAN /\ pauseClaims' \in BOOLEAN
    /\ pauseClaims' = pauseClaims \/ Owning(u)
    /\ updating' = updating \/ (~updating /\ updating' = TRUE) \/ Owning(u)
    /\ pc \notin {"idle", "fetched"}
          => (Owning(u) /\ updating' = updating) \/ (~updating /\ updating' = TRUE)
    /\ pc \in {"drain", "update", "restart", "release", "done"}
          => pauseClaims' = TRUE \/ (Holding(u) /\ pauseClaims' = pauseClaims)
    /\ pc \in {"update", "restart", "done"}
          => Replacing(u) \/ (activeTasks = 0 /\ claimsInFlight = 0)

LEMMA UpdaterSteps ==
  ASSUME DaemonInv, NEW u \in Goroutines, NEW pc \in UpdaterPCs, UpdaterMove(u, pc)
  PROVE  UpdatesInv'
<1> USE DEF UpdaterMove
<1>0. Owning(u)' = (pc \notin {"idle", "fetched"})
      /\ Holding(u)' = (pc \in {"drain", "update", "restart", "release", "done"})
      /\ Replacing(u)' = (pc \in {"update", "restart", "done"})
  BY DEF DaemonInv, UpdatesInv, Owning, Holding, Replacing
<1>1. updater' \in [Goroutines -> UpdaterPCs]
      /\ \A v \in Goroutines \ {u} : updater'[v] = updater[v]
  BY DEF DaemonInv, UpdatesInv
<1>2. ASSUME NEW v \in Goroutines \ {u}, Owning(v) PROVE ~Owning(u) /\ ~Owning(u)'
  BY <1>0, <1>2 DEF DaemonInv, UpdatesInv
<1>3. ASSUME NEW v \in Goroutines
      PROVE  /\ Owning(v)' => updating'
             /\ Holding(v)' => pauseClaims'
             /\ Replacing(v)' => activeTasks' = 0 /\ claimsInFlight' = 0
  <2>1. CASE v = u
    <3>1. Owning(v)' => updating'
      BY <1>0, <2>1 DEF DaemonInv, UpdatesInv
    <3>2. Holding(v)' => pauseClaims'
      BY <1>0, <2>1 DEF DaemonInv, UpdatesInv
    <3>3. Replacing(v)' => activeTasks' = 0 /\ claimsInFlight' = 0
      BY <1>0, <2>1 DEF DaemonInv, UpdatesInv
    <3> QED BY <3>1, <3>2, <3>3
  <2>2. CASE v # u
    <3>1. /\ Owning(v)' <=> Owning(v)
          /\ Holding(v)' <=> Holding(v)
          /\ Replacing(v)' <=> Replacing(v)
          /\ Holding(v) => Owning(v)
          /\ Replacing(v) => Owning(v)
      BY <1>1, <2>2 DEF Owning, Holding, Replacing
    <3>2. ~Owning(v) \/ ~Owning(u)
      BY <1>2, <2>2
    <3> QED BY <3>1, <3>2 DEF DaemonInv, UpdatesInv
  <2> QED BY <2>1, <2>2
<1>4. \A v, w \in Goroutines : Owning(v)' /\ Owning(w)' => v = w
  BY <1>0, <1>1, <1>2 DEF DaemonInv, UpdatesInv, Owning
<1> QED BY <1>1, <1>3, <1>4 DEF DaemonInv, UpdatesInv

LEMMA UpdatesSteps ==
  ASSUME DaemonInv, NEW u \in Goroutines,
         \/ CheckRelease \/ SkipRelease \/ OwnRelease \/ OwnReload \/ Probe \/ SetBarrier
         \/ BeginUpdate(u) \/ PauseClaims(u) \/ UpdaterFinishes(u)
  PROVE  UpdatesInv'
<1> USE DEF UpdaterAt, UpdaterGoes, OnlyUpdater, taskVars, pollVars, exitVars
<1>0. /\ Loop \in Goroutines /\ updating \in BOOLEAN /\ pauseClaims \in BOOLEAN
      /\ restartBinary \in BOOLEAN /\ ctxDone \in BOOLEAN
      /\ updater \in [Goroutines -> UpdaterPCs]
      /\ \A v \in Goroutines :
            /\ Owning(v) => updating
            /\ Holding(v) => pauseClaims
            /\ Replacing(v) => activeTasks = 0 /\ claimsInFlight = 0
  BY DEF DaemonInv, UpdatesInv, Goroutines
<1>1. activeTasks \in Nat /\ claimsInFlight \in Nat
  <2>1. Cardinality(inTask) \in Nat
    BY SlotSets DEF DaemonInv, SlotsInv
  <2> QED BY <2>1 DEF DaemonInv, CountsInv
<1> USE DEF UpdaterMove, UpdaterPCs, Owning, Holding, Replacing
<1>2. CASE CheckRelease
  <2>1. /\ updater[Loop] = "idle"
        /\ UNCHANGED << wakeup, activeTasks, claimsInFlight, returned, restartBinary, ctxDone, updating, pauseClaims >>
    BY <1>2 DEF CheckRelease
  <2>2. updater' = [updater EXCEPT ![Loop] = "fetched"]
    BY <1>2 DEF CheckRelease
  <2>3. UpdaterMove(Loop, "fetched")
    BY <1>0, <1>1, <2>1, <2>2
  <2> QED BY <1>0, <2>3, UpdaterSteps
<1>3. CASE SkipRelease
  <2>1. /\ updater[Loop] = "fetched"
        /\ UNCHANGED << wakeup, activeTasks, claimsInFlight, returned, restartBinary, ctxDone, updating, pauseClaims >>
    BY <1>3 DEF SkipRelease
  <2>2. updater' = [updater EXCEPT ![Loop] = "idle"]
    BY <1>3 DEF SkipRelease
  <2>3. UpdaterMove(Loop, "idle")
    BY <1>0, <1>1, <2>1, <2>2
  <2> QED BY <1>0, <2>3, UpdaterSteps
<1>4. CASE OwnRelease
  <2>1. /\ updater[Loop] = "fetched"
        /\ UNCHANGED << wakeup, activeTasks, claimsInFlight, returned, restartBinary, ctxDone, pauseClaims >>
    BY <1>4 DEF OwnRelease
  <2>2. updater' = [updater EXCEPT ![Loop] = "barrier"] /\ ~updating /\ updating' = TRUE
    BY <1>4 DEF OwnRelease
  <2>3. UpdaterMove(Loop, "barrier")
    BY <1>0, <1>1, <2>1, <2>2
  <2> QED BY <1>0, <2>3, UpdaterSteps
<1>5. CASE OwnReload
  <2>1. /\ updater[Loop] = "idle"
        /\ UNCHANGED << wakeup, activeTasks, claimsInFlight, returned, restartBinary, ctxDone, pauseClaims >>
    BY <1>5 DEF OwnReload
  <2>2. updater' = [updater EXCEPT ![Loop] = "probe"] /\ ~updating /\ updating' = TRUE
    BY <1>5 DEF OwnReload
  <2>3. UpdaterMove(Loop, "probe")
    BY <1>0, <1>1, <2>1, <2>2
  <2> QED BY <1>0, <2>3, UpdaterSteps
<1>6. CASE Probe
  <2>1. /\ updater[Loop] = "probe"
        /\ UNCHANGED << wakeup, activeTasks, claimsInFlight, returned, restartBinary, ctxDone, updating, pauseClaims >>
    BY <1>6 DEF Probe
  <2>2. CASE updater' = [updater EXCEPT ![Loop] = "disown"]
    <3>1. UpdaterMove(Loop, "disown")
      BY <1>0, <1>1, <2>1, <2>2
    <3> QED BY <1>0, <3>1, UpdaterSteps
  <2>3. CASE updater' = [updater EXCEPT ![Loop] = "reload"]
    <3>1. UpdaterMove(Loop, "reload")
      BY <1>0, <1>1, <2>1, <2>3
    <3> QED BY <1>0, <3>1, UpdaterSteps
  <2> QED BY <1>6, <2>2, <2>3 DEF Probe
<1>7. CASE SetBarrier
  <2>1. /\ updater[Loop] \in {"barrier", "reload"}
        /\ UNCHANGED << wakeup, activeTasks, claimsInFlight, returned, restartBinary, ctxDone, updating >>
    BY <1>7 DEF SetBarrier
  <2>2. CASE updater' = [updater EXCEPT ![Loop] = "disown"] /\ pauseClaims' = pauseClaims
    <3>1. UpdaterMove(Loop, "disown")
      BY <1>0, <1>1, <2>1, <2>2
    <3> QED BY <1>0, <3>1, UpdaterSteps
  <2>3. CASE updater' = [updater EXCEPT ![Loop] = "restart"] /\ activeTasks = 0 /\ claimsInFlight = 0 /\ pauseClaims' = TRUE
    <3>1. UpdaterMove(Loop, "restart")
      BY <1>0, <1>1, <2>1, <2>3
    <3> QED BY <1>0, <3>1, UpdaterSteps
  <2>4. CASE updater' = [updater EXCEPT ![Loop] = "update"] /\ activeTasks = 0 /\ claimsInFlight = 0 /\ pauseClaims' = TRUE
    <3>1. UpdaterMove(Loop, "update")
      BY <1>0, <1>1, <2>1, <2>4
    <3> QED BY <1>0, <3>1, UpdaterSteps
  <2>5. ~Busy => activeTasks = 0 /\ claimsInFlight = 0
    BY <1>1 DEF Busy
  <2> QED BY <1>7, <2>2, <2>3, <2>4, <2>5 DEF SetBarrier
<1>8. CASE BeginUpdate(u)
  <2>1. /\ updater[u] = "idle"
        /\ UNCHANGED << wakeup, activeTasks, claimsInFlight, returned, restartBinary, ctxDone, pauseClaims >>
    BY <1>8 DEF BeginUpdate
  <2>2. updater' = [updater EXCEPT ![u] = "pause"] /\ ~updating /\ updating' = TRUE
    BY <1>8 DEF BeginUpdate
  <2>3. UpdaterMove(u, "pause")
    BY <1>0, <1>1, <2>1, <2>2
  <2> QED BY <1>0, <2>3, UpdaterSteps
<1>9. CASE PauseClaims(u)
  <2>1. /\ updater[u] = "pause"
        /\ UNCHANGED << wakeup, activeTasks, claimsInFlight, returned, restartBinary, ctxDone, updating >>
    BY <1>9 DEF PauseClaims
  <2>2. CASE updater' = [updater EXCEPT ![u] = "disown"] /\ pauseClaims' = pauseClaims
    <3>1. UpdaterMove(u, "disown")
      BY <1>0, <1>1, <2>1, <2>2
    <3> QED BY <1>0, <3>1, UpdaterSteps
  <2>3. CASE updater' = [updater EXCEPT ![u] = "drain"] /\ pauseClaims' = TRUE
    <3>1. UpdaterMove(u, "drain")
      BY <1>0, <1>1, <2>1, <2>3
    <3> QED BY <1>0, <3>1, UpdaterSteps
  <2> QED BY <1>9, <2>2, <2>3 DEF PauseClaims
<1>10. CASE Drain(u)
  <2>1. /\ updater[u] = "drain"
        /\ UNCHANGED << wakeup, activeTasks, claimsInFlight, returned, restartBinary, ctxDone, updating >>
    BY <1>10 DEF Drain
  <2>2. CASE updater' = [updater EXCEPT ![u] = "update"] /\ pauseClaims' = pauseClaims /\ claimsInFlight = 0 /\ activeTasks = 0
    <3>1. UpdaterMove(u, "update")
      BY <1>0, <1>1, <2>1, <2>2
    <3> QED BY <1>0, <3>1, UpdaterSteps
  <2>3. CASE updater' = [updater EXCEPT ![u] = "disown"] /\ pauseClaims' = FALSE
    <3>1. UpdaterMove(u, "disown")
      BY <1>0, <1>1, <2>1, <2>3
    <3> QED BY <1>0, <3>1, UpdaterSteps
  <2> QED BY <1>10, <2>2, <2>3 DEF Drain
<1>11. CASE RunUpdate(u)
  <2>1. /\ updater[u] = "update"
        /\ UNCHANGED << wakeup, activeTasks, claimsInFlight, returned, restartBinary, ctxDone, updating, pauseClaims >>
    BY <1>11 DEF RunUpdate
  <2>2. CASE updater' = [updater EXCEPT ![u] = "restart"]
    <3>1. UpdaterMove(u, "restart")
      BY <1>0, <1>1, <2>1, <2>2
    <3> QED BY <1>0, <3>1, UpdaterSteps
  <2>3. CASE updater' = [updater EXCEPT ![u] = "release"]
    <3>1. UpdaterMove(u, "release")
      BY <1>0, <1>1, <2>1, <2>3
    <3> QED BY <1>0, <3>1, UpdaterSteps
  <2> QED BY <1>11, <2>2, <2>3 DEF RunUpdate
<1>12. CASE TriggerRestart(u)
  <2>1. /\ updater[u] = "restart"
        /\ UNCHANGED << wakeup, activeTasks, claimsInFlight, returned, updating, pauseClaims >>
    BY <1>12 DEF TriggerRestart
  <2>2. CASE updater' = [updater EXCEPT ![u] = "done"] /\ restartBinary' = TRUE /\ ctxDone' = TRUE
    <3>1. UpdaterMove(u, "done")
      BY <1>0, <1>1, <2>1, <2>2
    <3> QED BY <1>0, <3>1, UpdaterSteps
  <2>3. CASE updater' = [updater EXCEPT ![u] = "release"] /\ restartBinary' = restartBinary /\ ctxDone' = ctxDone
    <3>1. UpdaterMove(u, "release")
      BY <1>0, <1>1, <2>1, <2>3
    <3> QED BY <1>0, <3>1, UpdaterSteps
  <2> QED BY <1>12, <2>2, <2>3 DEF TriggerRestart
<1>13. CASE ReleaseBarrier(u)
  <2>1. /\ updater[u] = "release"
        /\ UNCHANGED << wakeup, activeTasks, claimsInFlight, returned, restartBinary, ctxDone, updating >>
    BY <1>13 DEF ReleaseBarrier
  <2>2. updater' = [updater EXCEPT ![u] = "disown"] /\ pauseClaims' = FALSE
    BY <1>13 DEF ReleaseBarrier
  <2>3. UpdaterMove(u, "disown")
    BY <1>0, <1>1, <2>1, <2>2
  <2> QED BY <1>0, <2>3, UpdaterSteps
<1>14. CASE Disown(u)
  <2>1. /\ updater[u] = "disown"
        /\ UNCHANGED << wakeup, activeTasks, claimsInFlight, returned, restartBinary, ctxDone, pauseClaims >>
    BY <1>14 DEF Disown
  <2>2. updater' = [updater EXCEPT ![u] = "idle"] /\ updating' = FALSE
    BY <1>14 DEF Disown
  <2>3. UpdaterMove(u, "idle")
    BY <1>0, <1>1, <2>1, <2>2
  <2> QED BY <1>0, <2>3, UpdaterSteps
<1> QED BY <1>2, <1>3, <1>4, <1>5, <1>6, <1>7, <1>8, <1>9, <1>10, <1>11, <1>12, <1>13, <1>14
        DEF UpdaterFinishes

-----------------------------------------------------------------------------
(* The theorems.                                                              *)

LEMMA DaemonStep == ASSUME DaemonInv, [DaemonNext]_daemonVars PROVE DaemonInv'
<1> USE DEF DaemonInv
<1>1. CASE PollerStep \/ Arrive \/ TasksStep
  <2>1. SlotsInv'
    <3>1. CASE Arrive
      BY <3>1, SlotsFrame DEF Arrive, SlotsStay
    <3> QED BY <1>1, <3>1, SlotsSteps
  <2> QED BY <1>1, <2>1, CountsSteps, WorkSteps
<1>2. ASSUME NEW u \in Goroutines,
             \/ CheckRelease \/ SkipRelease \/ OwnRelease \/ OwnReload \/ Probe \/ SetBarrier
             \/ BeginUpdate(u) \/ PauseClaims(u) \/ UpdaterFinishes(u)
      PROVE  DaemonInv'
  <2>1. UNCHANGED << taskVars, pollVars, claimsInFlight >>
    BY <1>2 DEF CheckRelease, SkipRelease, OwnRelease, OwnReload, Probe, SetBarrier, BeginUpdate,
         PauseClaims, UpdaterFinishes, Drain, RunUpdate, TriggerRestart, ReleaseBarrier, Disown,
         OnlyUpdater
  <2>2. SlotsInv'
    BY <2>1, SlotsFrame DEF SlotsStay, taskVars, pollVars
  <2>3. CountsInv'
    BY <2>1 DEF CountsInv, Claiming, taskVars, pollVars
  <2> QED BY <1>2, <2>2, <2>3, UpdatesSteps
<1>3. CASE Shutdown \/ PollLoopReturns \/ UNCHANGED daemonVars
  <2>1. /\ UNCHANGED << taskVars, pollVars, pauseClaims, claimsInFlight, updateVars >>
        /\ ctxDone' \in BOOLEAN /\ returned' \in BOOLEAN
    BY <1>3 DEF Shutdown, PollLoopReturns, daemonVars, exitVars, UpdatesInv
  <2>2. SlotsInv'
    BY <2>1, SlotsFrame DEF SlotsStay, taskVars, pollVars
  <2>3. CountsInv'
    BY <2>1 DEF CountsInv, Claiming, taskVars, pollVars
  <2>4. UpdatesInv'
    BY <2>1 DEF UpdatesInv, Owning, Holding, Replacing, taskVars, pollVars, updateVars
  <2> QED BY <2>2, <2>3, <2>4
<1>4. Loop \in Goroutines
  BY DEF Goroutines
<1> QED BY <1>1, <1>2, <1>3, <1>4 DEF DaemonNext

LEMMA DaemonAlways == DaemonSpec => []DaemonInv
<1>1. DaemonInv /\ [DaemonNext]_daemonVars => DaemonInv'
  BY DaemonStep
<1> QED BY DaemonInitHolds, <1>1, PTL DEF DaemonSpec

\* Every variable of Daemon keeps its type.
THEOREM DaemonTypeCorrect == DaemonSpec => []DaemonTypeOK
<1>1. ASSUME DaemonInv PROVE DaemonTypeOK
  <2>1. Cardinality(inTask) \in Nat
    BY <1>1, SlotSets DEF DaemonInv, SlotsInv
  <2> QED BY <1>1, <2>1
      DEF DaemonInv, SlotsInv, CountsInv, UpdatesInv, DaemonTypeOK, PollerPCs, UpdaterPCs
<1> QED BY <1>1, DaemonAlways, PTL

\* The daemon's binary is replaced, and its restart scheduled, only by one update at a
\* time and only while no task runs and no claim is in flight (tryAutoUpdate,
\* trySelfReload and handleUpdate, against the poller).
THEOREM UpdateIsIdle == DaemonSpec => []UpdateSeesIdle
<1>1. ASSUME DaemonInv PROVE UpdateSeesIdle
  <2>1. ASSUME NEW u \in Goroutines, Replacing(u)
        PROVE  inTask = {} /\ activeTasks = 0 /\ ~PollerAt("claim") /\ ~PollerAt("dispatch")
    <3>1. activeTasks = 0 /\ claimsInFlight = 0
      BY <1>1, <2>1 DEF DaemonInv, UpdatesInv
    <3>2. inTask \in SUBSET Slots
      BY <1>1 DEF DaemonInv, SlotsInv
    <3>3. Cardinality(inTask) = 0
      BY <1>1, <3>1, <3>2, SlotSets DEF DaemonInv, CountsInv
    <3>4. inTask = {}
      BY <3>2, <3>3, SlotSets
    <3>5. ~Claiming
      BY <1>1, <3>1 DEF DaemonInv, CountsInv
    <3> QED BY <3>1, <3>4, <3>5 DEF Claiming, PollerAt
  <2>2. ASSUME NEW u \in Goroutines, NEW v \in Goroutines, Replacing(u), Replacing(v)
        PROVE  u = v
    BY <1>1, <2>2 DEF DaemonInv, UpdatesInv, Owning, Replacing
  <2> QED BY <2>1, <2>2 DEF UpdateSeesIdle
<1> QED BY <1>1, DaemonAlways, PTL

\* A slot of the daemon is free, the poller's or a task's, and never two of these
\* (pollLoop's semaphore, through claims that fail, tasks that end and updates).
THEOREM SlotsAreKept == DaemonSpec => []SlotsKept
<1>1. DaemonInv => SlotsKept
  BY DEF DaemonInv, SlotsInv
<1> QED BY <1>1, DaemonAlways, PTL

-----------------------------------------------------------------------------
(* Workspace.                                                                 *)

Stages == {"new", "onWait", "parked", "mark", "run", "unmark", "report", "leave", "ended"}

\* A task at work owns its directory's mutex, and a mutex is owned by a task of that
\* directory.
LocksTyped ==
    /\ stage \in [Workers -> Stages]
    /\ lockOwner \in [Paths -> Workers \cup {Nobody}]
    /\ lockQueue \in [Paths -> SUBSET Workers]
    /\ holderID \in [Paths -> Workers \cup {Nobody}]
Owns(t) == AtWork(t) /\ Path(t) # NoPath => lockOwner[Path(t)] = t
Hinted(p) == holderID[p] # Nobody => lockOwner[p] = holderID[p] /\ AtWork(holderID[p])
Queued(p) == \A t \in Workers :
    t \in lockQueue[p] \/ lockOwner[p] = t
      => Path(t) = p /\ stage[t] \notin {"new", "onWait"}
Parked(t) == stage[t] \in {"onWait", "parked"} => Path(t) # NoPath
Locks ==
    /\ LocksTyped
    /\ \A t \in Workers : Owns(t) /\ Parked(t)
    /\ \A p \in Paths : Hinted(p) /\ Queued(p)

\* The marks of root r that stand, and how many each task has made where it stands.
Marked(r) ==
    {m \in Workers \X Nat : m[2] \in 1 .. marks[m[1]] /\ Guarded(m[1])[m[2]] = r}
Counted(t) ==
    /\ stage[t] = "mark" => marks[t] <= Len(Guarded(t))
    /\ stage[t] = "run" => marks[t] = Len(Guarded(t))
    /\ stage[t] = "unmark" => marks[t] \in OuterMarks(t) .. Len(Guarded(t))
    /\ stage[t] = "report" => marks[t] = OuterMarks(t)
    /\ stage[t] = "leave" => marks[t] <= OuterMarks(t)
    /\ stage[t] \in {"new", "onWait", "parked", "ended"} => marks[t] = 0
MarksTyped ==
    /\ marks \in [Workers -> Nat] /\ activeRoots \in [Roots -> Nat]
    /\ deletingRoots \subseteq Roots /\ withdrawn \subseteq Workers
    /\ collector \in [pc : {"idle", "decided", "deleting"}, root : Roots \cup {Nobody}]
    /\ collector.pc # "idle" => collector.root \in Roots
Marks ==
    /\ MarksTyped
    /\ \A t \in Workers : Counted(t)
    /\ \A r \in Roots : /\ IsFiniteSet(Marked(r)) /\ activeRoots[r] = Cardinality(Marked(r))
                        /\ r \in deletingRoots => activeRoots[r] = 0

WorkspaceInv == Locks /\ Marks

-----------------------------------------------------------------------------
(* The roots a task guards.                                                   *)

LEMMA GuardedRoots ==
  ASSUME NEW t \in Workers
  PROVE  /\ OuterMarks(t) \in Nat /\ Len(Guarded(t)) = OuterMarks(t) + OuterMarks(t)
         /\ \A i \in 1 .. Len(Guarded(t)) : Guarded(t)[i] \in Roots
         /\ DOMAIN RootsOf[t] = 1 .. OuterMarks(t)
         /\ \A i \in 1 .. OuterMarks(t) : Guarded(t)[i] = RootsOf[t][i]
<1>1. RootsOf[t] \in Seq(Roots)
  BY WorkspaceAssumption
<1>2. Guarded(t) \in Seq(Roots)
  BY <1>1 DEF Guarded
<1> QED BY <1>1, <1>2 DEF Guarded, OuterMarks

LEMMA WorkspaceInitHolds == WorkspaceInit => WorkspaceInv
<1> SUFFICES ASSUME WorkspaceInit PROVE WorkspaceInv OBVIOUS
<1>1. Locks
  BY WorkspaceAssumption
  DEF WorkspaceInit, Locks, LocksTyped, Stages, Owns, Parked, AtWork, Hinted, Queued
<1>2. \A r \in Roots : Marked(r) = {}
  BY DEF WorkspaceInit, Marked
<1>3. Marks
  BY <1>2, FS_EmptySet DEF WorkspaceInit, Marks, MarksTyped, Counted
<1> QED BY <1>1, <1>3 DEF WorkspaceInv

-----------------------------------------------------------------------------
(* The directories.                                                           *)

LEMMA LocksFrame ==
  ASSUME Locks, UNCHANGED << stage, lockVars >> PROVE Locks'
BY DEF Locks, LocksTyped, lockVars, Owns, Parked, AtWork, Hinted, Queued

\* A task that moves on, and locks nothing, where it was at work and stays so.
LEMMA LocksKept ==
  ASSUME Locks, UNCHANGED lockVars, NEW t \in Workers, NEW s \in Stages, Steps(t, s),
         \/ AtWork(t) /\ s \in {"mark", "run", "unmark", "report", "leave"}
         \/ stage[t] = "parked" /\ s = "ended"
  PROVE  Locks'
<1>1. LocksTyped /\ LocksTyped'
  BY DEF Locks, LocksTyped, Steps, lockVars
<1>2. stage'[t] = s /\ \A u \in Workers \ {t} : stage'[u] = stage[u]
  BY <1>1 DEF Steps, LocksTyped
<1>3. \A u \in Workers : Owns(u)' /\ Parked(u)'
  BY <1>2 DEF Locks, Owns, Parked, AtWork, lockVars, Path
<1>4. \A p \in Paths : Queued(p)'
  BY <1>2 DEF Locks, Queued, AtWork, lockVars, Path
<1>5. ASSUME NEW p \in Paths, holderID[p] # Nobody PROVE AtWork(holderID[p])'
  <2>1. holderID[p] \in Workers /\ AtWork(holderID[p])
    BY <1>1, <1>5 DEF Locks, LocksTyped, Hinted
  <2> QED BY <1>2, <2>1 DEF AtWork, lockVars
<1>6. \A p \in Paths : Hinted(p)'
  BY <1>5 DEF Locks, Hinted, lockVars
<1> QED BY <1>1, <1>3, <1>4, <1>6 DEF Locks

LEMMA LocksSteps == ASSUME Locks, WorkspaceNext \/ UNCHANGED workspaceVars PROVE Locks'
<1>1. LocksTyped
  BY DEF Locks
<1>2. ASSUME NEW t \in Workers, TryLock(t) \/ TakeOver(t) PROVE Locks'
  <2>1. CASE TryLock(t) /\ Steps(t, "onWait")
    <3>1. /\ stage' = [stage EXCEPT ![t] = "onWait"] /\ stage[t] = "new" /\ Path(t) # NoPath
          /\ UNCHANGED lockVars
      BY <1>1, <2>1 DEF TryLock, Steps, LocksTyped, Stands, lockVars
    <3>2. LocksTyped'
      BY <1>1, <3>1 DEF LocksTyped, Stages, lockVars
    <3>3. \A u \in Workers : Owns(u)' /\ Parked(u)'
      BY <1>1, <3>1 DEF Locks, LocksTyped, Owns, Parked, AtWork, lockVars, Path
    <3>4. \A p \in Paths : Hinted(p)' /\ Queued(p)'
      BY <1>1, <3>1 DEF Locks, LocksTyped, Hinted, Queued, AtWork, lockVars, Path
    <3> QED BY <3>2, <3>3, <3>4 DEF Locks
  <2>2. CASE Path(t) = NoPath /\ Steps(t, "mark") /\ UNCHANGED lockVars
    <3>1. stage' = [stage EXCEPT ![t] = "mark"] /\ stage[t] \in {"new", "parked"}
      BY <1>2, <2>2 DEF TryLock, TakeOver, Steps, Stands
    <3>2. LocksTyped'
      BY <1>1, <2>2, <3>1 DEF LocksTyped, Stages, lockVars
    <3>3. \A u \in Workers : Owns(u)' /\ Parked(u)'
      BY <1>1, <2>2, <3>1 DEF Locks, LocksTyped, Owns, Parked, AtWork, lockVars, Path
    <3>4. \A p \in Paths : Hinted(p)' /\ Queued(p)'
      BY <1>1, <2>2, <3>1 DEF Locks, LocksTyped, Hinted, Queued, AtWork, lockVars, Path
    <3> QED BY <3>2, <3>3, <3>4 DEF Locks
  <2>3. CASE /\ Path(t) # NoPath /\ Steps(t, "mark") /\ lockOwner[Path(t)] \in {t, Nobody}
             /\ lockOwner' = [lockOwner EXCEPT ![Path(t)] = t]
             /\ holderID' = [holderID EXCEPT ![Path(t)] = t] /\ lockQueue' = lockQueue
    <3>1. stage' = [stage EXCEPT ![t] = "mark"] /\ Path(t) \in Paths
      BY <2>3, WorkspaceAssumption DEF Steps, Path
    <3>2. LocksTyped'
      BY <1>1, <2>3, <3>1 DEF LocksTyped, Stages
    <3>3. \A u \in Workers : Owns(u)' /\ Parked(u)'
      BY <1>1, <2>3, <3>1, WorkspaceAssumption
      DEF Locks, LocksTyped, Owns, Parked, AtWork, Path
    <3>4. \A p \in Paths : Queued(p)'
      BY <1>1, <2>3, <3>1 DEF Locks, LocksTyped, Queued, Path
    <3>5. \A p \in Paths : Hinted(p)'
      BY <1>1, <2>3, <3>1 DEF Locks, LocksTyped, Hinted, AtWork, Path
    <3> QED BY <3>2, <3>3, <3>4, <3>5 DEF Locks
  <2>4. CASE TakeOver(t)
    <3>1. lockOwner' = [lockOwner EXCEPT ![Path(t)] = t] /\ Path(t) # NoPath
      BY <1>1, <2>4 DEF TakeOver, Stands, LocksTyped, Locks, Parked
    <3> QED BY <2>3, <2>4, <3>1 DEF TakeOver
  <2> QED BY <1>2, <2>1, <2>2, <2>3, <2>4 DEF TryLock, lockVars
<1>3. ASSUME NEW t \in Workers, Park(t) PROVE Locks'
  <2>1. /\ stage' = [stage EXCEPT ![t] = "parked"] /\ stage[t] = "onWait"
        /\ Path(t) \in Paths /\ Path(t) # NoPath
    BY <1>3, WorkspaceAssumption DEF Park, Steps, Stands, Path, Locks, Parked
  <2>2. LocksTyped'
    BY <1>1, <1>3, <2>1 DEF LocksTyped, Stages, Park
  <2>3. \A u \in Workers : Owns(u)' /\ Parked(u)'
    BY <1>1, <1>3, <2>1 DEF Locks, LocksTyped, Owns, Parked, AtWork, Path, Park
  <2>4. \A p \in Paths : Hinted(p)'
    BY <1>1, <1>3, <2>1 DEF Locks, LocksTyped, Hinted, AtWork, Park
  <2>5. \A p \in Paths : Queued(p)'
    BY <1>1, <1>3, <2>1 DEF Locks, LocksTyped, Queued, Path, Park
  <2> QED BY <2>2, <2>3, <2>4, <2>5 DEF Locks
<1>4. ASSUME NEW t \in Workers, Lock(t) PROVE Locks'
  <2>1. Path(t) \in Paths /\ stage' = stage /\ holderID' = holderID
    BY <1>4, WorkspaceAssumption DEF Lock, Path
  <2>2. LocksTyped'
    BY <1>1, <1>4, <2>1 DEF LocksTyped, Lock
  <2>3. \A u \in Workers : Owns(u)' /\ Parked(u)'
    BY <1>1, <1>4, <2>1, WorkspaceAssumption DEF Locks, LocksTyped, Owns, Parked, AtWork, Path, Lock
  <2>4. \A p \in Paths : Hinted(p)'
    BY <1>1, <1>4, <2>1 DEF Locks, LocksTyped, Hinted, AtWork, Lock
  <2>5. \A p \in Paths : Queued(p)'
    BY <1>1, <1>4, <2>1 DEF Locks, LocksTyped, Queued, Path, Lock
  <2> QED BY <2>2, <2>3, <2>4, <2>5 DEF Locks
<1>5. ASSUME NEW t \in Workers, CleanUp(t) PROVE Locks'
  <2>1. Path(t) \in Paths /\ stage' = stage /\ stage[t] = "ended"
    BY <1>5, WorkspaceAssumption DEF CleanUp, Path, Stands
  <2>2. holderID[Path(t)] = Nobody
    BY <1>1, <1>5, <2>1 DEF Locks, LocksTyped, Hinted, AtWork, CleanUp
  <2>3. LocksTyped'
    BY <1>1, <1>5, <2>1 DEF LocksTyped, CleanUp
  <2>4. \A u \in Workers : Owns(u)' /\ Parked(u)'
    BY <1>1, <1>5, <2>1, WorkspaceAssumption
    DEF Locks, LocksTyped, Owns, Parked, AtWork, Path, CleanUp
  <2>5. \A p \in Paths : Hinted(p)'
    BY <1>1, <1>5, <2>1, <2>2 DEF Locks, LocksTyped, Hinted, AtWork, CleanUp
  <2>6. \A p \in Paths : Queued(p)'
    BY <1>1, <1>5, <2>1, WorkspaceAssumption DEF Locks, LocksTyped, Queued, Path, CleanUp
  <2> QED BY <2>3, <2>4, <2>5, <2>6 DEF Locks
<1>6. ASSUME NEW t \in Workers, Leaves(t) PROVE Locks'
  <2>1. stage' = [stage EXCEPT ![t] = "ended"] /\ stage[t] = "leave" /\ AtWork(t)
    BY <1>6 DEF Leaves, Steps, Stands, AtWork
  <2>2. LocksTyped'
    BY <1>1, <1>6, <2>1 DEF LocksTyped, Stages, Leaves, Unlocked
  <2>3. Path(t) # NoPath => Path(t) \in Paths /\ lockOwner[Path(t)] = t
    BY <2>1, WorkspaceAssumption DEF Locks, Owns, Path
  <2>4. \A u \in Workers : Owns(u)' /\ Parked(u)'
    BY <1>1, <1>6, <2>1, <2>3, WorkspaceAssumption
    DEF Locks, LocksTyped, Owns, Parked, AtWork, Path, Leaves, Unlocked
  <2>5. ASSUME NEW p \in Paths PROVE Hinted(p)'
    <3>1. CASE p = Path(t)
      BY <1>1, <1>6, <2>3, <3>1, WorkspaceAssumption DEF LocksTyped, Hinted, Leaves, Unlocked
    <3>2. CASE p # Path(t)
      <4>1. holderID'[p] = holderID[p] /\ lockOwner'[p] = lockOwner[p]
        BY <1>1, <1>6, <2>3, <3>2 DEF Leaves, Unlocked, LocksTyped
      <4>2. holderID[p] # Nobody => holderID[p] \in Workers \ {t} /\ AtWork(holderID[p])
        BY <1>1, <3>2 DEF Locks, LocksTyped, Hinted, Queued
      <4> QED BY <1>1, <2>1, <4>1, <4>2 DEF Locks, LocksTyped, Hinted, AtWork
    <3> QED BY <3>1, <3>2
  <2>6. \A p \in Paths : Queued(p)'
    BY <1>1, <1>6, <2>1, <2>3, WorkspaceAssumption
    DEF Locks, LocksTyped, Queued, Path, Leaves, Unlocked
  <2> QED BY <2>2, <2>4, <2>5, <2>6 DEF Locks
<1>7. ASSUME NEW t \in Workers,
             \/ AbandonWait(t) \/ RunAgent(t) \/ AgentEnds(t) \/ ReportResult(t) \/ WriteGCMeta(t)
      PROVE  Locks'
  BY <1>7, LocksKept
  DEF AbandonWait, RunAgent, AgentEnds, ReportResult, WriteGCMeta, Stands, Stages, AtWork
<1>8. ASSUME \/ \E t \in Workers : \/ MarkActiveEnvRoot(t) \/ UnmarkInner(t) \/ UnmarkOuter(t)
                                   \/ Withdraw(t)
             \/ (\E r \in Roots : Decide(r)) \/ Reserve \/ Removed \/ UNCHANGED workspaceVars
      PROVE  Locks'
  <2>1. UNCHANGED << stage, lockVars >>
    BY <1>8 DEF MarkActiveEnvRoot, UnmarkInner, UnmarkOuter, Withdraw, Decide, Reserve, Removed,
                workspaceVars
  <2> QED BY <2>1, LocksFrame
<1> QED BY <1>2, <1>3, <1>4, <1>5, <1>6, <1>7, <1>8 DEF WorkspaceNext, WorkersStep, TaskStep

-----------------------------------------------------------------------------
(* The marks.                                                                 *)

\* Steps of tasks and collector that make no mark.
LEMMA MarksKept ==
  ASSUME Marks, MarksTyped', UNCHANGED rootVars, \A t \in Workers : Counted(t)',
         \A r \in Roots : r \in deletingRoots' => activeRoots[r] = 0
  PROVE  Marks'
<1>1. \A r \in Roots : Marked(r)' = Marked(r)
  BY DEF Marked, rootVars
<1> QED BY <1>1 DEF Marks, rootVars

LEMMA MarkAdded ==
  ASSUME WorkspaceInv, NEW t \in Workers, MarkActiveEnvRoot(t)
  PROVE  Marks'
<1> DEFINE i == marks[t] + 1
           r == Guarded(t)[i]
<1>1. marks[t] \in Nat /\ marks[t] < Len(Guarded(t)) /\ stage[t] = "mark"
  BY DEF WorkspaceInv, Marks, MarksTyped, MarkActiveEnvRoot, Stands
<1>2. i \in 1 .. Len(Guarded(t)) /\ r \in Roots
  BY <1>1, GuardedRoots
<1>3. /\ marks' = [marks EXCEPT ![t] = i] /\ activeRoots' = [activeRoots EXCEPT ![r] = @ + 1]
      /\ r \notin deletingRoots /\ UNCHANGED << stage, withdrawn, deletingRoots, collector >>
  BY DEF MarkActiveEnvRoot, Mark
<1> HIDE DEF r
<1>4. MarksTyped'
  BY <1>2, <1>3 DEF WorkspaceInv, Marks, MarksTyped
<1>5. \A u \in Workers : Counted(u)'
  <2>1. \A u \in Workers \ {t} : marks'[u] = marks[u]
    BY <1>3 DEF WorkspaceInv, Marks, MarksTyped
  <2>2. marks'[t] = i
    BY <1>3 DEF WorkspaceInv, Marks, MarksTyped
  <2> QED BY <1>1, <1>2, <1>3, <2>1, <2>2, GuardedRoots
      DEF WorkspaceInv, Marks, Counted, Guarded, OuterMarks
<1>6. ASSUME NEW q \in Roots
      PROVE  Marked(q)' = IF q = r THEN Marked(q) \cup {<< t, i >>} ELSE Marked(q)
  <2>1. \A m \in Workers \X Nat :
          m[2] \in 1 .. marks'[m[1]] <=> (m[2] \in 1 .. marks[m[1]] \/ m = << t, i >>)
    <3>1. ASSUME NEW m \in Workers \X Nat
          PROVE  m[2] \in 1 .. marks'[m[1]] <=> (m[2] \in 1 .. marks[m[1]] \/ m = << t, i >>)
      <4>1. PICK u \in Workers, n \in Nat : m = << u, n >>
        OBVIOUS
      <4>2. CASE u = t
        BY <1>1, <1>3, <4>1, <4>2 DEF WorkspaceInv, Marks, MarksTyped
      <4>3. CASE u # t
        BY <1>1, <1>3, <4>1, <4>3 DEF WorkspaceInv, Marks, MarksTyped
      <4> QED BY <4>2, <4>3
    <3> QED BY <3>1
  <2>2. << t, i >> \in Workers \X Nat
    BY <1>1
  <2>3. Marked(q)' = {m \in Workers \X Nat : m[2] \in 1 .. marks'[m[1]] /\ Guarded(m[1])[m[2]] = q}
    BY DEF Marked, Guarded
  <2>4. Guarded(t)[i] = r
    BY DEF r
  <2> HIDE DEF i
  <2> QED BY <2>1, <2>2, <2>3, <2>4 DEF Marked
<1>7. ASSUME NEW q \in Roots
      PROVE  /\ IsFiniteSet(Marked(q)') /\ activeRoots'[q] = Cardinality(Marked(q)')
             /\ q \in deletingRoots' => activeRoots'[q] = 0
  <2>1. << t, i >> \notin Marked(q)
    BY <1>1 DEF Marked
  <2>2. IsFiniteSet(Marked(q)) /\ activeRoots[q] = Cardinality(Marked(q))
        /\ (q \in deletingRoots => activeRoots[q] = 0)
    BY DEF WorkspaceInv, Marks
  <2>3. activeRoots'[q] = IF q = r THEN activeRoots[q] + 1 ELSE activeRoots[q]
    BY <1>3 DEF WorkspaceInv, Marks, MarksTyped
  <2> HIDE DEF i
  <2>4. CASE q = r
    BY <1>3, <1>6, <2>1, <2>2, <2>3, <2>4, FS_AddElement
  <2>5. CASE q # r
    BY <1>3, <1>6, <2>2, <2>3, <2>5
  <2> QED BY <2>4, <2>5
<1> QED BY <1>4, <1>5, <1>7 DEF Marks

LEMMA MarkRemoved ==
  ASSUME WorkspaceInv, NEW t \in Workers, UnmarkInner(t) \/ UnmarkOuter(t)
  PROVE  Marks'
<1> DEFINE i == marks[t]
           r == Guarded(t)[i]
<1>1. /\ marks[t] \in Nat /\ marks[t] > 0 /\ marks[t] <= Len(Guarded(t))
      /\ \/ stage[t] = "unmark" /\ marks[t] > OuterMarks(t)
         \/ stage[t] = "leave"
  BY GuardedRoots DEF WorkspaceInv, Marks, MarksTyped, Counted, UnmarkInner, UnmarkOuter, Stands
<1>2. i \in 1 .. Len(Guarded(t)) /\ r \in Roots
  BY <1>1, GuardedRoots
<1>3. /\ marks' = [marks EXCEPT ![t] = i - 1] /\ activeRoots' = [activeRoots EXCEPT ![r] = @ - 1]
      /\ UNCHANGED << stage, withdrawn, deletingRoots, collector >>
  BY DEF UnmarkInner, UnmarkOuter, Unmarked
<1> HIDE DEF r
<1>4. \A u \in Workers : Counted(u)'
  <2>1. \A u \in Workers \ {t} : marks'[u] = marks[u]
    BY <1>3 DEF WorkspaceInv, Marks, MarksTyped
  <2>2. marks'[t] = i - 1
    BY <1>3 DEF WorkspaceInv, Marks, MarksTyped
  <2> QED BY <1>1, <1>3, <2>1, <2>2, GuardedRoots
      DEF WorkspaceInv, Marks, Counted, Guarded, OuterMarks
<1>5. ASSUME NEW q \in Roots
      PROVE  Marked(q)' = IF q = r THEN Marked(q) \ {<< t, i >>} ELSE Marked(q)
  <2>1. \A m \in Workers \X Nat :
          m[2] \in 1 .. marks'[m[1]] <=> (m[2] \in 1 .. marks[m[1]] /\ m # << t, i >>)
    <3>1. ASSUME NEW m \in Workers \X Nat
          PROVE  m[2] \in 1 .. marks'[m[1]] <=> (m[2] \in 1 .. marks[m[1]] /\ m # << t, i >>)
      <4>1. PICK u \in Workers, n \in Nat : m = << u, n >>
        OBVIOUS
      <4>2. CASE u = t
        BY <1>1, <1>3, <4>1, <4>2 DEF WorkspaceInv, Marks, MarksTyped
      <4>3. CASE u # t
        BY <1>1, <1>3, <4>1, <4>3 DEF WorkspaceInv, Marks, MarksTyped
      <4> QED BY <4>2, <4>3
    <3> QED BY <3>1
  <2>2. Marked(q)' = {m \in Workers \X Nat : m[2] \in 1 .. marks'[m[1]] /\ Guarded(m[1])[m[2]] = q}
    BY DEF Marked, Guarded
  <2>3. Guarded(t)[i] = r
    BY DEF r
  <2> HIDE DEF i
  <2> QED BY <2>1, <2>2, <2>3 DEF Marked
<1>6. ASSUME NEW q \in Roots
      PROVE  /\ activeRoots'[q] \in Nat
             /\ IsFiniteSet(Marked(q)') /\ activeRoots'[q] = Cardinality(Marked(q)')
             /\ q \in deletingRoots' => activeRoots'[q] = 0
  <2>1. q = r => << t, i >> \in Marked(q)
    BY <1>1 DEF Marked, r
  <2>2. IsFiniteSet(Marked(q)) /\ activeRoots[q] = Cardinality(Marked(q))
        /\ (q \in deletingRoots => activeRoots[q] = 0) /\ activeRoots[q] \in Nat
    BY DEF WorkspaceInv, Marks, MarksTyped
  <2>3. activeRoots'[q] = IF q = r THEN activeRoots[q] - 1 ELSE activeRoots[q]
    BY <1>3 DEF WorkspaceInv, Marks, MarksTyped
  <2> HIDE DEF i
  <2>4. CASE q = r
    <3>1. /\ IsFiniteSet(Marked(q)') /\ activeRoots'[q] = Cardinality(Marked(q)')
      BY <1>5, <2>1, <2>2, <2>3, <2>4, FS_RemoveElement
    <3>2. Cardinality(Marked(q)') \in Nat
      BY <3>1, FS_CardinalityType
    <3> QED BY <1>3, <2>2, <2>3, <2>4, <3>1, <3>2
  <2>5. CASE q # r
    BY <1>3, <1>5, <2>2, <2>3, <2>5
  <2> QED BY <2>4, <2>5
<1>7. MarksTyped'
  BY <1>1, <1>2, <1>3, <1>6 DEF WorkspaceInv, Marks, MarksTyped
<1> QED BY <1>4, <1>6, <1>7 DEF Marks

LEMMA MarksSteps == ASSUME WorkspaceInv, WorkspaceNext \/ UNCHANGED workspaceVars PROVE Marks'
<1>1. Marks /\ MarksTyped /\ LocksTyped
  BY DEF WorkspaceInv, Marks, Locks
<1>2. ASSUME NEW t \in Workers, MarkActiveEnvRoot(t) PROVE Marks'
  BY <1>2, MarkAdded
<1>3. ASSUME NEW t \in Workers, UnmarkInner(t) \/ UnmarkOuter(t) PROVE Marks'
  BY <1>3, MarkRemoved
<1>4. ASSUME NEW t \in Workers,
             \/ TryLock(t) \/ Park(t) \/ TakeOver(t) \/ AbandonWait(t) \/ RunAgent(t)
             \/ AgentEnds(t) \/ ReportResult(t) \/ WriteGCMeta(t) \/ Leaves(t)
      PROVE  Marks'
  <2>1. UNCHANGED << withdrawn, rootVars, deletingRoots, collector >>
    BY <1>4 DEF TryLock, Park, TakeOver, AbandonWait, RunAgent, AgentEnds, ReportResult,
                WriteGCMeta, Leaves
  <2>2. MarksTyped'
    BY <1>1, <2>1 DEF MarksTyped, rootVars
  <2>3. ASSUME NEW u \in Workers PROVE Counted(u)'
    <3>1. CASE u = t
      BY <1>1, <1>4, <2>1, <3>1, GuardedRoots
      DEF TryLock, Park, TakeOver, AbandonWait, RunAgent, AgentEnds, ReportResult, WriteGCMeta,
          Leaves, Steps, Stands, LocksTyped, Marks, MarksTyped, Counted, rootVars, Guarded, OuterMarks
    <3>2. CASE u # t
      <4>1. stage'[u] = stage[u]
        BY <1>1, <1>4, <3>2 DEF TryLock, Park, TakeOver, AbandonWait, RunAgent, AgentEnds,
           ReportResult, WriteGCMeta, Leaves, Steps, LocksTyped
      <4> QED BY <1>1, <2>1, <4>1 DEF Marks, Counted, rootVars, Guarded, OuterMarks
    <3> QED BY <3>1, <3>2
  <2> QED BY <1>1, <2>1, <2>2, <2>3, MarksKept DEF Marks
<1>5. ASSUME \/ \E t \in Workers : Lock(t) \/ CleanUp(t) \/ Withdraw(t)
             \/ (\E r \in Roots : Decide(r)) \/ Reserve \/ Removed \/ UNCHANGED workspaceVars
      PROVE  Marks'
  <2>1. UNCHANGED << stage, rootVars >>
    BY <1>5 DEF Lock, CleanUp, Withdraw, Decide, Reserve, Removed, workspaceVars
  <2>2. MarksTyped' /\ \A r \in Roots : r \in deletingRoots' => activeRoots[r] = 0
    <3>1. CASE \/ \E t \in Workers : Lock(t) \/ CleanUp(t) \/ Withdraw(t)
               \/ UNCHANGED workspaceVars
      BY <1>1, <3>1 DEF Lock, CleanUp, Withdraw, workspaceVars, rootVars, Marks, MarksTyped
    <3>2. ASSUME NEW r \in Roots, Decide(r)
          PROVE  MarksTyped' /\ \A q \in Roots : q \in deletingRoots' => activeRoots[q] = 0
      BY <1>1, <3>2 DEF Decide, rootVars, Marks, MarksTyped
    <3>3. CASE Reserve
      BY <1>1, <3>3 DEF Reserve, rootVars, Marks, MarksTyped
    <3>4. CASE Removed
      BY <1>1, <3>4 DEF Removed, rootVars, Marks, MarksTyped
    <3> QED BY <1>5, <3>1, <3>2, <3>3, <3>4
  <2>3. \A t \in Workers : Counted(t)'
    BY <1>1, <2>1 DEF Marks, Counted, rootVars, Guarded, OuterMarks
  <2> QED BY <1>1, <2>1, <2>2, <2>3, MarksKept
<1> QED BY <1>2, <1>3, <1>4, <1>5 DEF WorkspaceNext, WorkersStep, TaskStep

LEMMA WorkspaceStep == ASSUME WorkspaceInv, [WorkspaceNext]_workspaceVars PROVE WorkspaceInv'
BY LocksSteps, MarksSteps DEF WorkspaceInv

LEMMA WorkspaceAlways == WorkspaceSpec => []WorkspaceInv
BY WorkspaceInitHolds, WorkspaceStep, PTL DEF WorkspaceSpec

-----------------------------------------------------------------------------

\* Every variable keeps its type; above all, no root's reference count falls below zero.
THEOREM WorkspaceTypeCorrect == WorkspaceSpec => []WorkspaceTypeOK
<1>1. WorkspaceInv => WorkspaceTypeOK
  BY DEF WorkspaceInv, Locks, LocksTyped, Stages, Marks, MarksTyped, WorkspaceTypeOK
<1> QED BY <1>1, WorkspaceAlways, PTL

\* A task works in its directory alone, and the hint names nobody but the one who does,
\* whoever abandoned a wait for it and is given the mutex afterwards.
THEOREM WorkspaceOneInPlace == WorkspaceSpec => []OneInPlace
<1>1. WorkspaceInv => OneInPlace
  BY DEF WorkspaceInv, Locks, Owns, Hinted, OneInPlace
<1> QED BY <1>1, WorkspaceAlways, PTL

\* No root of a task whose agent runs, or whose report and metadata are still to come,
\* is being removed.
THEOREM WorkspaceLiveRoots == WorkspaceSpec => []LiveRootsStay
<1>1. ASSUME WorkspaceInv, NEW t \in Workers, stage[t] \in {"run", "unmark", "report"},
             NEW i \in DOMAIN RootsOf[t]
      PROVE  RootsOf[t][i] \notin deletingRoots
  <2> DEFINE r == Guarded(t)[i]
  <2>1. /\ i \in 1 .. OuterMarks(t) /\ r = RootsOf[t][i] /\ r \in Roots
        /\ OuterMarks(t) <= marks[t] /\ i \in Nat
    BY <1>1, GuardedRoots DEF WorkspaceInv, Marks, MarksTyped, Counted
  <2>2. << t, i >> \in Marked(r)
    <3>1. i \in 1 .. marks[t] /\ << t, i >> \in Workers \X Nat
      BY <1>1, <2>1, GuardedRoots DEF WorkspaceInv, Marks, MarksTyped
    <3> QED BY <3>1 DEF Marked
  <2> HIDE DEF r
  <2>3. IsFiniteSet(Marked(r)) /\ activeRoots[r] = Cardinality(Marked(r))
    BY <1>1, <2>1 DEF WorkspaceInv, Marks
  <2>4. activeRoots[r] # 0
    BY <2>2, <2>3, FS_EmptySet
  <2> QED BY <1>1, <2>1, <2>4 DEF WorkspaceInv, Marks
<1>2. WorkspaceInv => LiveRootsStay
  BY <1>1 DEF LiveRootsStay
<1> QED BY <1>2, WorkspaceAlways, PTL
=============================================================================
