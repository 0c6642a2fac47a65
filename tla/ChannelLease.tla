---------------------------- MODULE ChannelLease ----------------------------
(***************************************************************************)
(* The supervisors that keep one connection per channel installation, over   *)
(* all server replicas (server/internal/integrations/channel/engine:         *)
(* supervisor.go, redis_lease_store.go), for one installation: installations *)
(* have a lease key and a map entry each and meet nowhere.                   *)
(*                                                                         *)
(* A token is nodeID-g<gen>, one per supervisor goroutine; one that is no    *)
(* longer in use anywhere stands for the next generation.  Durations count   *)
(* down.  A Redis command runs when it is sent and is answered some time     *)
(* later: running later it would only set a longer lease.  An acquisition or *)
(* a release its caller gave up on may still run.                            *)
(***************************************************************************)
EXTENDS Integers

CONSTANTS
    Nodes, Tokens, NoToken,
    Prints, NoPrint,   \* credential fingerprints; NoPrint: not active
    TTL, Margin,       \* LeaseTTL, LeaseExpirySafetyMargin
    Teardown,          \* how long Connect takes to return once cancelled
    MaxCall,           \* how long an acquisition is waited for
    MaxTroubles, MaxRotations  \* bounds

\* Config.Validate asks for 0 < Margin < TTL.  That the margin outlasts a
\* teardown and an acquisition its grant is what the code relies on.
ASSUME LeaseAssumption ==
    /\ {TTL, Margin, Teardown, MaxCall, MaxTroubles, MaxRotations} \subseteq Nat
    /\ Teardown < Margin /\ Margin < TTL /\ MaxCall <= TTL - Margin
    /\ NoToken \notin Tokens /\ NoPrint \notin Prints /\ Nodes # {}

VARIABLES
    print,      \* the installation row's fingerprint, NoPrint when it is not active
    lease,      \* the Redis key: [token, left], NoToken when it is absent
    late,       \* commands given up on that may still run: <<operation, token>>
    replica,    \* node -> "up", "stopping", "down"
    entry,      \* node -> [token, print]: its supervisors map entry
    sweep,      \* node -> [pc, print]: where its sweep is, with the row it listed
    sup,        \* token -> its supervisor goroutine
    troubles, rotations

leaseVars == << print, lease, late, replica, entry, sweep, sup, troubles, rotations >>

\* `left` is the time to confirmedUntil, negative after it; `asked` the time
\* since the call under way began; `lost`: renewLeaseUntil cancelled the run.
Unborn == [pc |-> "none", node |-> CHOOSE n \in Nodes : TRUE, print |-> NoPrint,
           cancelled |-> FALSE, lost |-> FALSE, left |-> 0, asked |-> 0]
NoLease == [token |-> NoToken, left |-> 0]
NoEntry == [token |-> NoToken, print |-> NoPrint]
NoSweep == [pc |-> "idle", print |-> NoPrint]

LeaseInit ==
    /\ print \in Prints \cup {NoPrint}
    /\ lease = NoLease /\ late = {}
    /\ replica = [n \in Nodes |-> "up"] /\ entry = [n \in Nodes |-> NoEntry]
    /\ sweep = [n \in Nodes |-> NoSweep] /\ sup = [g \in Tokens |-> Unborn]
    /\ troubles = 0 /\ rotations = 0

Is(g, pcs) == sup[g].pc \in pcs
Connected == {g \in Tokens : Is(g, {"live", "renewed"})}
Over(g) == sup[g].cancelled \/ sup[g].lost
SupsOf(n) == {g \in Tokens : ~Is(g, {"none"}) /\ sup[g].node = n}
Unused(g) == Is(g, {"none"}) /\ lease.token # g /\ \A c \in late : c[2] # g

Trouble == troubles < MaxTroubles /\ troubles' = troubles + 1

-----------------------------------------------------------------------------
(* What the scripts do to the key.                                            *)

Grantable(g) == lease.token \in {NoToken, g}
Set(g) == lease' = [token |-> g, left |-> TTL]
DeleteAny(g) == lease' = NoLease  \* mutant: an unfenced release
Delete(g) == lease' = IF lease.token = g THEN NoLease ELSE lease

\* A command whose caller is gone runs after all, or never does.
LateCommand(c) ==
    /\ c \in late /\ late' = late \ {c}
    /\ \/ CASE c[1] = "acquire" -> IF Grantable(c[2]) THEN Set(c[2]) ELSE UNCHANGED lease
            [] c[1] = "release" -> Delete(c[2])
       \/ UNCHANGED lease
    /\ UNCHANGED << print, replica, entry, sweep, sup, troubles, rotations >>

-----------------------------------------------------------------------------
(* Run's sweep.                                                               *)

CancelAll(gs) == [g \in Tokens |-> IF g \in gs THEN [sup[g] EXCEPT !.cancelled = TRUE] ELSE sup[g]]

Supervised(n) == entry[n] # NoEntry

NoRotation(n) == FALSE  \* mutant: the sweep does not compare fingerprints
Rotated(n) == Supervised(n) /\ entry[n].print # print
\* List, cancelOnRotation and the reaping of revoked installations.
Sweep(n) ==
    /\ replica[n] = "up" /\ sweep[n].pc = "idle"
    /\ IF Rotated(n) THEN sup' = CancelAll({entry[n].token}) /\ entry' = [entry EXCEPT ![n] = NoEntry]
                     ELSE UNCHANGED << sup, entry >>
    /\ sweep' = IF print # NoPrint /\ (Rotated(n) \/ ~Supervised(n))
                THEN [sweep EXCEPT ![n] = [pc |-> "look", print |-> print]] ELSE sweep
    /\ UNCHANGED << print, lease, late, replica, troubles, rotations >>

\* waitForRotations ends with the predecessors or with its timeout; then
\* ListHeldWSLeases, whose error skips the sweep like a held lease.
ListHeld(n) ==
    /\ sweep[n].pc = "look"
    /\ \/ lease.token = NoToken /\ sweep' = [sweep EXCEPT ![n].pc = "start"] /\ UNCHANGED troubles
       \/ lease.token # NoToken /\ sweep' = [sweep EXCEPT ![n] = NoSweep] /\ UNCHANGED troubles
       \/ Trouble /\ sweep' = [sweep EXCEPT ![n] = NoSweep]
    /\ UNCHANGED << print, lease, late, replica, entry, sup, rotations >>

\* startSupervisor.
Start(n, g) ==
    /\ sweep[n].pc = "start" /\ Unused(g)
    /\ sweep' = [sweep EXCEPT ![n] = NoSweep]
    /\ entry' = [entry EXCEPT ![n] = [token |-> g, print |-> sweep[n].print]]
    /\ sup' = [sup EXCEPT ![g] = [Unborn EXCEPT !.pc = "head", !.node = n,
                                                !.print = sweep[n].print]]
    /\ UNCHANGED << print, lease, late, replica, troubles, rotations >>

-----------------------------------------------------------------------------
(* supervise.                                                                 *)

LeaveEntry(g) == entry  \* mutant: the deferred clean-up is gone
OwnEntryGone(g) == [n \in Nodes |-> IF entry[n].token = g THEN NoEntry ELSE entry[n]]
Returns(g) == sup' = [sup EXCEPT ![g] = Unborn] /\ entry' = OwnEntryGone(g)

\* The head of the loop, and acquireLease: granted, contended, or an error
\* before the command has run, which it may still do.  The release before it,
\* given up on, is over by now: the back-off lies in between.
TryAcquire(g) ==
    /\ Is(g, {"head"}) /\ UNCHANGED << print, replica, sweep, rotations >>
    /\ \/ sup[g].cancelled /\ Returns(g) /\ UNCHANGED << lease, late, troubles >>
       \/ /\ ~sup[g].cancelled /\ << "release", g >> \notin late
          /\ \/ /\ Grantable(g) /\ Set(g) /\ UNCHANGED << entry, late, troubles >>
                /\ sup' = [sup EXCEPT ![g].pc = "acquired", ![g].asked = 0]
             \/ ~Grantable(g) /\ Returns(g) /\ UNCHANGED << lease, late, troubles >>
             \/ /\ Trouble /\ Returns(g) /\ UNCHANGED lease
                /\ late' = late \cup {<< "acquire", g >>}

ConfirmFromAnswer(g) == TTL - Margin  \* mutant: counted from the answer
Confirmed(g) == TTL - Margin - sup[g].asked

\* The answer: Build and Connect, or release when Build fails, or an error that
\* leaves the lease with nobody.
Acquired(g) ==
    /\ Is(g, {"acquired"}) /\ UNCHANGED << print, lease, late, replica, sweep, rotations >>
    /\ \/ /\ sup' = [sup EXCEPT ![g].pc = "live", ![g].lost = FALSE, ![g].left = Confirmed(g),
                                ![g].asked = 0]
          /\ UNCHANGED << entry, troubles >>
       \/ sup' = [sup EXCEPT ![g].pc = "release", ![g].asked = 0] /\ Trouble /\ UNCHANGED entry
       \/ Returns(g) /\ Trouble

-----------------------------------------------------------------------------
(* renewLeaseUntil, while Connect runs.                                       *)

\* RenewWSLease: extended, or "lease token no longer matches".
Renew(g) ==
    /\ Is(g, {"live"}) /\ ~Over(g) /\ sup[g].left > 0
    /\ IF lease.token = g THEN Set(g) /\ sup' = [sup EXCEPT ![g].pc = "renewed"]
                          ELSE UNCHANGED lease /\ sup' = [sup EXCEPT ![g].lost = TRUE]
    /\ UNCHANGED << print, late, replica, entry, sweep, troubles, rotations >>

\* The answer, or none until confirmedUntil or the next attempt.
Renewed(g) ==
    /\ Is(g, {"renewed"})
    /\ \/ /\ sup[g].left > 0 /\ UNCHANGED troubles
          /\ sup' = [sup EXCEPT ![g].pc = "live", ![g].left = Confirmed(g), ![g].asked = 0]
       \/ /\ IF sup[g].left > 0 /\ ~Over(g) THEN Trouble ELSE UNCHANGED troubles
          /\ sup' = [sup EXCEPT ![g].pc = "live", ![g].asked = 0]
    /\ UNCHANGED << print, lease, late, replica, entry, sweep, rotations >>

\* leaseLost: confirmedUntil has passed.
LeaseLost(g) ==
    /\ Is(g, {"live"}) /\ ~Over(g) /\ sup[g].left <= 0
    /\ sup' = [sup EXCEPT ![g].lost = TRUE]
    /\ UNCHANGED << print, lease, late, replica, entry, sweep, troubles, rotations >>

\* Connect returns, cancelled or of its own accord; a renewal under way is
\* cancelled and joined.
ConnectReturns(g) ==
    /\ g \in Connected
    /\ sup' = [sup EXCEPT ![g].pc = "release", ![g].asked = 0, ![g].left = 0, ![g].lost = FALSE]
    /\ IF Over(g) THEN UNCHANGED troubles ELSE Trouble
    /\ UNCHANGED << print, lease, late, replica, entry, sweep, rotations >>

\* releaseLease, which may fail; what was given up on may still run.
Release(g) ==
    /\ Is(g, {"release"}) /\ sup' = [sup EXCEPT ![g].pc = "head"]
    /\ \/ Delete(g) /\ UNCHANGED << late, troubles >>
       \/ Trouble /\ late' = late \cup {<< "release", g >>} /\ UNCHANGED lease
    /\ UNCHANGED << print, replica, entry, sweep, rotations >>

-----------------------------------------------------------------------------
(* The row, the replicas and time.                                            *)

\* Re-installed with other credentials, installed or revoked.
Rotate(f) ==
    /\ print # f /\ rotations < MaxRotations
    /\ print' = f /\ rotations' = rotations + 1
    /\ UNCHANGED << lease, late, replica, entry, sweep, sup, troubles >>

\* cancelAll: Run's context is cancelled.
Stop(n) ==
    /\ replica[n] = "up" /\ Trouble
    /\ replica' = [replica EXCEPT ![n] = "stopping"] /\ sup' = CancelAll(SupsOf(n))
    /\ entry' = [entry EXCEPT ![n] = NoEntry] /\ sweep' = [sweep EXCEPT ![n] = NoSweep]
    /\ UNCHANGED << print, lease, late, rotations >>

\* The process ends: killed, or WaitWithTimeout is over.
Die(n) ==
    /\ \/ replica[n] = "up" /\ Trouble
       \/ replica[n] = "stopping" /\ UNCHANGED troubles
    /\ replica' = [replica EXCEPT ![n] = "down"]
    /\ entry' = [entry EXCEPT ![n] = NoEntry] /\ sweep' = [sweep EXCEPT ![n] = NoSweep]
    /\ sup' = [g \in Tokens |-> IF g \in SupsOf(n) THEN Unborn ELSE sup[g]]
    /\ UNCHANGED << print, lease, late, rotations >>

Boot(n) ==
    /\ replica[n] = "down" /\ replica' = [replica EXCEPT ![n] = "up"]
    /\ UNCHANGED << print, lease, late, entry, sweep, sup, troubles, rotations >>

\* Time passes unless something is due: a teardown, or an acquisition's answer.
Patient(g) ==
    /\ g \in Connected => sup[g].left > -Teardown
    /\ Is(g, {"acquired"}) => sup[g].asked < MaxCall
Aged(g) == [sup[g] EXCEPT !.asked = IF Is(g, {"acquired", "renewed"}) THEN @ + 1 ELSE @,
                          !.left = IF g \in Connected THEN @ - 1 ELSE @]
LeaseTick ==
    /\ \A g \in Tokens : Patient(g)
    /\ sup' = [g \in Tokens |-> Aged(g)]
    /\ lease' = IF lease.left <= 1 THEN NoLease ELSE [lease EXCEPT !.left = @ - 1]
    /\ UNCHANGED << print, late, replica, entry, sweep, troubles, rotations >>

SweepStep(n) == Sweep(n) \/ ListHeld(n) \/ \E g \in Tokens : Start(n, g)
SupStep == \E g \in Tokens :
    \/ TryAcquire(g) \/ Acquired(g) \/ Renew(g) \/ Renewed(g) \/ LeaseLost(g)
    \/ ConnectReturns(g) \/ Release(g) \/ \E c \in late : c[2] = g /\ LateCommand(c)

LeaseNext ==
    \/ SupStep \/ LeaseTick \/ \E n \in Nodes : SweepStep(n)
    \/ \E f \in Prints \cup {NoPrint} : Rotate(f)
    \/ \E n \in Nodes : Stop(n) \/ Die(n) \/ Boot(n)

LeaseSpec == LeaseInit /\ [][LeaseNext]_leaseVars

-----------------------------------------------------------------------------
(* Properties.                                                                *)

\* Every variable has its type.
LeaseTypeOK ==
    /\ print \in Prints \cup {NoPrint}
    /\ lease \in [token : Tokens \cup {NoToken}, left : 0 .. TTL]
    /\ late \subseteq {"acquire", "release"} \X Tokens
    /\ replica \in [Nodes -> {"up", "stopping", "down"}]
    /\ entry \in [Nodes -> [token : Tokens \cup {NoToken}, print : Prints \cup {NoPrint}]]
    /\ sweep \in [Nodes -> [pc : {"idle", "look", "start"}, print : Prints \cup {NoPrint}]]
    /\ sup \in [Tokens -> [pc : {"none", "head", "acquired", "live", "renewed", "release"},
                           node : Nodes, print : Prints \cup {NoPrint},
                           cancelled : BOOLEAN, lost : BOOLEAN, left : Int, asked : Nat]]
    /\ troubles \in Nat /\ rotations \in Nat

\* "At most one active connection per installation across replicas": also over
\* rotations, partitions, late commands and answers, and a failed release.
OneConnection == \A g, h \in Connected : g = h

\* An active installation is connected with its current credentials, again and
\* again: a rotation, a crash, a lost lease or a lost call never strands it.
Served == print = NoPrint \/ \E g \in Connected : sup[g].print = print
InstallationServed == []<>Served
=============================================================================
