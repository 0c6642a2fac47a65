--------------------------- MODULE ChannelInbound ---------------------------
(***************************************************************************)
(* The inbound pipeline of the channel engine for one chat session: router.go *)
(* (Handle, dispatch, processClaimed, scheduleRun, flushChatRun, Drain),     *)
(* session.go (AppendUserMessage), batcher.go and the channel_inbound_dedup  *)
(* statements of pkg/db/queries/channel.sql.                                 *)
(*                                                                         *)
(* A platform delivers a message again until a delivery is acknowledged, and *)
(* sometimes after that; deliveries run concurrently.  A claim's token is    *)
(* the delivery that holds it: one delivery makes one claim.  Media and the  *)
(* replies to the chat are left out.                                         *)
(***************************************************************************)
EXTENDS Naturals

CONSTANTS
    Messages, Deliveries, NoDelivery,
    Commands,    \* the messages that are an /issue command
    MaxFaults    \* bound

ASSUME InboundAssumption ==
    /\ Commands \subseteq Messages /\ Messages # {}
    /\ NoDelivery \notin Deliveries /\ MaxFaults \in Nat

VARIABLES
    dedup,     \* message -> [state, token, old]: old when past the 60 seconds
    copies,    \* message -> its chat_message rows
    issues,    \* message -> the issues its command created
    accepted,  \* the messages the platform got an acknowledgement for
    delivery,  \* delivery -> [pc, msg]
    pendingGen,    \* the session's pending entry: its generation, 0 for none
    seq,       \* the last generation
    firing,    \* generations whose timer callback has started
    flushes,   \* flushes that have not read the session yet
    stopped,   \* FlushAll was called
    covered,   \* history: the messages a chat run was enqueued for
    forgiven,  \* history: durable messages whose trigger a crash or an error lost
    faults

inboundVars == << dedup, copies, issues, accepted, delivery, pendingGen, seq, firing, flushes,
                  stopped, covered, forgiven, faults >>
batchVars == << pendingGen, seq, firing, flushes, stopped, covered >>

NoClaim == [state |-> "none", token |-> NoDelivery, old |-> FALSE]
Terminal == [NoClaim EXCEPT !.state = "processed"]
Resting == [pc |-> "idle", msg |-> CHOOSE m \in Messages : TRUE]

InboundInit ==
    /\ dedup = [m \in Messages |-> NoClaim]
    /\ copies = [m \in Messages |-> 0] /\ issues = [m \in Messages |-> 0]
    /\ accepted = {} /\ delivery = [d \in Deliveries |-> Resting]
    /\ pendingGen = 0 /\ seq = 0 /\ firing = {} /\ flushes = 0 /\ stopped = FALSE
    /\ covered = {} /\ forgiven = {} /\ faults = 0

Fault == faults < MaxFaults /\ faults' = faults + 1
In(d, pc) == delivery[d].pc = pc
Msg(d) == delivery[d].msg
Step(d, pc) == delivery' = [delivery EXCEPT ![d].pc = pc]
Ends(d) == delivery' = [delivery EXCEPT ![d] = Resting]

\* Handle returns nil, and the adapter acknowledges; or an error.
Acknowledged(d) == Ends(d) /\ accepted' = accepted \cup {Msg(d)}
Failed(d) == Ends(d) /\ UNCHANGED accepted

-----------------------------------------------------------------------------
(* Dedup.                                                                     *)

\* Redelivery after the acknowledgement is a fault of the platform's.
Deliver(d, m) ==
    /\ In(d, "idle") /\ ~stopped
    /\ IF m \in accepted THEN Fault ELSE UNCHANGED faults
    /\ delivery' = [delivery EXCEPT ![d] = [pc |-> "claim", msg |-> m]]
    /\ UNCHANGED << dedup, copies, issues, accepted, batchVars, forgiven >>

Takeable(m) == dedup[m].state = "none" \/ (dedup[m].state = "inflight" /\ dedup[m].old)
\* ClaimChannelInboundDedup: fresh, reclaimed when stale, or a duplicate, which
\* is dropped and acknowledged.
ClaimDedup(d) ==
    /\ In(d, "claim")
    /\ IF Takeable(Msg(d))
       THEN /\ dedup' = [dedup EXCEPT ![Msg(d)] = [state |-> "inflight", token |-> d,
                                                   old |-> FALSE]]
            /\ Step(d, "process") /\ UNCHANGED accepted
       ELSE Acknowledged(d) /\ UNCHANGED dedup
    /\ UNCHANGED << copies, issues, batchVars, forgiven, faults >>

ClaimAges(m) ==
    /\ dedup[m].state = "inflight" /\ ~dedup[m].old
    /\ dedup' = [dedup EXCEPT ![m].old = TRUE]
    /\ UNCHANGED << copies, issues, accepted, delivery, batchVars, forgiven, faults >>

HoldsClaim(d) == dedup[Msg(d)].state = "inflight" /\ dedup[Msg(d)].token = d

\* applyFinalize after an error before the durable write: the fenced Release,
\* best effort: it may fail as well.
ReleaseClaim(d) ==
    /\ In(d, "release") /\ Failed(d)
    /\ \/ HoldsClaim(d) /\ dedup' = [dedup EXCEPT ![Msg(d)] = NoClaim]
       \/ UNCHANGED dedup
    /\ UNCHANGED << copies, issues, batchVars, forgiven, faults >>

\* ... after a product drop, which is acknowledged: the fenced Mark.
MarkDropped(d) ==
    /\ In(d, "mark") /\ Acknowledged(d)
    /\ \/ HoldsClaim(d) /\ dedup' = [dedup EXCEPT ![Msg(d)] = Terminal]
       \/ UNCHANGED dedup
    /\ UNCHANGED << copies, issues, batchVars, forgiven, faults >>

-----------------------------------------------------------------------------
(* processClaimed.                                                            *)

\* Filter, identity and EnsureSession: dropped, an infrastructure error, or on.
Process(d) ==
    /\ In(d, "process")
    /\ \/ Step(d, "append") /\ UNCHANGED faults
       \/ (Step(d, "mark") \/ Step(d, "release")) /\ Fault
    /\ UNCHANGED << dedup, copies, issues, accepted, batchVars, forgiven >>

\* The insert and the Mark, in one transaction.
Appended(m) ==
    /\ copies' = [copies EXCEPT ![m] = @ + 1]
    /\ dedup' = [dedup EXCEPT ![m] = Terminal]

UnfencedMark(d) == TRUE  \* mutant: rows = 0 does not roll the append back
Fenced(d) == HoldsClaim(d)
\* AppendUserMessage's transaction; when its Commit reports an error it may
\* have happened, and the Release that follows is fenced on processed_at.
AppendUserMessage(d) ==
    /\ In(d, "append")
    /\ \/ /\ Fenced(d) /\ UNCHANGED faults
          /\ Appended(Msg(d))
          /\ Step(d, "appended") /\ UNCHANGED << accepted, forgiven >>
       \/ /\ Fenced(d) /\ Fault
          /\ Appended(Msg(d))
          /\ Step(d, "release") /\ forgiven' = forgiven \cup {Msg(d)} /\ UNCHANGED accepted
       \/ /\ Fault /\ Step(d, "release") /\ UNCHANGED << copies, dedup, accepted, forgiven >>
       \/ /\ ~Fenced(d) /\ Acknowledged(d)  \* ErrClaimLost, a duplicate
          /\ UNCHANGED << copies, dedup, forgiven, faults >>
    /\ UNCHANGED << issues, batchVars >>

\* /issue: createIssue may fail, with the message durable.
CreateIssue(d) ==
    /\ In(d, "appended") /\ Msg(d) \in Commands
    /\ \/ issues' = [issues EXCEPT ![Msg(d)] = @ + 1] /\ Acknowledged(d) /\ UNCHANGED faults
       \/ Failed(d) /\ Fault /\ UNCHANGED issues
    /\ UNCHANGED << dedup, copies, batchVars, forgiven >>

-----------------------------------------------------------------------------
(* The batcher.                                                               *)

\* Schedule: rearms the window; a timer that has fired already is not stopped.
Schedule(d) ==
    /\ In(d, "appended") /\ Msg(d) \notin Commands /\ Acknowledged(d)
    /\ IF stopped THEN flushes' = flushes + 1 /\ UNCHANGED << pendingGen, seq >>
                  ELSE seq' = seq + 1 /\ pendingGen' = seq + 1 /\ UNCHANGED flushes
    /\ UNCHANGED << dedup, copies, issues, firing, stopped, covered, forgiven, faults >>

\* The window is over; the callback runs when it gets the lock.
TimerFires ==
    /\ pendingGen # 0 /\ pendingGen \notin firing /\ firing' = firing \cup {pendingGen}
    /\ UNCHANGED << dedup, copies, issues, accepted, delivery, pendingGen, seq, flushes, stopped,
                    covered, forgiven, faults >>

\* The messages a run enqueued now would read.
Durable == {m \in Messages : copies[m] > 0} \ Commands

DropAnyEntry(g) ==  \* mutant: the entry goes before its generation is compared
    /\ g \in firing /\ firing' = firing \ {g} /\ pendingGen' = 0
    /\ flushes' = flushes + (IF pendingGen = g THEN 1 ELSE 0)
\* onFire: the live generation's entry is deleted first.
Fire(g) ==
    /\ g \in firing /\ firing' = firing \ {g}
    /\ IF pendingGen = g /\ ~stopped THEN pendingGen' = 0 /\ flushes' = flushes + 1
                                      ELSE UNCHANGED << pendingGen, flushes >>
OnFire(g) ==
    /\ Fire(g)
    /\ UNCHANGED << dedup, copies, issues, accepted, delivery, seq, stopped, covered, forgiven,
                    faults >>

\* flushChatRun enqueues one chat task, which reads the whole session.
FlushChatRun ==
    /\ flushes > 0 /\ flushes' = flushes - 1
    /\ \/ covered' = covered \cup Durable /\ UNCHANGED << forgiven, faults >>
       \/ Fault /\ forgiven' = forgiven \cup (Durable \ covered) /\ UNCHANGED covered
    /\ UNCHANGED << dedup, copies, issues, accepted, delivery, pendingGen, seq, firing, stopped >>

\* Drain, once inbound delivery has stopped; a late delivery may still run.
FlushAll ==
    /\ ~stopped /\ stopped' = TRUE
    /\ pendingGen' = 0 /\ flushes' = flushes + (IF pendingGen # 0 THEN 1 ELSE 0)
    /\ UNCHANGED << dedup, copies, issues, accepted, delivery, seq, firing, covered, forgiven,
                    faults >>

\* The process ends, drained or killed, and another takes over.
Drained == stopped /\ flushes = 0 /\ \A d \in Deliveries : In(d, "idle")
ServerRestarts ==
    /\ IF Drained THEN UNCHANGED faults ELSE Fault
    /\ delivery' = [d \in Deliveries |-> Resting]
    /\ dedup' = [m \in Messages |-> [dedup[m] EXCEPT !.token = NoDelivery]]
    /\ pendingGen' = 0 /\ seq' = 0 /\ firing' = {} /\ flushes' = 0 /\ stopped' = FALSE
    /\ forgiven' = IF Drained THEN forgiven ELSE forgiven \cup (Durable \ covered)
    /\ UNCHANGED << copies, issues, accepted, covered >>

DeliveryStep(d) ==
    \/ ClaimDedup(d) \/ Process(d) \/ AppendUserMessage(d) \/ CreateIssue(d) \/ Schedule(d)
    \/ ReleaseClaim(d) \/ MarkDropped(d)

InboundNext ==
    \/ \E d \in Deliveries : DeliveryStep(d) \/ \E m \in Messages : Deliver(d, m)
    \/ \E m \in Messages : ClaimAges(m)
    \/ TimerFires \/ \E g \in firing : OnFire(g)
    \/ FlushChatRun \/ FlushAll \/ ServerRestarts

InboundSpec == InboundInit /\ [][InboundNext]_inboundVars

-----------------------------------------------------------------------------
(* Properties.                                                                *)

\* Every variable has its type.
InboundTypeOK ==
    /\ dedup \in [Messages -> [state : {"none", "inflight", "processed"},
                               token : Deliveries \cup {NoDelivery}, old : BOOLEAN]]
    /\ copies \in [Messages -> Nat] /\ issues \in [Messages -> Nat]
    /\ accepted \subseteq Messages
    /\ delivery \in [Deliveries -> [pc : {"idle", "claim", "process", "append", "appended",
                                          "release", "mark"}, msg : Messages]]
    /\ pendingGen \in Nat /\ seq \in Nat /\ firing \subseteq Nat /\ flushes \in Nat
    /\ stopped \in BOOLEAN /\ covered \subseteq Messages /\ forgiven \subseteq Messages
    /\ faults \in Nat

\* "No second chat_message lands", nor a second issue, however often a message
\* is delivered, reclaimed from a slow worker or retried after an error.
HandledOnce == \A m \in Messages : copies[m] <= 1 /\ issues[m] <= copies[m]

\* A durable chat message has a run that reads it, or one on its way, unless a
\* crash or a failed enqueue took its trigger: the debouncer loses none.
RunFollows ==
    \A m \in Durable : m \in covered \cup forgiven \/ pendingGen # 0 \/ flushes > 0
                       \/ \E d \in Deliveries : In(d, "appended") /\ Msg(d) = m
=============================================================================
