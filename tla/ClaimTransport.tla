--------------------------- MODULE ClaimTransport ---------------------------
(***************************************************************************)
(* How the daemon's poller carries a claim to the server, wsrpc.go and      *)
(* wakeup.go: over the WebSocket while it is up and the server behind it    *)
(* understands RPCs, else over HTTP.  A claim whose frame was sent and not  *)
(* answered may still commit; claiming over HTTP meanwhile would claim more *)
(* tasks than the daemon has slots.                                         *)
(*                                                                         *)
(* Time is a clock.  The server runs a claim within a budget counted from   *)
(* its arrival (handleRPCFrame of daemonws/hub.go); the caller waits for    *)
(* the budget and a grace.  Nothing bounds how long a sent frame takes: its *)
(* write may block for ten seconds, several times the grace.  The legacy    *)
(* per-runtime claim is left out.                                           *)
(***************************************************************************)
EXTENDS Integers

CONSTANTS Budget,      \* batchClaimRequestTimeout
          Grace,       \* wsRPCResponseGrace
          MaxClock, MaxCalls, MaxLinks  \* bounds

ASSUME TransportAssumption ==
    /\ Budget \in Nat /\ Grace \in Nat \ {0}
    /\ MaxClock \in Nat /\ MaxCalls \in Nat /\ MaxLinks \in Nat

VARIABLES
    elapsed,
    link,        \* [pc, capable: the server behind this connection knows RPCs]
    rpc,         \* wsRPCClient: [generation, attached, supported]
    acks,        \* generations whose connection read an ack that advertises RPCs
    calls,       \* claims tried so far
    frame,       \* call -> its WebSocket frame: [state, sent, at]
    caller,      \* ClaimTasksWSFirst: [pc, generation it registered under, since, closed]
    retryAfter   \* wsClaimHTTPFallbackAfter; -1 when unset

linkVars == << link, rpc, acks >>
transportVars == << elapsed, linkVars, calls, frame, caller, retryAfter >>

NoFrame == [state |-> "none", sent |-> FALSE, at |-> 0]
IdleCaller == [pc |-> "idle", generation |-> 0, since |-> 0, closed |-> FALSE]

TransportInit ==
    /\ elapsed = 0
    /\ link = [pc |-> "down", capable |-> FALSE]
    /\ rpc = [generation |-> 0, attached |-> FALSE, supported |-> FALSE] /\ acks = {}
    /\ calls = 0 /\ frame = [n \in 1 .. MaxCalls |-> NoFrame]
    /\ caller = IdleCaller /\ retryAfter = -1

CallerAt(pc) == caller.pc = pc
FrameIs(n, s) == frame[n].state = s
\* Its time: since when it runs, or is an orphan, a sent frame nobody waits for.
FrameBecomes(n, s) ==
    frame' = [frame EXCEPT ![n].state = s,
                           ![n].at = IF s \in {"running", "orphan"} THEN elapsed ELSE 0]
\* An orphan that is still under way when the grace is over.
Late(n) == FrameIs(n, "orphan") /\ elapsed >= frame[n].at + Grace

-----------------------------------------------------------------------------
(* The connection.                                                            *)

\* runTaskWakeupConnection, up to attach; whichever server answers.
Connect ==
    /\ link.pc = "down" /\ rpc.generation < 2 * MaxLinks
    /\ link' \in [pc : {"up"}, capable : BOOLEAN]
    /\ rpc' = [generation |-> rpc.generation + 1, attached |-> TRUE, supported |-> FALSE]
    /\ UNCHANGED << elapsed, acks, calls, frame, caller, retryAfter >>

\* The reader sees a heartbeat ack and will mark its own connection.
ReadAck ==
    /\ link.pc = "up" /\ link.capable /\ acks' = acks \cup {rpc.generation}
    /\ UNCHANGED << elapsed, link, rpc, calls, frame, caller, retryAfter >>

MarkAny(g) ==  \* mutant: marks whatever connection is attached by now
    /\ g \in acks /\ acks' = acks \ {g}
    /\ rpc' = [rpc EXCEPT !.supported = rpc.attached]
    /\ UNCHANGED << elapsed, link, calls, frame, caller, retryAfter >>
\* markRPCV1Supported.
MarkSupported(g) ==
    /\ g \in acks /\ acks' = acks \ {g}
    /\ rpc' = [rpc EXCEPT !.supported = @ \/ (rpc.attached /\ rpc.generation = g)]
    /\ UNCHANGED << elapsed, link, calls, frame, caller, retryAfter >>

\* The connection breaks, or the teardown closes it first of all.
CloseSocket ==
    /\ link.pc = "up" /\ link' = [link EXCEPT !.pc = "closed"]
    /\ UNCHANGED << elapsed, rpc, acks, calls, frame, caller, retryAfter >>

\* attach(nil): every pending call is woken.
Detach ==
    /\ link.pc = "closed" /\ link' = [link EXCEPT !.pc = "detached"]
    /\ rpc' = [generation |-> rpc.generation + 1, attached |-> FALSE, supported |-> FALSE]
    /\ caller' = IF CallerAt("register") \/ CallerAt("wait")
                 THEN [caller EXCEPT !.closed = TRUE] ELSE caller
    /\ UNCHANGED << elapsed, acks, calls, frame, retryAfter >>

\* Senders are refused from here on, and the writer has drained its queue.
TornDown ==
    /\ link.pc = "detached" /\ link' = [link EXCEPT !.pc = "down"]
    /\ \A n \in 1 .. calls : ~FrameIs(n, "queued")
    /\ UNCHANGED << elapsed, rpc, acks, calls, frame, caller, retryAfter >>

-----------------------------------------------------------------------------
(* A frame, from the write queue to the server.                               *)

\* beginWrite; on a closed socket the write fails, though the frame counts as sent.
BeginWrite(n) ==
    /\ FrameIs(n, "queued")
    /\ frame' = [frame EXCEPT ![n] = [state |-> IF link.pc = "up" THEN "sent" ELSE "over",
                                      sent |-> TRUE, at |-> 0]]
    /\ UNCHANGED << elapsed, linkVars, calls, caller, retryAfter >>

\* After a failed write the rest of the queue is discarded.
Discard(n) ==
    /\ FrameIs(n, "queued") /\ link.pc # "up" /\ FrameBecomes(n, "over")
    /\ UNCHANGED << elapsed, linkVars, calls, caller, retryAfter >>

\* A server that knows RPCs starts the claim, after any delay; the frame may be
\* lost, or its write fail, and an older server ignores it.
Receive(n) ==
    /\ FrameIs(n, "sent") \/ FrameIs(n, "orphan")
    /\ \/ ~Late(n) /\ FrameBecomes(n, "running")
       \/ Late(n) /\ FrameBecomes(n, "late")
       \/ FrameBecomes(n, "over")
    /\ UNCHANGED << elapsed, linkVars, calls, caller, retryAfter >>

\* The claim commits, or is refused or rolled back; the budget ends it at the latest.
Serve(n) ==
    /\ FrameIs(n, "running") \/ FrameIs(n, "late")
    /\ FrameBecomes(n, "committed") \/ FrameBecomes(n, "refused")
    /\ UNCHANGED << elapsed, linkVars, calls, caller, retryAfter >>

\* Time passes, but no claim runs beyond its budget.
Tick ==
    /\ elapsed < MaxClock /\ elapsed' = elapsed + 1
    /\ \A n \in 1 .. calls : FrameIs(n, "running") => elapsed < frame[n].at + Budget
    /\ UNCHANGED << linkVars, calls, frame, caller, retryAfter >>

-----------------------------------------------------------------------------
(* ClaimTasksWSFirst.  Inside the safety window it returns without a claim.   *)

WindowOver == retryAfter # -1 /\ elapsed >= retryAfter

\* Over the WebSocket: the call is registered with the sender it will use,
StartCall ==
    /\ CallerAt("idle") /\ calls < MaxCalls /\ retryAfter = -1
    /\ rpc.attached /\ rpc.supported
    /\ calls' = calls + 1
    /\ caller' = [pc |-> "register", generation |-> rpc.generation, since |-> 0, closed |-> FALSE]
    /\ UNCHANGED << elapsed, linkVars, frame, retryAfter >>

\* and the frame is queued, unless that connection takes no more or its queue is full.
Send ==
    /\ CallerAt("register")
    /\ \/ /\ link.pc # "down" /\ caller.generation \in {rpc.generation, rpc.generation - 1}
          /\ frame' = [frame EXCEPT ![calls].state = "queued"]
          /\ caller' = [caller EXCEPT !.pc = "wait", !.generation = 0, !.since = elapsed]
       \/ caller' = [IdleCaller EXCEPT !.pc = "fallback"] /\ UNCHANGED frame
    /\ UNCHANGED << elapsed, linkVars, calls, retryAfter >>

\* The answer arrives in time, with the tasks or with an error.
Answered ==
    /\ CallerAt("wait") /\ ~caller.closed /\ link.pc = "up"
    /\ \/ FrameIs(calls, "committed") /\ caller' = IdleCaller
       \/ FrameIs(calls, "refused") /\ caller' = [IdleCaller EXCEPT !.pc = "fallback"]
    /\ UNCHANGED << elapsed, linkVars, calls, frame, retryAfter >>

GaveUp == caller.closed \/ elapsed >= caller.since + Budget + Grace

GiveUpAtOnce ==  \* mutant: a sent frame is not waited for
    /\ CallerAt("wait") /\ GaveUp /\ caller' = [IdleCaller EXCEPT !.pc = "fallback"]
    /\ IF frame[calls].sent THEN UNCHANGED frame ELSE FrameBecomes(calls, "over")
    /\ UNCHANGED << elapsed, linkVars, calls, retryAfter >>
\* giveUp: a frame that is not sent yet is cancelled, any other may still commit.
GiveUp ==
    /\ CallerAt("wait") /\ GaveUp
    /\ \/ /\ ~frame[calls].sent /\ FrameBecomes(calls, "over")
          /\ caller' = [IdleCaller EXCEPT !.pc = "fallback"] /\ UNCHANGED retryAfter
       \/ /\ frame[calls].sent /\ retryAfter' = elapsed + Budget + Grace
          /\ IF FrameIs(calls, "sent") THEN FrameBecomes(calls, "orphan") ELSE UNCHANGED frame
          /\ caller' = IdleCaller
    /\ UNCHANGED << elapsed, linkVars, calls >>

\* Over HTTP: no WebSocket, the window is over, or the call certainly did nothing.
ClaimHTTP ==
    /\ \/ CallerAt("fallback") /\ UNCHANGED calls
       \/ /\ CallerAt("idle") /\ calls < MaxCalls /\ calls' = calls + 1
          /\ WindowOver \/ (retryAfter = -1 /\ ~(rpc.attached /\ rpc.supported))
    /\ retryAfter' = -1
    /\ caller' = [IdleCaller EXCEPT !.pc = "http"]
    /\ UNCHANGED << elapsed, linkVars, frame >>

HTTPReturns ==
    /\ CallerAt("http") /\ caller' = IdleCaller
    /\ UNCHANGED << elapsed, linkVars, calls, frame, retryAfter >>

TransportNext ==
    \/ Connect \/ ReadAck \/ CloseSocket \/ Detach \/ TornDown \/ Tick
    \/ \E g \in acks : MarkSupported(g)
    \/ \E n \in 1 .. calls : BeginWrite(n) \/ Discard(n) \/ Receive(n) \/ Serve(n)
    \/ StartCall \/ Send \/ Answered \/ GiveUp \/ ClaimHTTP \/ HTTPReturns

TransportSpec == TransportInit /\ [][TransportNext]_transportVars

-----------------------------------------------------------------------------
(* Properties.                                                                *)

\* Every variable has its type.
TransportTypeOK ==
    /\ elapsed \in Nat /\ calls \in 0 .. MaxCalls
    /\ link \in [pc : {"down", "up", "closed", "detached"}, capable : BOOLEAN]
    /\ rpc \in [generation : Nat, attached : BOOLEAN, supported : BOOLEAN]
    /\ acks \subseteq Nat
    /\ frame \in [1 .. MaxCalls -> [state : {"none", "queued", "sent", "orphan", "running", "late",
                                              "committed", "refused", "over"},
                                    sent : BOOLEAN, at : Nat]]
    /\ caller \in [pc : {"idle", "register", "wait", "fallback", "http"}, generation : Nat,
                   since : Nat, closed : BOOLEAN]
    /\ retryAfter \in Int

\* While a claim sent over the WebSocket may still reach or commit on the server,
\* no other claim is made, over HTTP or the next connection ("that risks a double
\* claim"): neither a full queue, a disconnect nor a late answer can cause one.
\* Only a frame that is under way for the grace after its caller gave up is not
\* covered by the window: a write that blocks, or the network, may hold one longer.
Alive(n) == frame[n].state \in {"queued", "sent", "orphan", "running"} /\ ~Late(n)
OneClaimAlive ==
    \A n \in 1 .. MaxCalls : Alive(n) => n = calls /\ ~CallerAt("fallback") /\ ~CallerAt("http")

\* A connection is used for claims only if its own server advertised RPCs, though
\* the ack of an earlier connection may be handled after it.
RightServer == rpc.supported /\ link.pc = "up" => link.capable
=============================================================================
