------------------------ MODULE ClaimTransportProofs ------------------------
(***************************************************************************)
(* Proofs about ClaimTransport, for any budget, grace and number of calls,  *)
(* and whatever time a frame takes.                                         *)
(***************************************************************************)
EXTENDS ClaimTransport, TLAPS

CallNumbers == 1 .. MaxCalls
FrameType == [state : {"none", "queued", "sent", "orphan", "running", "late", "committed",
                       "refused", "over"},
              sent : BOOLEAN, at : Nat]

\* An ack is read on a connection no newer than the present one, and that of the
\* present one comes from a server that knows RPCs.
AckOrigin ==
    /\ \A g \in acks : g <= rpc.generation
    /\ rpc.generation \in acks /\ link.pc = "up" => link.capable

\* A claim runs for Budget at most.
OnTime(n) ==
    /\ FrameIs(n, "running") => elapsed <= frame[n].at + Budget
    /\ FrameIs(n, "queued") => ~frame[n].sent
    /\ frame[n].at <= elapsed

\* A claim that is alive is the one waited for, or was given up on; the window
\* ends after the grace of an orphan and the run that may follow, or after its run.
Windowed(n) ==
    /\ retryAfter # -1 /\ ~FrameIs(n, "queued") /\ ~FrameIs(n, "sent")
    /\ FrameIs(n, "orphan") => frame[n].at + Grace + Budget <= retryAfter
    /\ FrameIs(n, "running") => frame[n].at + Budget < retryAfter
Covered(n) ==
    Alive(n) =>
        /\ n = calls /\ (CallerAt("wait") \/ CallerAt("idle"))
        /\ CallerAt("idle") => Windowed(n)
        /\ CallerAt("wait") => ~FrameIs(n, "orphan")

\* A call that waits, or registers, has its frame; a registering one has none yet.
HasCall ==
    /\ CallerAt("wait") \/ CallerAt("register") => calls \in CallNumbers
    /\ \A n \in CallNumbers : n > calls => frame[n] = NoFrame
    /\ CallerAt("register") => frame[calls] = NoFrame

IInv ==
    /\ TransportTypeOK /\ RightServer /\ AckOrigin /\ HasCall
    /\ \A n \in CallNumbers : OnTime(n) /\ Covered(n)

-----------------------------------------------------------------------------

LEMMA InitHolds == TransportInit => IInv
<1> SUFFICES ASSUME TransportInit PROVE IInv OBVIOUS
<1>1. TransportTypeOK
  BY TransportAssumption DEF TransportInit, TransportTypeOK, NoFrame, IdleCaller
<1>2. RightServer /\ AckOrigin /\ HasCall
  BY DEF TransportInit, RightServer, AckOrigin, HasCall, CallNumbers, CallerAt, IdleCaller
<1>3. \A n \in CallNumbers : OnTime(n) /\ Covered(n)
  BY DEF TransportInit, OnTime, Covered, Alive, FrameIs, CallNumbers, NoFrame
<1> QED BY <1>1, <1>2, <1>3 DEF IInv

\* Steps of the connection: frames and callers stay, but for the wake-up of a wait.
LEMMA LinkSteps ==
  ASSUME IInv, \/ Connect \/ ReadAck \/ CloseSocket \/ Detach \/ TornDown
               \/ \E g \in acks : MarkSupported(g)
  PROVE  IInv'
<1>1. TransportTypeOK /\ UNCHANGED << elapsed, calls, frame, retryAfter >>
  BY DEF IInv, Connect, ReadAck, CloseSocket, Detach, TornDown, MarkSupported
<1>2. /\ link' \in [pc : {"down", "up", "closed", "detached"}, capable : BOOLEAN]
      /\ rpc' \in [generation : Nat, attached : BOOLEAN, supported : BOOLEAN]
      /\ acks' \subseteq Nat
  <2> USE <1>1 DEF TransportTypeOK
  <2>1. CASE Connect \/ ReadAck
    <3>1. CASE Connect
      <4>1. link' \in [pc : {"down", "up", "closed", "detached"}, capable : BOOLEAN]
        BY <3>1 DEF Connect
      <4>2. rpc' \in [generation : Nat, attached : BOOLEAN, supported : BOOLEAN] /\ acks' = acks
        BY <3>1 DEF Connect
      <4> QED BY <4>1, <4>2
    <3>2. CASE ReadAck
      BY <3>2 DEF ReadAck
    <3> QED BY <2>1, <3>1, <3>2
  <2>3. CASE CloseSocket \/ TornDown
    BY <2>3 DEF CloseSocket, TornDown
  <2>4. CASE Detach
    BY <2>4 DEF Detach
  <2>2. ASSUME NEW g \in acks, MarkSupported(g)
        PROVE  link' \in [pc : {"down", "up", "closed", "detached"}, capable : BOOLEAN]
               /\ rpc' \in [generation : Nat, attached : BOOLEAN, supported : BOOLEAN]
               /\ acks' \subseteq Nat
    BY <2>2 DEF MarkSupported
  <2> QED BY <2>1, <2>2, <2>3, <2>4
<1>3. /\ caller' \in [pc : {"idle", "register", "wait", "fallback", "http"}, generation : Nat,
                      since : Nat, closed : BOOLEAN]
      /\ caller'.pc = caller.pc
  <2>1. CASE UNCHANGED caller
    BY <1>1, <2>1 DEF TransportTypeOK
  <2>2. CASE caller' = [caller EXCEPT !.closed = TRUE]
    BY <1>1, <2>2 DEF TransportTypeOK
  <2> QED BY <2>1, <2>2 DEF Connect, ReadAck, CloseSocket, Detach, TornDown, MarkSupported
<1>4. TransportTypeOK'
  BY <1>1, <1>2, <1>3 DEF TransportTypeOK
<1>5. RightServer' /\ AckOrigin'
  <2> USE <1>1 DEF IInv, TransportTypeOK, RightServer, AckOrigin
  <2>1. CASE Connect
    BY <2>1 DEF Connect
  <2>2. CASE ReadAck
    BY <2>2 DEF ReadAck
  <2>3. CASE CloseSocket
    BY <2>3 DEF CloseSocket
  <2>4. CASE Detach
    BY <2>4 DEF Detach
  <2>5. CASE TornDown
    BY <2>5 DEF TornDown
  <2>6. ASSUME NEW g \in acks, MarkSupported(g)
        PROVE  RightServer' /\ AckOrigin'
    BY <2>6 DEF MarkSupported
  <2> QED BY <2>1, <2>2, <2>3, <2>4, <2>5, <2>6
<1>6. HasCall' /\ \A n \in CallNumbers : OnTime(n)' /\ Covered(n)'
  BY <1>1, <1>3 DEF IInv, HasCall, OnTime, Covered, Windowed, Alive, Late, FrameIs, CallerAt
<1> QED BY <1>4, <1>5, <1>6 DEF IInv

-----------------------------------------------------------------------------
(* The frame of one call moves.                                               *)

LEMMA FrameMoves ==
  ASSUME IInv, NEW n \in 1 .. calls, NEW x \in FrameType, frame' = [frame EXCEPT ![n] = x],
         frame[n].state # "none",
         UNCHANGED << elapsed, linkVars, calls, caller, retryAfter >>,
         x.state \notin {"queued", "orphan"}, x.at <= elapsed,
         x.state = "running" => elapsed <= x.at + Budget,
         x.state \in {"sent", "running"} =>
             /\ n = calls /\ (CallerAt("wait") \/ CallerAt("idle"))
             /\ CallerAt("idle") =>
                   /\ retryAfter # -1 /\ x.state # "sent"
                   /\ x.at + Budget < retryAfter
  PROVE  IInv'
<1>1. TransportTypeOK /\ n \in CallNumbers /\ calls \in 0 .. MaxCalls
  BY TransportAssumption DEF IInv, TransportTypeOK, CallNumbers
<1>2. /\ frame' \in [CallNumbers -> FrameType] /\ frame'[n] = x
      /\ \A k \in CallNumbers \ {n} : frame'[k] = frame[k]
  BY <1>1 DEF TransportTypeOK, CallNumbers, FrameType
<1>3. TransportTypeOK'
  BY <1>1, <1>2 DEF TransportTypeOK, CallNumbers, FrameType, linkVars
<1>4. RightServer' /\ AckOrigin'
  BY DEF IInv, RightServer, AckOrigin, linkVars
<1>5. HasCall'
  <2>1. \A k \in CallNumbers : k > calls => k # n /\ frame[k] = NoFrame
    BY <1>1 DEF IInv, HasCall, CallNumbers
  <2>2. CallerAt("register") => calls # n /\ calls \in CallNumbers /\ frame[calls] = NoFrame
    BY DEF IInv, HasCall, NoFrame
  <2> QED BY <1>2, <2>1, <2>2 DEF IInv, HasCall, CallerAt
<1>6. ASSUME NEW k \in CallNumbers
      PROVE  OnTime(k)' /\ Covered(k)'
  <2>1. CASE k = n
    BY <1>2, <2>1 DEF OnTime, Covered, Windowed, Alive, Late, FrameIs, CallerAt
  <2>2. CASE k # n
    BY <1>2, <2>2 DEF IInv, OnTime, Covered, Windowed, Alive, Late, FrameIs, CallerAt
  <2> QED BY <2>1, <2>2
<1> QED BY <1>3, <1>4, <1>5, <1>6 DEF IInv

LEMMA FrameSteps ==
  ASSUME IInv, NEW n \in 1 .. calls, BeginWrite(n) \/ Discard(n) \/ Receive(n) \/ Serve(n)
  PROVE  IInv'
<1>1. TransportTypeOK /\ n \in CallNumbers /\ frame[n] \in FrameType /\ elapsed \in Nat
      /\ retryAfter \in Int /\ OnTime(n) /\ Covered(n)
  BY TransportAssumption DEF IInv, TransportTypeOK, CallNumbers, FrameType
<1>2. UNCHANGED << elapsed, linkVars, calls, caller, retryAfter >>
  BY DEF BeginWrite, Discard, Receive, Serve
<1>3. CASE BeginWrite(n)
  <2>1. PICK x \in FrameType : /\ frame' = [frame EXCEPT ![n] = x]
                               /\ x.state \in {"over", "sent"} /\ x.at = 0
    <3> DEFINE s == IF link.pc = "up" THEN "sent" ELSE "over"
               x == [state |-> s, sent |-> TRUE, at |-> 0]
    <3>1. s \in {"over", "sent"}
      OBVIOUS
    <3>2. frame' = [frame EXCEPT ![n] = x]
      BY <1>3 DEF BeginWrite
    <3> HIDE DEF s
    <3>3. x \in FrameType /\ x.state \in {"over", "sent"} /\ x.at = 0
      BY <3>1 DEF FrameType
    <3> HIDE DEF x
    <3> QED BY <3>2, <3>3
  <2>2. FrameIs(n, "queued")
    BY <1>3 DEF BeginWrite
  <2>3. n = calls /\ CallerAt("wait") /\ ~CallerAt("idle")
    BY <1>1, <2>2 DEF Covered, Windowed, Alive, Late, FrameIs, CallerAt
  <2>4. frame[n].state # "none" /\ x.state \notin {"queued", "orphan", "running"} /\ x.at <= elapsed
    BY <1>1, <2>1, <2>2 DEF FrameIs
  <2> QED BY <1>2, <2>1, <2>3, <2>4, FrameMoves
<1>4. CASE \/ Discard(n) \/ Serve(n)
           \/ Receive(n) /\ (FrameBecomes(n, "over") \/ FrameBecomes(n, "late"))
  <2>1. PICK s \in {"over", "committed", "refused", "late"} : FrameBecomes(n, s)
    BY <1>4 DEF Discard, Serve
  <2> DEFINE x == [frame[n] EXCEPT !.state = s, !.at = 0]
  <2>2. x \in FrameType /\ x.state = s /\ x.at <= elapsed
    <3>1. x \in FrameType /\ x.state = s /\ x.at = 0
      BY <1>1, <2>1 DEF FrameType
    <3> HIDE DEF x
    <3> QED BY <1>1, <3>1
  <2>3. frame' = [frame EXCEPT ![n] = x]
    BY <1>1, <2>1 DEF FrameBecomes, TransportTypeOK, CallNumbers
  <2>4. frame[n].state # "none"
    BY <1>4 DEF Discard, Serve, Receive, FrameIs
  <2>5. s \notin {"queued", "sent", "orphan", "running"}
    BY <2>1
  <2> HIDE DEF x
  <2> QED BY <1>2, <2>2, <2>3, <2>4, <2>5, FrameMoves
<1>5. CASE Receive(n) /\ ~Late(n) /\ FrameBecomes(n, "running")
  <2> DEFINE x == [frame[n] EXCEPT !.state = "running", !.at = elapsed]
  <2>1. x \in FrameType /\ x.state = "running" /\ x.at = elapsed
    BY <1>1 DEF FrameType
  <2>2. frame' = [frame EXCEPT ![n] = x]
    BY <1>1, <1>5 DEF FrameBecomes, TransportTypeOK, CallNumbers
  <2> HIDE DEF x
  <2>3. frame[n].state \in {"sent", "orphan"}
    BY <1>5 DEF Receive, FrameIs
  <2>4. Alive(n) /\ n = calls /\ (CallerAt("wait") \/ CallerAt("idle"))
    BY <1>1, <1>5, <2>3 DEF Covered, Alive
  <2>5. CallerAt("idle") => retryAfter # -1 /\ x.at + Budget < retryAfter
    <3>1. SUFFICES ASSUME CallerAt("idle")
                   PROVE  retryAfter # -1 /\ x.at + Budget < retryAfter
      OBVIOUS
    <3>2. Windowed(n) /\ FrameIs(n, "orphan")
      BY <1>1, <2>3, <2>4, <3>1 DEF Covered, Windowed, FrameIs
    <3>3. elapsed < frame[n].at + Grace /\ frame[n].at \in Nat
      BY <1>1, <1>5, <3>2, TransportAssumption DEF Late, FrameType
    <3> QED BY <1>1, <2>1, <3>2, <3>3, TransportAssumption DEF Windowed
  <2>6. elapsed <= x.at + Budget /\ x.at <= elapsed
    BY <1>1, <2>1, TransportAssumption
  <2> QED BY <1>2, <2>1, <2>2, <2>3, <2>4, <2>5, <2>6, FrameMoves
<1>6. Receive(n) => \/ FrameBecomes(n, "over") \/ FrameBecomes(n, "late")
                    \/ ~Late(n) /\ FrameBecomes(n, "running")
  BY DEF Receive
<1> QED BY <1>3, <1>4, <1>5, <1>6

LEMMA TickStep == IInv /\ Tick => IInv'
<1> SUFFICES ASSUME IInv, Tick PROVE IInv' OBVIOUS
<1>1. TransportTypeOK /\ elapsed' = elapsed + 1 /\ UNCHANGED << linkVars, calls, frame, caller, retryAfter >>
  BY DEF IInv, Tick
<1>2. TransportTypeOK' /\ RightServer' /\ AckOrigin' /\ HasCall'
  BY <1>1 DEF IInv, TransportTypeOK, RightServer, AckOrigin, HasCall, CallerAt, linkVars
<1>3. ASSUME NEW n \in CallNumbers
      PROVE  OnTime(n)' /\ Covered(n)'
  <2>1. OnTime(n) /\ Covered(n) /\ frame[n] \in FrameType /\ elapsed \in Nat
    BY <1>1 DEF IInv, TransportTypeOK, FrameType, CallNumbers
  <2>2. Covered(n)'
    <3>1. Late(n) => Late(n)'
      BY <1>1, <2>1, TransportAssumption DEF Late, FrameIs, FrameType
    <3> QED BY <1>1, <2>1, <3>1 DEF Covered, Windowed, Alive, FrameIs, CallerAt
  <2>3. CASE n \in 1 .. calls
    BY <1>1, <2>1, <2>2, <2>3, TransportAssumption DEF OnTime, Tick, FrameIs, FrameType
  <2>4. CASE n > calls
    <3>1. frame[n] = NoFrame
      BY <2>4 DEF IInv, HasCall
    <3> QED BY <1>1, <2>1, <2>2, <3>1 DEF OnTime, FrameIs, NoFrame
  <2>5. n \in 1 .. calls \/ n > calls
    BY <1>1, TransportAssumption DEF CallNumbers, TransportTypeOK
  <2> QED BY <2>2, <2>3, <2>4, <2>5
<1> QED BY <1>2, <1>3 DEF IInv

-----------------------------------------------------------------------------
(* The caller.                                                                *)

CallerType == [pc : {"idle", "register", "wait", "fallback", "http"}, generation : Nat,
               since : Nat, closed : BOOLEAN]

LEMMA IdleCallerTypes ==
  /\ IdleCaller \in CallerType /\ IdleCaller.pc = "idle"
  /\ \A p \in {"fallback", "http"} : [IdleCaller EXCEPT !.pc = p] \in CallerType
                                    /\ [IdleCaller EXCEPT !.pc = p].pc = p
BY DEF IdleCaller, CallerType

\* The caller moves, frames stay, and no claim is alive, nor calls afterwards.
LEMMA NoneAlive ==
  ASSUME IInv, UNCHANGED << elapsed, linkVars, frame >>,
         calls' \in 0 .. MaxCalls, calls <= calls', caller' \in CallerType, retryAfter' \in Int,
         \A n \in CallNumbers : ~Alive(n),
         CallerAt("wait")' => calls' \in CallNumbers,
         CallerAt("register")' => calls' = calls + 1 /\ calls' \in CallNumbers
  PROVE  IInv'
<1>1. TransportTypeOK /\ calls \in Nat /\ \A n \in CallNumbers : n \in Nat
  BY TransportAssumption DEF IInv, TransportTypeOK, CallNumbers
<1>2. TransportTypeOK'
  BY <1>1 DEF TransportTypeOK, CallerType, linkVars
<1>3. RightServer' /\ AckOrigin'
  BY DEF IInv, RightServer, AckOrigin, linkVars
<1>4. HasCall'
  <2>1. \A n \in CallNumbers : n > calls' => frame'[n] = NoFrame
    BY <1>1, TransportAssumption DEF IInv, HasCall
  <2>2. CallerAt("register")' => frame'[calls'] = NoFrame
    BY <1>1, TransportAssumption DEF IInv, HasCall
  <2> QED BY <2>1, <2>2 DEF HasCall, CallerAt
<1>5. \A n \in CallNumbers : OnTime(n)' /\ Covered(n)'
  BY DEF IInv, OnTime, Covered, Alive, Late, FrameIs
<1> QED BY <1>2, <1>3, <1>4, <1>5 DEF IInv

\* Who may call: a caller without a window, or one whose window has outlived the claim.
LEMMA Quiet ==
  ASSUME IInv, NEW n \in CallNumbers,
         \/ CallerAt("register") \/ CallerAt("fallback") \/ CallerAt("http")
         \/ CallerAt("idle") /\ (retryAfter = -1 \/ elapsed >= retryAfter)
         \/ CallerAt("wait") /\ ~Alive(calls)
  PROVE  ~Alive(n)
<1>1. OnTime(n) /\ Covered(n) /\ HasCall /\ frame[n] \in FrameType /\ elapsed \in Nat
      /\ retryAfter \in Int
  BY DEF IInv, TransportTypeOK, FrameType, CallNumbers
<1>2. CASE CallerAt("register") \/ CallerAt("fallback") \/ CallerAt("http")
  BY <1>1, <1>2 DEF Covered, CallerAt
<1>3. CASE CallerAt("idle") /\ (retryAfter = -1 \/ elapsed >= retryAfter)
  BY <1>1, <1>3, TransportAssumption DEF Covered, Windowed, OnTime, Alive, Late, FrameIs, FrameType
<1>4. CASE CallerAt("wait") /\ ~Alive(calls)
  BY <1>1, <1>4 DEF Covered
<1> QED BY <1>2, <1>3, <1>4

LEMMA CallSteps ==
  ASSUME IInv, StartCall \/ Answered \/ ClaimHTTP \/ HTTPReturns
  PROVE  IInv'
<1>1. TransportTypeOK /\ HasCall /\ caller \in CallerType /\ calls \in 0 .. MaxCalls
      /\ retryAfter \in Int /\ elapsed \in Nat
  BY DEF IInv, TransportTypeOK, CallerType
<1>2. CASE StartCall
  <2>1. calls' = calls + 1 /\ calls' \in CallNumbers /\ calls' \in 0 .. MaxCalls
    BY <1>1, <1>2, TransportAssumption DEF StartCall, CallNumbers
  <2>2. caller' \in CallerType /\ caller'.pc = "register"
    BY <1>1, <1>2 DEF StartCall, CallerType, TransportTypeOK
  <2>3. \A n \in CallNumbers : ~Alive(n)
    BY <1>2, Quiet DEF StartCall
  <2> QED BY <1>1, <1>2, <2>1, <2>2, <2>3, NoneAlive, TransportAssumption DEF StartCall, CallerAt
<1>3. CASE Answered
  <2>1. caller' \in CallerType /\ caller'.pc \in {"idle", "fallback"}
    BY <1>3, IdleCallerTypes DEF Answered
  <2>2. CallerAt("wait") /\ ~Alive(calls)
    BY <1>3 DEF Answered, Alive, FrameIs
  <2>3. \A n \in CallNumbers : ~Alive(n)
    BY <2>2, Quiet
  <2> QED BY <1>1, <1>3, <2>1, <2>3, NoneAlive, TransportAssumption DEF Answered, CallerAt
<1>4. CASE ClaimHTTP
  <2>1. caller' \in CallerType /\ caller'.pc = "http" /\ retryAfter' = -1
    BY <1>4, IdleCallerTypes DEF ClaimHTTP
  <2>2. calls' \in 0 .. MaxCalls /\ calls <= calls'
    BY <1>1, <1>4, TransportAssumption DEF ClaimHTTP
  <2>3. \A n \in CallNumbers : ~Alive(n)
    BY <1>4, Quiet DEF ClaimHTTP, WindowOver
  <2> QED BY <1>4, <2>1, <2>2, <2>3, NoneAlive DEF ClaimHTTP, CallerAt
<1>5. CASE HTTPReturns
  <2>1. caller' \in CallerType /\ caller'.pc = "idle"
    BY <1>5, IdleCallerTypes DEF HTTPReturns
  <2>2. \A n \in CallNumbers : ~Alive(n)
    BY <1>5, Quiet DEF HTTPReturns
  <2> QED BY <1>1, <1>5, <2>1, <2>2, NoneAlive, TransportAssumption DEF HTTPReturns, CallerAt
<1> QED BY <1>2, <1>3, <1>4, <1>5

\* The call's own frame changes, or stays, and so does the caller.
LEMMA CallMoves ==
  ASSUME IInv, calls \in CallNumbers, NEW x \in FrameType, frame' = [frame EXCEPT ![calls] = x],
         UNCHANGED << elapsed, linkVars, calls >>, caller' \in CallerType, retryAfter' \in Int,
         caller'.pc # "register",
         \A n \in CallNumbers \ {calls} : ~Alive(n),
         OnTime(calls)', Covered(calls)'
  PROVE  IInv'
<1>1. TransportTypeOK
  BY DEF IInv
<1>2. /\ frame' \in [CallNumbers -> FrameType] /\ frame'[calls] = x
      /\ \A k \in CallNumbers \ {calls} : frame'[k] = frame[k]
  BY <1>1 DEF TransportTypeOK, CallNumbers, FrameType
<1>3. TransportTypeOK'
  BY <1>1, <1>2 DEF TransportTypeOK, CallNumbers, FrameType, CallerType, linkVars
<1>4. RightServer' /\ AckOrigin'
  BY DEF IInv, RightServer, AckOrigin, linkVars
<1>5. HasCall'
  <2>1. \A k \in CallNumbers : k > calls => k # calls
    BY TransportAssumption DEF CallNumbers
  <2> QED BY <1>2, <2>1 DEF IInv, HasCall, CallerAt
<1>6. ASSUME NEW k \in CallNumbers
      PROVE  OnTime(k)' /\ Covered(k)'
  <2>1. CASE k = calls
    BY <2>1
  <2>2. CASE k # calls
    BY <1>2, <2>2 DEF IInv, OnTime, Covered, Alive, Late, FrameIs
  <2> QED BY <2>1, <2>2
<1> QED BY <1>3, <1>4, <1>5, <1>6 DEF IInv

LEMMA SendStep == IInv /\ Send => IInv'
<1> SUFFICES ASSUME IInv, Send PROVE IInv' OBVIOUS
<1>1. /\ TransportTypeOK /\ CallerAt("register") /\ caller \in CallerType /\ elapsed \in Nat
      /\ retryAfter \in Int /\ calls \in 0 .. MaxCalls
  BY DEF IInv, TransportTypeOK, CallerType, Send
<1>2. calls \in CallNumbers /\ frame[calls] = NoFrame
  BY <1>1 DEF IInv, HasCall
<1>3. \A n \in CallNumbers : ~Alive(n)
  BY <1>1, Quiet
<1>4. CASE caller' = [IdleCaller EXCEPT !.pc = "fallback"] /\ UNCHANGED frame
  <2>1. caller' \in CallerType /\ caller'.pc = "fallback"
    BY <1>4, IdleCallerTypes
  <2> QED BY <1>1, <1>3, <1>4, <2>1, NoneAlive, TransportAssumption DEF Send, CallerAt
<1>5. CASE /\ frame' = [frame EXCEPT ![calls].state = "queued"]
           /\ caller' = [caller EXCEPT !.pc = "wait", !.generation = 0, !.since = elapsed]
  <2> DEFINE o == NoFrame
             x == [o EXCEPT !.state = "queued"]
  <2>1. x \in FrameType /\ x.state = "queued" /\ x.sent = FALSE /\ x.at <= elapsed
    <3>1. o \in FrameType /\ o.sent = FALSE /\ o.at = 0
      BY DEF NoFrame, FrameType
    <3> HIDE DEF o
    <3>2. x \in FrameType /\ x.state = "queued" /\ x.sent = FALSE /\ x.at = 0
      BY <3>1 DEF FrameType
    <3> HIDE DEF x
    <3> QED BY <1>1, <3>2
  <2>2. frame' = [frame EXCEPT ![calls] = x]
    BY <1>2, <1>5
  <2>3. frame'[calls] = x /\ calls' = calls
    BY <1>1, <1>2, <2>2 DEF TransportTypeOK, CallNumbers, Send
  <2>4. caller' \in CallerType /\ caller'.pc = "wait"
    BY <1>1, <1>5 DEF CallerType
  <2> HIDE DEF x
  <2>5. OnTime(calls)' /\ Covered(calls)'
    <3>1. elapsed' = elapsed
      BY DEF Send
    <3> QED BY <2>1, <2>3, <2>4, <3>1 DEF OnTime, Covered, Alive, Late, FrameIs, CallerAt
  <2> QED BY <1>1, <1>2, <1>3, <2>1, <2>2, <2>4, <2>5, CallMoves DEF Send
<1> QED BY <1>4, <1>5 DEF Send

\* A sent frame opens the window, which the grace and its run cannot outlast.
LEMMA GiveUpStep == IInv /\ GiveUp => IInv'
<1> SUFFICES ASSUME IInv, GiveUp PROVE IInv' OBVIOUS
<1>1. /\ TransportTypeOK /\ CallerAt("wait") /\ elapsed \in Nat /\ retryAfter \in Int
      /\ UNCHANGED << elapsed, linkVars, calls >>
  BY DEF IInv, TransportTypeOK, GiveUp
<1>2. calls \in CallNumbers /\ frame[calls] \in FrameType
  BY <1>1 DEF IInv, HasCall, TransportTypeOK, CallNumbers, FrameType
<1>3. OnTime(calls) /\ Covered(calls) /\ \A n \in CallNumbers \ {calls} : ~Alive(n)
  BY <1>2 DEF IInv, Covered
<1>4. CASE /\ FrameBecomes(calls, "over") /\ UNCHANGED retryAfter
           /\ caller' = [IdleCaller EXCEPT !.pc = "fallback"]
  <2> DEFINE x == [frame[calls] EXCEPT !.state = "over", !.at = 0]
  <2>1. x \in FrameType /\ x.state = "over" /\ x.at <= elapsed
    <3>1. x \in FrameType /\ x.state = "over" /\ x.at = 0
      BY <1>1, <1>2 DEF FrameType
    <3> HIDE DEF x
    <3> QED BY <1>1, <3>1
  <2>2. frame' = [frame EXCEPT ![calls] = x]
    BY <1>1, <1>2, <1>4 DEF FrameBecomes, TransportTypeOK, CallNumbers
  <2> HIDE DEF x
  <2>3. frame'[calls] = x
    BY <1>1, <1>2, <2>2 DEF TransportTypeOK, CallNumbers
  <2>4. caller' \in CallerType /\ caller'.pc = "fallback"
    BY <1>4, IdleCallerTypes
  <2>5. OnTime(calls)' /\ Covered(calls)'
    BY <1>1, <2>1, <2>3 DEF OnTime, Covered, Alive, FrameIs
  <2>6. retryAfter' \in Int
    BY <1>1, <1>4
  <2> QED BY <1>1, <1>2, <1>3, <2>1, <2>2, <2>4, <2>5, <2>6, CallMoves
<1>5. CASE /\ frame[calls].sent /\ retryAfter' = elapsed + Budget + Grace /\ caller' = IdleCaller
           /\ FrameIs(calls, "sent") /\ FrameBecomes(calls, "orphan")
  <2> DEFINE x == [frame[calls] EXCEPT !.state = "orphan", !.at = elapsed]
  <2>1. x \in FrameType /\ x.state = "orphan" /\ x.at = elapsed
    BY <1>1, <1>2 DEF FrameType
  <2>2. frame' = [frame EXCEPT ![calls] = x] /\ frame'[calls] = x
    BY <1>1, <1>2, <1>5 DEF FrameBecomes, TransportTypeOK, CallNumbers
  <2> HIDE DEF x
  <2>3. caller' \in CallerType /\ caller'.pc = "idle" /\ retryAfter' \in Int
        /\ retryAfter' # -1
    BY <1>1, <1>5, IdleCallerTypes, TransportAssumption
  <2>4. OnTime(calls)' /\ Covered(calls)'
    BY <1>1, <1>5, <2>1, <2>2, <2>3, TransportAssumption
       DEF OnTime, Covered, Windowed, Alive, FrameIs, CallerAt
  <2> QED BY <1>1, <1>2, <1>3, <2>1, <2>2, <2>3, <2>4, CallMoves
<1>6. CASE /\ frame[calls].sent /\ retryAfter' = elapsed + Budget + Grace /\ caller' = IdleCaller
           /\ ~FrameIs(calls, "sent") /\ UNCHANGED frame
  <2>1. frame' = [frame EXCEPT ![calls] = frame[calls]]
    BY <1>1, <1>2, <1>6 DEF TransportTypeOK, CallNumbers
  <2>2. caller' \in CallerType /\ caller'.pc = "idle" /\ retryAfter' \in Int
    BY <1>1, <1>6, IdleCallerTypes, TransportAssumption
  <2>3. OnTime(calls)'
    BY <1>1, <1>3, <1>6 DEF OnTime, FrameIs
  <2>4. Covered(calls)'
    <3>1. frame'[calls] = frame[calls] /\ calls' = calls /\ Late(calls)' = Late(calls)
      BY <1>1, <1>6 DEF Late, FrameIs
    <3>2. retryAfter' # -1 /\ ~FrameIs(calls, "queued") /\ ~FrameIs(calls, "sent")
      BY <1>1, <1>2, <1>3, <1>6, TransportAssumption DEF OnTime
    <3>3. frame[calls].at <= elapsed
      BY <1>3 DEF OnTime
    <3>4. frame[calls].at \in Nat /\ retryAfter' = elapsed + Budget + Grace
      BY <1>2, <1>6 DEF FrameType
    <3>5. /\ frame[calls].at + Grace + Budget <= retryAfter'
          /\ frame[calls].at + Budget < retryAfter'
      BY <1>1, <3>3, <3>4, TransportAssumption
    <3> QED BY <1>1, <2>2, <3>1, <3>2, <3>5 DEF Covered, Windowed, Alive, FrameIs, CallerAt
  <2> QED BY <1>1, <1>2, <1>3, <2>1, <2>2, <2>3, <2>4, CallMoves
<1> QED BY <1>4, <1>5, <1>6 DEF GiveUp

LEMMA Stutters == IInv /\ UNCHANGED transportVars => IInv'
BY DEF IInv, TransportTypeOK, RightServer, AckOrigin, HasCall, OnTime, Covered, Windowed, Alive,
       Late, FrameIs, CallerAt, transportVars, linkVars

LEMMA StepHolds == IInv /\ [TransportNext]_transportVars => IInv'
BY LinkSteps, FrameSteps, TickStep, CallSteps, SendStep, GiveUpStep, Stutters DEF TransportNext

-----------------------------------------------------------------------------

LEMMA InvHolds == TransportSpec => []IInv
BY InitHolds, StepHolds, PTL DEF TransportSpec

\* No claim is made while another may still commit, unless that one was under way for
\* the grace after its caller gave up: this is all the window leaves open.
THEOREM TransportOneClaimAlive == TransportSpec => []OneClaimAlive
<1>1. IInv => OneClaimAlive
  BY DEF IInv, OneClaimAlive, Covered, CallNumbers, CallerAt
<1> QED BY <1>1, InvHolds, PTL

\* A connection carries claims only to a server that understands them.
THEOREM TransportRightServer == TransportSpec => []RightServer
<1>1. IInv => RightServer
  BY DEF IInv
<1> QED BY <1>1, InvHolds, PTL
=============================================================================
