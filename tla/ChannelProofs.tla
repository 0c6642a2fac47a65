---------------------------- MODULE ChannelProofs ----------------------------
(***************************************************************************)
(* Proofs about the channel engine: about ChannelLease, for any replicas     *)
(* and supervisors and any timing that LeaseAssumption allows, and about     *)
(* ChannelInbound, for any messages, deliveries and faults.                 *)
(***************************************************************************)
EXTENDS ChannelLease, ChannelInbound, TLAPS

-----------------------------------------------------------------------------
(* ChannelLease.                                                              *)

FPrints == Prints \cup {NoPrint}
SupType == [pc : {"none", "head", "acquired", "live", "renewed", "release"},
            node : Nodes, print : FPrints,
            cancelled : BOOLEAN, lost : BOOLEAN, left : Int, asked : Nat]

\* What of the types the argument needs.
Typed ==
    /\ print \in FPrints
    /\ lease \in [token : Tokens \cup {NoToken}, left : 0 .. TTL]
    /\ late \subseteq {"acquire", "release"} \X Tokens
    /\ sweep \in [Nodes -> [pc : {"idle", "look", "start"}, print : FPrints]]
    /\ sup \in [Tokens -> SupType]

\* A supervisor that connects, or is about to, owns the key, which outlives what
\* the supervisor has confirmed by the margin.
Owns(g) ==
    /\ Is(g, {"acquired", "live", "renewed"}) => lease.token = g /\ << "release", g >> \notin late
    /\ Is(g, {"acquired", "renewed"}) => lease.left >= TTL - sup[g].asked
    /\ Is(g, {"acquired"}) => sup[g].asked <= MaxCall
    /\ Is(g, {"live", "renewed"}) =>
         /\ lease.left >= sup[g].left + Margin /\ sup[g].left >= 0 - Teardown
         /\ sup[g].left + sup[g].asked <= TTL - Margin

\* An acquisition that was given up on has no supervisor any more.
LateOnes == \A g \in Tokens : << "acquire", g >> \in late => Is(g, {"none"})

LeaseInv == Typed /\ LateOnes /\ \A g \in Tokens : Owns(g)

-----------------------------------------------------------------------------

LEMMA UnbornType == Unborn \in SupType /\ Unborn.pc = "none"
BY LeaseAssumption DEF SupType, Unborn, FPrints

LEMMA LeaseInitHolds == LeaseInit => LeaseInv
<1> SUFFICES ASSUME LeaseInit PROVE LeaseInv OBVIOUS
<1>1. Typed
  BY LeaseAssumption, UnbornType DEF LeaseInit, Typed, FPrints, NoLease, NoSweep
<1>2. \A g \in Tokens : Is(g, {"none"})
  BY UnbornType DEF LeaseInit, Is
<1>3. LateOnes /\ \A g \in Tokens : Owns(g)
  BY <1>2 DEF LeaseInit, LateOnes, Owns, Is
<1> QED BY <1>1, <1>3 DEF LeaseInv

\* A change that leaves the key alone, and of the supervisors' connections only
\* ends some.
LEMMA KeyStays ==
  ASSUME LeaseInv, Typed', UNCHANGED lease, late' = late,
         \A h \in Tokens :
             \/ sup'[h].pc = "none"
             \/ sup'[h].pc \in {"head", "release"} /\ << "acquire", h >> \notin late
             \/ sup'[h].pc = sup[h].pc /\ sup'[h].left = sup[h].left /\ sup'[h].asked = sup[h].asked
  PROVE  LeaseInv'
<1>1. LateOnes'
  BY DEF LeaseInv, LateOnes, Is
<1>2. \A g \in Tokens : Owns(g)'
  BY DEF LeaseInv, Owns, Is
<1> QED BY <1>1, <1>2 DEF LeaseInv

LEMMA Cancelling ==
  ASSUME NEW s \in SupType
  PROVE  /\ [s EXCEPT !.cancelled = TRUE] \in SupType
         /\ [s EXCEPT !.cancelled = TRUE].pc = s.pc
         /\ [s EXCEPT !.cancelled = TRUE].left = s.left
         /\ [s EXCEPT !.cancelled = TRUE].asked = s.asked
BY DEF SupType

LEMMA CancelledAll ==
  ASSUME sup \in [Tokens -> SupType], NEW G
  PROVE  /\ CancelAll(G) \in [Tokens -> SupType]
         /\ \A h \in Tokens : /\ CancelAll(G)[h].pc = sup[h].pc
                              /\ CancelAll(G)[h].left = sup[h].left
                              /\ CancelAll(G)[h].asked = sup[h].asked
<1> DEFINE C(h) == [sup[h] EXCEPT !.cancelled = TRUE]
<1>1. \A h \in Tokens : C(h) \in SupType /\ C(h).pc = sup[h].pc /\ C(h).left = sup[h].left
                        /\ C(h).asked = sup[h].asked
  BY Cancelling
<1>2. CancelAll(G) = [h \in Tokens |-> IF h \in G THEN C(h) ELSE sup[h]]
  BY DEF CancelAll
<1> HIDE DEF C
<1> QED BY <1>1, <1>2

\* What the sweep, the replicas and the row's owner do.
LEMMA OtherSteps ==
  ASSUME LeaseInv,
         \/ \E n \in Nodes : Sweep(n) \/ ListHeld(n) \/ Stop(n) \/ Die(n) \/ Boot(n)
         \/ \E f \in Prints \cup {NoPrint} : Rotate(f)
  PROVE  LeaseInv'
<1>1. Typed
  BY DEF LeaseInv
<1>2. CASE \E n \in Nodes : Sweep(n)
  <2> PICK n \in Nodes : Sweep(n)
    BY <1>2
  <2>1. sup' \in [Tokens -> SupType] /\ \A h \in Tokens : sup'[h].pc = sup[h].pc
            /\ sup'[h].left = sup[h].left /\ sup'[h].asked = sup[h].asked
    BY <1>1, CancelledAll DEF Typed, Sweep
  <2>2. sweep' \in [Nodes -> [pc : {"idle", "look", "start"}, print : FPrints]]
    BY <1>1 DEF Typed, Sweep
  <2>3. Typed'
    BY <1>1, <2>1, <2>2 DEF Typed, Sweep
  <2> QED BY <2>1, <2>3, KeyStays DEF Sweep
<1>3. CASE \E n \in Nodes : ListHeld(n) \/ Boot(n)
  <2>1. sweep' \in [Nodes -> [pc : {"idle", "look", "start"}, print : FPrints]]
    BY <1>1, <1>3 DEF Typed, ListHeld, Boot, NoSweep, FPrints
  <2>2. Typed'
    BY <1>1, <1>3, <2>1 DEF Typed, ListHeld, Boot
  <2> QED BY <1>3, <2>2, KeyStays DEF ListHeld, Boot
<1>4. CASE \E f \in Prints \cup {NoPrint} : Rotate(f)
  <2>1. Typed'
    BY <1>1, <1>4 DEF Typed, Rotate, FPrints
  <2> QED BY <1>4, <2>1, KeyStays DEF Rotate
<1>5. CASE \E n \in Nodes : Stop(n)
  <2> PICK n \in Nodes : Stop(n)
    BY <1>5
  <2>1. sup' \in [Tokens -> SupType] /\ \A h \in Tokens : sup'[h].pc = sup[h].pc
            /\ sup'[h].left = sup[h].left /\ sup'[h].asked = sup[h].asked
    BY <1>1, CancelledAll DEF Typed, Stop
  <2>2. Typed'
    BY <1>1, <2>1 DEF Typed, Stop, NoSweep, FPrints
  <2> QED BY <2>1, <2>2, KeyStays DEF Stop
<1>6. CASE \E n \in Nodes : Die(n)
  <2> PICK n \in Nodes : Die(n)
    BY <1>6
  <2>1. sup' \in [Tokens -> SupType] /\ \A h \in Tokens : sup'[h].pc = "none" \/ sup'[h] = sup[h]
    BY <1>1, UnbornType DEF Typed, Die
  <2>2. Typed'
    BY <1>1, <2>1 DEF Typed, Die, NoSweep, FPrints
  <2>3. UNCHANGED << lease, late >>
    BY DEF Die
  <2> QED BY <2>1, <2>2, <2>3, KeyStays
<1> QED BY <1>2, <1>3, <1>4, <1>5, <1>6

-----------------------------------------------------------------------------
(* One supervisor moves.                                                      *)

Holding(h) == Is(h, {"acquired", "live", "renewed"})

\* Who is granted the key finds no other supervisor on it.
LEMMA GrantExcludes ==
  ASSUME LeaseInv, NEW g \in Tokens, Grantable(g) \/ lease.token = g
  PROVE  \A h \in Tokens \ {g} : ~Holding(h)
BY LeaseAssumption DEF LeaseInv, Owns, Is, Grantable, Holding

\* g's own step, once what it establishes for g is known: the key is g's, or stays,
\* or is deleted by its owner.
LEMMA OwnStep ==
  ASSUME LeaseInv, NEW g \in Tokens, Typed', Owns(g)',
         \A h \in Tokens \ {g} : sup'[h] = sup[h],
         \/ UNCHANGED lease
         \/ Grantable(g) \/ lease.token = g,
         late' \subseteq late \cup {<< "acquire", g >>, << "release", g >>},
         << "acquire", g >> \in late' => Is(g, {"none"})'
  PROVE  LeaseInv'
<1>1. LateOnes'
  <2> SUFFICES ASSUME NEW h \in Tokens, << "acquire", h >> \in late'
               PROVE  Is(h, {"none"})'
    BY DEF LateOnes
  <2>1. CASE h = g
    BY <2>1
  <2>2. CASE h # g
    <3>1. << "acquire", h >> \in late
      BY <2>2
    <3> QED BY <2>2, <3>1 DEF LeaseInv, LateOnes, Is
  <2> QED BY <2>1, <2>2
<1>2. ASSUME NEW h \in Tokens \ {g}
      PROVE  Owns(h)'
  <2>1. sup'[h] = sup[h] /\ Owns(h)
    BY DEF LeaseInv
  <2>2. << "release", h >> \in late' => << "release", h >> \in late
    OBVIOUS
  <2>3. CASE UNCHANGED lease
    BY <2>1, <2>2, <2>3 DEF Owns, Is
  <2>4. CASE Grantable(g) \/ lease.token = g
    BY <2>1, <2>4, GrantExcludes DEF Owns, Is, Holding
  <2> QED BY <2>3, <2>4
<1> QED BY <1>1, <1>2 DEF LeaseInv

\* Setting or deleting the key keeps its type.
LEMMA KeyTyped ==
  ASSUME Typed, NEW g \in Tokens
  PROVE  /\ Set(g) => lease' \in [token : Tokens \cup {NoToken}, left : 0 .. TTL]
                      /\ lease'.token = g /\ lease'.left = TTL
         /\ Delete(g) => lease' \in [token : Tokens \cup {NoToken}, left : 0 .. TTL]
BY LeaseAssumption DEF Typed, Set, Delete, NoLease

LEMMA StartStep ==
  ASSUME LeaseInv, NEW n \in Nodes, NEW g \in Tokens, Start(n, g)
  PROVE  LeaseInv'
<1>1. Typed
  BY DEF LeaseInv
<1>2. [Unborn EXCEPT !.pc = "head", !.node = n, !.print = sweep[n].print] \in SupType
  BY <1>1, UnbornType DEF Typed, SupType
<1>3. sup'[g].pc = "head"
  BY <1>1, UnbornType DEF Typed, Start, SupType
<1>4. Typed'
  BY <1>1, <1>2 DEF Typed, Start, NoSweep, FPrints
<1>5. << "acquire", g >> \notin late
  BY DEF Start, Unused
<1>6. \A h \in Tokens \ {g} : sup'[h] = sup[h]
  BY <1>1 DEF Typed, Start
<1> QED BY <1>3, <1>4, <1>5, <1>6, KeyStays DEF Start

LEMMA TryAcquireStep ==
  ASSUME LeaseInv, NEW g \in Tokens, TryAcquire(g)
  PROVE  LeaseInv'
<1>1. Typed
  BY DEF LeaseInv
<1>2. CASE /\ Grantable(g) /\ Set(g) /\ late' = late /\ << "release", g >> \notin late
           /\ sup' = [sup EXCEPT ![g].pc = "acquired", ![g].asked = 0]
  <2>1. sup' \in [Tokens -> SupType] /\ sup'[g].pc = "acquired" /\ sup'[g].asked = 0
    <3> DEFINE s == [sup[g] EXCEPT !.pc = "acquired", !.asked = 0]
    <3>1. sup[g] \in SupType
      BY <1>1 DEF Typed
    <3>2. s \in SupType /\ s.pc = "acquired" /\ s.asked = 0
      BY <3>1 DEF SupType
    <3>3. sup' = [sup EXCEPT ![g] = s]
      BY <1>1, <1>2 DEF Typed
    <3> HIDE DEF s
    <3> QED BY <1>1, <3>2, <3>3 DEF Typed
  <2>2. \A h \in Tokens \ {g} : sup'[h] = sup[h]
    BY <1>1, <1>2 DEF Typed
  <2>3. Typed'
    BY <1>1, <1>2, <2>1, KeyTyped DEF Typed, TryAcquire
  <2>4. Owns(g)'
    BY <1>1, <1>2, <2>1, KeyTyped, LeaseAssumption DEF Owns, Is
  <2>5. << "acquire", g >> \notin late
    BY DEF LeaseInv, LateOnes, Is, TryAcquire
  <2> QED BY <1>2, <2>2, <2>3, <2>4, <2>5, OwnStep
<1>3. CASE /\ Returns(g) /\ UNCHANGED lease
           /\ late' = late \/ late' = late \cup {<< "acquire", g >>}
  <2>1. sup' \in [Tokens -> SupType] /\ sup'[g].pc = "none"
    BY <1>1, <1>3, UnbornType DEF Typed, Returns
  <2>2. \A h \in Tokens \ {g} : sup'[h] = sup[h]
    BY <1>1, <1>3 DEF Typed, Returns
  <2>3. Typed'
    BY <1>1, <1>3, <2>1 DEF Typed, TryAcquire
  <2>4. Owns(g)' /\ Is(g, {"none"})'
    BY <2>1 DEF Owns, Is
  <2>5. late' \subseteq late \cup {<< "acquire", g >>, << "release", g >>}
    BY <1>3
  <2> QED BY <1>3, <2>2, <2>3, <2>4, <2>5, OwnStep
<1> QED BY <1>2, <1>3 DEF TryAcquire

\* The supervisor g turns into s.
LEMMA Becomes ==
  ASSUME Typed, NEW g \in Tokens, NEW s \in SupType, sup' = [sup EXCEPT ![g] = s]
  PROVE  /\ sup' \in [Tokens -> SupType] /\ sup'[g] = s
         /\ \A h \in Tokens \ {g} : sup'[h] = sup[h]
BY DEF Typed

\* A supervisor that returns, or leaves its connection, owes nothing any more.
LEMMA Gone ==
  ASSUME LeaseInv, NEW g \in Tokens, Typed', Is(g, {"none", "release"})',
         \A h \in Tokens \ {g} : sup'[h] = sup[h], UNCHANGED lease, late' = late, ~Is(g, {"none"})
  PROVE  LeaseInv'
<1>1. Owns(g)'
  BY DEF Owns, Is
<1>2. << "acquire", g >> \notin late
  BY DEF LeaseInv, LateOnes
<1> QED BY <1>1, <1>2, OwnStep

LEMMA AcquiredStep ==
  ASSUME LeaseInv, NEW g \in Tokens, Acquired(g)
  PROVE  LeaseInv'
<1>1. Typed /\ sup[g] \in SupType /\ Is(g, {"acquired"}) /\ Owns(g)
  BY DEF LeaseInv, Typed, Acquired
<1>2. CASE sup' = [sup EXCEPT ![g].pc = "live", ![g].lost = FALSE, ![g].left = Confirmed(g),
                              ![g].asked = 0]
  <2> DEFINE s == [sup[g] EXCEPT !.pc = "live", !.lost = FALSE, !.left = Confirmed(g),
                                 !.asked = 0]
  <2>1. Confirmed(g) \in Int
    BY <1>1, LeaseAssumption DEF Confirmed, SupType
  <2>2. s \in SupType /\ s.pc = "live" /\ s.left = Confirmed(g) /\ s.asked = 0
    BY <1>1, <2>1 DEF SupType
  <2>3. sup' = [sup EXCEPT ![g] = s]
    BY <1>1, <1>2 DEF Typed
  <2> HIDE DEF s
  <2>4. sup' \in [Tokens -> SupType] /\ sup'[g] = s /\ \A h \in Tokens \ {g} : sup'[h] = sup[h]
    BY <1>1, <2>2, <2>3, Becomes
  <2>5. Typed'
    BY <1>1, <2>4 DEF Typed, Acquired
  <2>6. Owns(g)'
    <3>1. lease' = lease /\ late' = late
      BY DEF Acquired
    <3>2. /\ lease.left >= Confirmed(g) + Margin /\ Confirmed(g) >= 0 - Teardown
          /\ Confirmed(g) <= TTL - Margin
      BY <1>1, LeaseAssumption DEF Owns, Is, Confirmed, SupType, Typed
    <3> QED BY <1>1, <2>1, <2>2, <2>4, <3>1, <3>2, LeaseAssumption DEF Owns, Is
  <2>7. << "acquire", g >> \notin late
    BY <1>1 DEF LeaseInv, LateOnes, Is
  <2> QED BY <2>4, <2>5, <2>6, <2>7, OwnStep DEF Acquired
<1>3. CASE sup' = [sup EXCEPT ![g].pc = "release", ![g].asked = 0]
  <2> DEFINE s == [sup[g] EXCEPT !.pc = "release", !.asked = 0]
  <2>1. s \in SupType /\ s.pc = "release"
    BY <1>1 DEF SupType
  <2>2. sup' = [sup EXCEPT ![g] = s]
    BY <1>1, <1>3 DEF Typed
  <2> HIDE DEF s
  <2>3. sup' \in [Tokens -> SupType] /\ sup'[g] = s /\ \A h \in Tokens \ {g} : sup'[h] = sup[h]
    BY <1>1, <2>1, <2>2, Becomes
  <2>4. Typed' /\ Is(g, {"release"})' /\ ~Is(g, {"none"})
    BY <1>1, <2>1, <2>3 DEF Typed, Acquired, Is
  <2> QED BY <2>3, <2>4, Gone DEF Acquired, Is
<1>4. CASE Returns(g)
  <2>1. sup' \in [Tokens -> SupType] /\ sup'[g] = Unborn /\ \A h \in Tokens \ {g} : sup'[h] = sup[h]
    BY <1>1, <1>4, UnbornType, Becomes DEF Returns
  <2>2. Typed' /\ Is(g, {"none"})' /\ ~Is(g, {"none"})
    BY <1>1, <2>1, UnbornType DEF Typed, Acquired, Is
  <2> QED BY <2>1, <2>2, Gone DEF Acquired, Is
<1> QED BY <1>2, <1>3, <1>4 DEF Acquired

\* The renewal's command runs only under an unexpired, own lease.
LEMMA RenewStep ==
  ASSUME LeaseInv, NEW g \in Tokens, Renew(g)
  PROVE  LeaseInv'
<1>1. Typed /\ sup[g] \in SupType /\ Is(g, {"live"}) /\ Owns(g) /\ lease.token = g
  BY DEF LeaseInv, Typed, Renew, Owns, Is
<1> DEFINE s == [sup[g] EXCEPT !.pc = "renewed"]
<1>2. s \in SupType /\ s.pc = "renewed" /\ s.left = sup[g].left /\ s.asked = sup[g].asked
  BY <1>1 DEF SupType
<1>3. sup' = [sup EXCEPT ![g] = s] /\ Set(g)
  BY <1>1 DEF Typed, Renew
<1> HIDE DEF s
<1>4. sup' \in [Tokens -> SupType] /\ sup'[g] = s /\ \A h \in Tokens \ {g} : sup'[h] = sup[h]
  BY <1>1, <1>2, <1>3, Becomes
<1>5. Typed'
  BY <1>1, <1>3, <1>4, KeyTyped DEF Typed, Renew
<1>6. Owns(g)'
  <2>1. lease.left <= TTL /\ lease.left \in Int
    BY <1>1, LeaseAssumption DEF Typed
  <2>2. lease'.token = g /\ lease'.left = TTL /\ late' = late
    BY <1>1, <1>3, KeyTyped DEF Renew
  <2>3. sup[g].left \in Int /\ sup[g].asked \in Nat
    BY <1>1 DEF SupType
  <2> QED BY <1>1, <1>2, <1>4, <2>1, <2>2, <2>3, LeaseAssumption DEF Owns, Is
<1>7. << "acquire", g >> \notin late
  BY <1>1 DEF LeaseInv, LateOnes, Is
<1> QED BY <1>1, <1>4, <1>5, <1>6, <1>7, OwnStep DEF Renew

LEMMA RenewedStep ==
  ASSUME LeaseInv, NEW g \in Tokens, Renewed(g)
  PROVE  LeaseInv'
<1>1. Typed /\ sup[g] \in SupType /\ Is(g, {"renewed"}) /\ Owns(g)
  BY DEF LeaseInv, Typed, Renewed
<1>2. lease' = lease /\ late' = late /\ print' = print /\ sweep' = sweep
  BY DEF Renewed
<1>3. << "acquire", g >> \notin late
  BY <1>1 DEF LeaseInv, LateOnes, Is
<1>4. lease.left \in Int /\ sup[g].left \in Int /\ sup[g].asked \in Nat
  BY <1>1, LeaseAssumption DEF Typed, SupType
<1>5. ASSUME NEW left \in Int, lease.left >= left + Margin, left >= 0 - Teardown, left <= TTL - Margin,
             sup' = [sup EXCEPT ![g] = [sup[g] EXCEPT !.pc = "live", !.left = left, !.asked = 0]]
      PROVE  LeaseInv'
  <2> DEFINE s == [sup[g] EXCEPT !.pc = "live", !.left = left, !.asked = 0]
  <2>1. s \in SupType /\ s.pc = "live" /\ s.left = left /\ s.asked = 0
    BY <1>1 DEF SupType
  <2>2. sup' = [sup EXCEPT ![g] = s]
    BY <1>5
  <2> HIDE DEF s
  <2>3. sup' \in [Tokens -> SupType] /\ sup'[g] = s /\ \A h \in Tokens \ {g} : sup'[h] = sup[h]
    BY <1>1, <2>1, <2>2, Becomes
  <2>4. Typed'
    BY <1>1, <1>2, <2>3 DEF Typed
  <2>5. Owns(g)'
    BY <1>1, <1>2, <1>5, <2>1, <2>3, LeaseAssumption DEF Owns, Is
  <2> QED BY <1>2, <1>3, <2>3, <2>4, <2>5, OwnStep
<1>6. CASE /\ sup[g].left > 0
           /\ sup' = [sup EXCEPT ![g].pc = "live", ![g].left = Confirmed(g), ![g].asked = 0]
  <2>1. /\ Confirmed(g) \in Int /\ lease.left >= Confirmed(g) + Margin
        /\ Confirmed(g) >= 0 - Teardown /\ Confirmed(g) <= TTL - Margin
    BY <1>1, <1>4, <1>6, LeaseAssumption DEF Owns, Is, Confirmed
  <2>2. sup' = [sup EXCEPT ![g] = [sup[g] EXCEPT !.pc = "live", !.left = Confirmed(g), !.asked = 0]]
    BY <1>1, <1>6 DEF Typed
  <2> QED BY <1>5, <2>1, <2>2
<1>7. CASE sup' = [sup EXCEPT ![g].pc = "live", ![g].asked = 0]
  <2>1. sup' = [sup EXCEPT ![g] = [sup[g] EXCEPT !.pc = "live", !.left = sup[g].left, !.asked = 0]]
    <3>1. [sup[g] EXCEPT !.pc = "live", !.asked = 0]
            = [sup[g] EXCEPT !.pc = "live", !.left = sup[g].left, !.asked = 0]
      BY <1>1 DEF SupType
    <3> QED BY <1>1, <1>7, <3>1 DEF Typed
  <2>2. sup[g].left <= TTL - Margin
    BY <1>1, <1>4, LeaseAssumption DEF Owns, Is
  <2> QED BY <1>1, <1>4, <1>5, <2>1, <2>2 DEF Owns, Is
<1> QED BY <1>6, <1>7 DEF Renewed

LEMMA LosingSteps ==
  ASSUME LeaseInv, NEW g \in Tokens, LeaseLost(g) \/ (Renew(g) /\ lease.token # g)
  PROVE  LeaseInv'
<1>1. Typed /\ sup[g] \in SupType /\ Is(g, {"live"})
  BY DEF LeaseInv, Typed, Renew, LeaseLost
<1> DEFINE s == [sup[g] EXCEPT !.lost = TRUE]
<1>2. s \in SupType /\ s.pc = sup[g].pc /\ s.left = sup[g].left /\ s.asked = sup[g].asked
  BY <1>1 DEF SupType
<1>3. sup' = [sup EXCEPT ![g] = s]
  BY <1>1 DEF Typed, Renew, LeaseLost
<1> HIDE DEF s
<1>4. sup' \in [Tokens -> SupType] /\ sup'[g] = s /\ \A h \in Tokens \ {g} : sup'[h] = sup[h]
  BY <1>1, <1>2, <1>3, Becomes
<1>5. UNCHANGED << lease, late, print, sweep >>
  BY DEF Renew, LeaseLost
<1>6. Typed'
  BY <1>1, <1>4, <1>5 DEF Typed
<1> QED BY <1>2, <1>4, <1>5, <1>6, KeyStays

LEMMA ReturnSteps ==
  ASSUME LeaseInv, NEW g \in Tokens, ConnectReturns(g)
  PROVE  LeaseInv'
<1>1. Typed /\ sup[g] \in SupType /\ ~Is(g, {"none"})
  BY DEF LeaseInv, Typed, ConnectReturns, Connected, Is
<1> DEFINE s == [sup[g] EXCEPT !.pc = "release", !.asked = 0, !.left = 0, !.lost = FALSE]
<1> DEFINE r == [sup[g] EXCEPT !.pc = "release", !.asked = 0]
<1>2. s \in SupType /\ s.pc = "release"
  <2>1. r \in SupType /\ r.pc = "release"
    BY <1>1 DEF SupType
  <2>2. ASSUME NEW x \in SupType
        PROVE  [x EXCEPT !.left = 0] \in SupType /\ [x EXCEPT !.left = 0].pc = x.pc
    BY DEF SupType
  <2>3. ASSUME NEW x \in SupType
        PROVE  [x EXCEPT !.lost = FALSE] \in SupType /\ [x EXCEPT !.lost = FALSE].pc = x.pc
    BY DEF SupType
  <2>4. s = [[r EXCEPT !.left = 0] EXCEPT !.lost = FALSE]
    OBVIOUS
  <2> HIDE DEF r, s
  <2> QED BY <2>1, <2>2, <2>3, <2>4
<1>3. sup' = [sup EXCEPT ![g] = s]
  BY <1>1 DEF Typed, ConnectReturns
<1> HIDE DEF s
<1>4. sup' \in [Tokens -> SupType] /\ sup'[g] = s /\ \A h \in Tokens \ {g} : sup'[h] = sup[h]
  BY <1>1, <1>2, <1>3, Becomes
<1>5. Typed' /\ Is(g, {"none", "release"})'
  BY <1>1, <1>2, <1>4 DEF Typed, ConnectReturns, Is
<1> QED BY <1>1, <1>4, <1>5, Gone DEF ConnectReturns

\* The release deletes the supervisor's own key, now or later.
LEMMA ReleaseStep ==
  ASSUME LeaseInv, NEW g \in Tokens, Release(g)
  PROVE  LeaseInv'
<1>1. Typed /\ sup[g] \in SupType /\ Is(g, {"release"})
  BY DEF LeaseInv, Typed, Release
<1> DEFINE s == [sup[g] EXCEPT !.pc = "head"]
<1>2. s \in SupType /\ s.pc = "head"
  BY <1>1 DEF SupType
<1>3. sup' = [sup EXCEPT ![g] = s]
  BY <1>1 DEF Typed, Release
<1> HIDE DEF s
<1>4. sup' \in [Tokens -> SupType] /\ sup'[g] = s /\ \A h \in Tokens \ {g} : sup'[h] = sup[h]
  BY <1>1, <1>2, <1>3, Becomes
<1>5. Typed'
  BY <1>1, <1>4, KeyTyped DEF Typed, Release
<1>6. Owns(g)'
  BY <1>2, <1>4 DEF Owns, Is
<1>7. UNCHANGED lease \/ lease.token = g
  BY DEF Release, Delete
<1>8. late' \subseteq late \cup {<< "acquire", g >>, << "release", g >>} /\ << "acquire", g >> \notin late'
  BY <1>1 DEF LeaseInv, LateOnes, Is, Release
<1> QED BY <1>4, <1>5, <1>6, <1>7, <1>8, OwnStep

\* A command that was given up on finds its own key, or none, or does nothing.
LEMMA LateStep ==
  ASSUME LeaseInv, NEW c \in late, NEW g \in Tokens, c[2] = g, LateCommand(c)
  PROVE  LeaseInv'
<1>1. Typed /\ LateOnes /\ Owns(g)
  BY DEF LeaseInv
<1>2. (c = << "acquire", g >> \/ c = << "release", g >>) /\ late' \subseteq late
  BY <1>1 DEF Typed, LateCommand
<1>3. UNCHANGED << print, sweep, sup >>
  BY DEF LateCommand
<1>4. CASE UNCHANGED lease
  <2>1. Typed' /\ Owns(g)' /\ \A h \in Tokens \ {g} : sup'[h] = sup[h]
    BY <1>1, <1>2, <1>3, <1>4 DEF Typed, Owns, Is
  <2>2. << "acquire", g >> \in late' => Is(g, {"none"})'
    BY <1>1, <1>2, <1>3 DEF LateOnes, Is
  <2> QED BY <1>2, <1>4, <2>1, <2>2, OwnStep
<1>5. CASE c = << "acquire", g >> /\ Grantable(g) /\ Set(g)
  <2>1. Is(g, {"none"}) /\ Is(g, {"none"})'
    BY <1>1, <1>3, <1>5 DEF LateOnes, Is
  <2>2. Typed'
    BY <1>1, <1>2, <1>3, <1>5, KeyTyped DEF Typed
  <2>3. Owns(g)' /\ \A h \in Tokens \ {g} : sup'[h] = sup[h]
    BY <1>3, <2>1 DEF Owns, Is
  <2> QED BY <1>2, <1>5, <2>1, <2>2, <2>3, OwnStep
<1>6. CASE c = << "release", g >> /\ Delete(g)
  <2>1. ~Holding(g) /\ ~Holding(g)'
    BY <1>1, <1>3, <1>6 DEF Owns, Is, Holding
  <2>2. Typed'
    BY <1>1, <1>2, <1>3, <1>6, KeyTyped DEF Typed
  <2>3. Owns(g)' /\ \A h \in Tokens \ {g} : sup'[h] = sup[h]
    BY <1>3, <2>1 DEF Owns, Is, Holding
  <2>4. UNCHANGED lease \/ lease.token = g
    BY <1>6 DEF Delete
  <2>5. << "acquire", g >> \in late' => Is(g, {"none"})'
    BY <1>1, <1>2, <1>3 DEF LateOnes, Is
  <2> QED BY <1>2, <2>2, <2>3, <2>4, <2>5, OwnStep
<1>7. \/ UNCHANGED lease
      \/ c = << "acquire", g >> /\ Grantable(g) /\ Set(g)
      \/ c = << "release", g >> /\ Delete(g)
  <2>1. CASE c = << "acquire", g >>
    <3>1. c[1] = "acquire" /\ c[2] = g
      BY <2>1
    <3> QED BY <2>1, <3>1 DEF LateCommand
  <2>2. CASE c = << "release", g >>
    <3>1. c[1] = "release" /\ c[2] = g
      BY <2>2
    <3> QED BY <2>2, <3>1 DEF LateCommand
  <2> QED BY <1>2, <2>1, <2>2
<1> QED BY <1>4, <1>5, <1>6, <1>7

\* A due teardown or answer holds the clock, so no key in use expires.
LEMMA TickStep == LeaseInv /\ LeaseTick => LeaseInv'
<1> SUFFICES ASSUME LeaseInv, LeaseTick PROVE LeaseInv' OBVIOUS
<1>1. Typed /\ LateOnes
  BY DEF LeaseInv
<1>2. ASSUME NEW g \in Tokens
      PROVE  /\ Aged(g) \in SupType /\ Aged(g).pc = sup[g].pc
             /\ Aged(g).asked = IF Is(g, {"acquired", "renewed"}) THEN sup[g].asked + 1 ELSE sup[g].asked
             /\ Aged(g).left = IF Is(g, {"live", "renewed"}) THEN sup[g].left - 1 ELSE sup[g].left
  <2>1. sup[g] \in SupType /\ (g \in Connected <=> Is(g, {"live", "renewed"}))
    BY <1>1 DEF Typed, Connected
  <2> DEFINE S(a, l) == [sup[g] EXCEPT !.asked = a, !.left = l]
  <2>2. ASSUME NEW a \in Nat, NEW l \in Int
        PROVE  S(a, l) \in SupType /\ S(a, l).pc = sup[g].pc /\ S(a, l).asked = a /\ S(a, l).left = l
    BY <2>1 DEF SupType
  <2>3. sup[g].asked \in Nat /\ sup[g].left \in Int
    BY <2>1 DEF SupType
  <2> DEFINE a == IF Is(g, {"acquired", "renewed"}) THEN sup[g].asked + 1 ELSE sup[g].asked
             l == IF Is(g, {"live", "renewed"}) THEN sup[g].left - 1 ELSE sup[g].left
  <2>4. a \in Nat /\ l \in Int
    BY <2>3
  <2>5. Aged(g) = S(a, l)
    BY <2>1 DEF Aged, SupType
  <2> HIDE DEF S
  <2> QED BY <2>2, <2>4, <2>5
<1>3. \A g \in Tokens : sup'[g] = Aged(g)
  BY DEF LeaseTick
<1>4. lease.left \in 0 .. TTL
  BY <1>1 DEF Typed
<1>5. Typed'
  <2>1. sup' \in [Tokens -> SupType]
    BY <1>2 DEF LeaseTick
  <2>2. lease' \in [token : Tokens \cup {NoToken}, left : 0 .. TTL]
    BY <1>1, <1>4, LeaseAssumption DEF Typed, LeaseTick, NoLease
  <2> QED BY <1>1, <2>1, <2>2 DEF Typed, LeaseTick
<1>6. LateOnes'
  BY <1>1, <1>2, <1>3 DEF LateOnes, Is, LeaseTick
<1>7. ASSUME NEW g \in Tokens
      PROVE  Owns(g)'
  <2>1. Owns(g) /\ Patient(g)
    BY DEF LeaseInv, LeaseTick
  <2>2. sup[g].asked \in Nat /\ sup[g].left \in Int
    BY <1>1 DEF Typed, SupType
  <2>3. CASE ~Holding(g)
    BY <1>2, <1>3, <2>3 DEF Owns, Is, Holding
  <2>4. CASE Is(g, {"acquired"})
    <3>1. lease.left >= 2
      BY <1>4, <2>1, <2>2, <2>4, LeaseAssumption DEF Owns, Is, Patient
    <3>2. lease'.left = lease.left - 1 /\ lease'.token = lease.token /\ late' = late
      BY <1>1, <1>4, <3>1 DEF LeaseTick, Typed
    <3> QED BY <1>2, <1>3, <1>4, <2>1, <2>2, <2>4, <3>2, LeaseAssumption DEF Owns, Is, Patient
  <2>5. CASE Is(g, {"live", "renewed"})
    <3>1. sup[g].left > 0 - Teardown
      BY <2>1, <2>5, LeaseAssumption DEF Patient, Connected
    <3>2. lease.left >= 2
      BY <1>4, <2>1, <2>2, <2>5, <3>1, LeaseAssumption DEF Owns, Is
    <3>3. lease'.left = lease.left - 1 /\ lease'.token = lease.token /\ late' = late
      BY <1>1, <1>4, <3>2 DEF LeaseTick, Typed
    <3> QED BY <1>2, <1>3, <1>4, <2>1, <2>2, <2>5, <3>1, <3>3, LeaseAssumption DEF Owns, Is
  <2> QED BY <2>3, <2>4, <2>5 DEF Holding, Is
<1> QED BY <1>5, <1>6, <1>7 DEF LeaseInv

LEMMA LeaseStutters == LeaseInv /\ UNCHANGED leaseVars => LeaseInv'
BY DEF LeaseInv, Typed, LateOnes, Owns, Is, leaseVars

LEMMA LeaseStepHolds == LeaseInv /\ [LeaseNext]_leaseVars => LeaseInv'
<1> SUFFICES ASSUME LeaseInv, [LeaseNext]_leaseVars PROVE LeaseInv' OBVIOUS
<1>1. CASE SupStep
  <2>1. ASSUME NEW g \in Tokens, Renew(g), lease.token = g
        PROVE  LeaseInv'
    BY <2>1, RenewStep
  <2> QED BY <1>1, TryAcquireStep, AcquiredStep, RenewStep, RenewedStep, LosingSteps, ReturnSteps,
             ReleaseStep, LateStep DEF SupStep
<1>2. CASE \E n \in Nodes : SweepStep(n)
  BY <1>2, OtherSteps, StartStep DEF SweepStep
<1> QED BY <1>1, <1>2, TickStep, OtherSteps, LeaseStutters DEF LeaseNext

\* At most one replica is connected, over rotations, crashes, lost and late
\* commands, and whatever the clock does within LeaseAssumption.
THEOREM LeaseOneConnection == LeaseSpec => []OneConnection
<1>1. LeaseInv => OneConnection
  BY DEF LeaseInv, Owns, OneConnection, Connected, Is
<1> QED BY <1>1, LeaseInitHolds, LeaseStepHolds, PTL DEF LeaseSpec

-----------------------------------------------------------------------------
(* ChannelInbound.                                                            *)

ClaimType == [state : {"none", "inflight", "processed"},
              token : Deliveries \cup {NoDelivery}, old : BOOLEAN]
DeliveryType == [pc : {"idle", "claim", "process", "append", "appended", "release", "mark"},
                 msg : Messages]

\* The rows of a message, its dedup row and the deliveries that wrote it agree.
Rows(m) ==
    /\ copies[m] <= 1 /\ issues[m] <= copies[m]
    /\ copies[m] > 0 => dedup[m].state = "processed"
Writer(d) == In(d, "appended") => copies[Msg(d)] = 1 /\ issues[Msg(d)] = 0
OneWriter == \A d, e \in Deliveries :
    In(d, "appended") /\ In(e, "appended") /\ Msg(d) = Msg(e) => d = e

\* A stopped batcher arms no window.
Stopped == stopped => pendingGen = 0

InboundInv ==
    /\ InboundTypeOK /\ Stopped /\ RunFollows
    /\ (\A m \in Messages : Rows(m)) /\ (\A d \in Deliveries : Writer(d)) /\ OneWriter

-----------------------------------------------------------------------------

LEMMA RestingType == Resting \in DeliveryType /\ Resting.pc = "idle"
BY InboundAssumption DEF Resting, DeliveryType

LEMMA ClaimTypes == NoClaim \in ClaimType /\ Terminal \in ClaimType /\ Terminal.state = "processed"
BY DEF NoClaim, Terminal, ClaimType

LEMMA InboundInitHolds == InboundInit => InboundInv
<1> SUFFICES ASSUME InboundInit PROVE InboundInv OBVIOUS
<1>1. InboundTypeOK
  BY ClaimTypes, RestingType, InboundAssumption
  DEF InboundInit, InboundTypeOK, ClaimType, DeliveryType
<1>2. Durable = {} /\ Stopped /\ \A m \in Messages : Rows(m)
  BY DEF InboundInit, Durable, Stopped, Rows
<1>3. \A d \in Deliveries : ~In(d, "appended")
  BY RestingType DEF InboundInit, In
<1> QED BY <1>1, <1>2, <1>3 DEF InboundInv, RunFollows, Writer, OneWriter

LEMMA FaultType == ASSUME InboundTypeOK, Fault \/ UNCHANGED faults PROVE faults' \in Nat
BY DEF InboundTypeOK, Fault

\* A delivery that moves keeps its message.
LEMMA Moving ==
  ASSUME InboundTypeOK, NEW d \in Deliveries,
         NEW pc \in {"claim", "process", "append", "appended", "release", "mark"}, Step(d, pc)
  PROVE  /\ delivery' \in [Deliveries -> DeliveryType]
         /\ delivery'[d].pc = pc /\ delivery'[d].msg = delivery[d].msg
         /\ \A e \in Deliveries \ {d} : delivery'[e] = delivery[e]
BY DEF InboundTypeOK, DeliveryType, Step

LEMMA Ending ==
  ASSUME InboundTypeOK, NEW d \in Deliveries, Ends(d)
  PROVE  /\ delivery' \in [Deliveries -> DeliveryType] /\ delivery'[d].pc = "idle"
         /\ \A e \in Deliveries \ {d} : delivery'[e] = delivery[e]
BY RestingType DEF InboundTypeOK, DeliveryType, Ends

\* Deliveries only leave the place after the write, and only when what they owed is
\* there; the rows of the messages stay, but for the claims of unwritten ones.
LEMMA Frame ==
  ASSUME InboundInv, InboundTypeOK', UNCHANGED << copies, issues >>,
         \A m \in Messages : dedup[m].state = "processed" => dedup'[m].state = "processed",
         \A e \in Deliveries : In(e, "appended")' => delivery'[e] = delivery[e],
         Stopped', RunFollows'
  PROVE  InboundInv'
<1>1. \A m \in Messages : Rows(m)'
  BY DEF InboundInv, Rows
<1>2. \A d \in Deliveries : Writer(d)'
  BY DEF InboundInv, Writer, In, Msg
<1>3. OneWriter'
  BY DEF InboundInv, OneWriter, In, Msg
<1> QED BY <1>1, <1>2, <1>3 DEF InboundInv

\* Nothing of what RunFollows looks at changes.
LEMMA Follows ==
  ASSUME InboundInv, UNCHANGED << copies, pendingGen, flushes, covered >>, forgiven \subseteq forgiven',
         \A e \in Deliveries : In(e, "appended") => delivery'[e] = delivery[e]
  PROVE  RunFollows'
BY DEF InboundInv, RunFollows, Durable, In, Msg

-----------------------------------------------------------------------------
(* Deliveries and claims.                                                     *)

LEMMA ClaimSteps ==
  ASSUME InboundInv,
         \/ \E d \in Deliveries, m \in Messages : Deliver(d, m)
         \/ \E m \in Messages : ClaimAges(m)
         \/ \E d \in Deliveries : \/ ClaimDedup(d) \/ Process(d)
                                  \/ ReleaseClaim(d) \/ MarkDropped(d)
  PROVE  InboundInv'
<1>1. InboundTypeOK
  BY DEF InboundInv
<1>2. ASSUME NEW d \in Deliveries, NEW m \in Messages, Deliver(d, m)
      PROVE  InboundInv'
  <2>1. /\ delivery' \in [Deliveries -> DeliveryType]
        /\ \A e \in Deliveries \ {d} : delivery'[e] = delivery[e]
        /\ ~In(d, "appended") /\ ~In(d, "appended")'
    BY <1>1, <1>2 DEF InboundTypeOK, DeliveryType, Deliver, In
  <2>2. faults' \in Nat
    BY <1>1, <1>2, FaultType DEF Deliver
  <2>3. InboundTypeOK'
    BY <1>1, <1>2, <2>1, <2>2 DEF InboundTypeOK, Deliver, DeliveryType, batchVars
  <2>4. RunFollows' /\ Stopped'
    BY <1>2, <2>1, Follows DEF Deliver, batchVars, InboundInv, Stopped, In
  <2> QED BY <1>2, <2>1, <2>3, <2>4, Frame DEF Deliver, In
<1>3. ASSUME NEW m \in Messages, ClaimAges(m)
      PROVE  InboundInv'
  <2>1. /\ dedup' \in [Messages -> ClaimType]
        /\ \A n \in Messages : dedup[n].state = "processed" => dedup'[n].state = "processed"
    BY <1>1, <1>3 DEF InboundTypeOK, ClaimType, ClaimAges
  <2>2. InboundTypeOK'
    BY <1>1, <1>3, <2>1 DEF InboundTypeOK, ClaimAges, ClaimType, batchVars
  <2>3. RunFollows' /\ Stopped'
    BY <1>3, Follows DEF ClaimAges, batchVars, InboundInv, Stopped
  <2> QED BY <1>3, <2>1, <2>2, <2>3, Frame DEF ClaimAges, In
<1>4. ASSUME NEW d \in Deliveries,
             ClaimDedup(d) \/ Process(d) \/ ReleaseClaim(d) \/ MarkDropped(d)
      PROVE  InboundInv'
  <2>1. /\ delivery' \in [Deliveries -> DeliveryType]
        /\ \A e \in Deliveries \ {d} : delivery'[e] = delivery[e]
        /\ ~In(d, "appended") /\ ~In(d, "appended")'
    BY <1>1, <1>4, Moving, Ending
    DEF ClaimDedup, Process, ReleaseClaim, MarkDropped, In, Acknowledged, Failed
  <2>2. Msg(d) \in Messages
    BY <1>1 DEF InboundTypeOK, Msg
  <2>3. /\ dedup' \in [Messages -> ClaimType]
        /\ \A n \in Messages : dedup[n].state = "processed" => dedup'[n].state = "processed"
    <3>1. CASE UNCHANGED dedup
      BY <1>1, <3>1 DEF InboundTypeOK, ClaimType
    <3>2. CASE \E x \in ClaimType : dedup' = [dedup EXCEPT ![Msg(d)] = x] /\ dedup[Msg(d)].state # "processed"
      BY <1>1, <2>2, <3>2 DEF InboundTypeOK, ClaimType
    <3>3. [state |-> "inflight", token |-> d, old |-> FALSE] \in ClaimType
      BY DEF ClaimType
    <3>4. UNCHANGED dedup \/ \E x \in ClaimType : dedup' = [dedup EXCEPT ![Msg(d)] = x]
                                                 /\ dedup[Msg(d)].state # "processed"
      <4>1. CASE ClaimDedup(d)
        BY <3>3, <4>1 DEF ClaimDedup, Takeable
      <4>2. CASE Process(d)
        BY <4>2 DEF Process
      <4>3. CASE ReleaseClaim(d) \/ MarkDropped(d)
        BY <4>3, ClaimTypes DEF ReleaseClaim, MarkDropped, HoldsClaim
      <4> QED BY <1>4, <4>1, <4>2, <4>3
    <3> QED BY <3>1, <3>2, <3>4
  <2>4. faults' \in Nat
    BY <1>1, <1>4, FaultType DEF ClaimDedup, Process, ReleaseClaim, MarkDropped
  <2>5. accepted' \subseteq Messages
    BY <1>1, <1>4, <2>2
    DEF InboundTypeOK, ClaimDedup, Process, ReleaseClaim, MarkDropped, Acknowledged, Failed
  <2>6. UNCHANGED << copies, issues, batchVars, forgiven >>
    BY <1>4 DEF ClaimDedup, Process, ReleaseClaim, MarkDropped
  <2>7. InboundTypeOK'
    BY <1>1, <2>1, <2>3, <2>4, <2>5, <2>6
    DEF InboundTypeOK, ClaimType, DeliveryType, batchVars
  <2>8. RunFollows' /\ Stopped'
    BY <2>1, <2>6, Follows DEF batchVars, InboundInv, Stopped, In
  <2> QED BY <2>1, <2>3, <2>6, <2>7, <2>8, Frame DEF In
<1> QED BY <1>2, <1>3, <1>4

\* The write is fenced: only the holder of an unwritten claim writes.
LEMMA AppendStep ==
  ASSUME InboundInv, NEW d \in Deliveries, AppendUserMessage(d)
  PROVE  InboundInv'
<1> DEFINE m == Msg(d)
<1>1. InboundTypeOK /\ m \in Messages /\ In(d, "append")
  BY DEF InboundInv, InboundTypeOK, Msg, AppendUserMessage
<1>2. CASE UNCHANGED << copies, dedup, forgiven >>
  <2>1. /\ delivery' \in [Deliveries -> DeliveryType]
        /\ \A e \in Deliveries \ {d} : delivery'[e] = delivery[e]
        /\ ~In(d, "appended") /\ ~In(d, "appended")'
        /\ accepted' \subseteq Messages /\ faults' \in Nat
    <3>1. CASE Fault /\ Step(d, "release") /\ UNCHANGED accepted
      BY <1>1, <3>1, Moving, FaultType DEF InboundTypeOK, In
    <3>2. CASE Acknowledged(d) /\ UNCHANGED faults
      BY <1>1, <3>2, Ending, FaultType DEF InboundTypeOK, In, Acknowledged
    <3>3. ~Appended(m)
      BY <1>1, <1>2 DEF Appended, InboundTypeOK
    <3> QED BY <3>1, <3>2, <3>3 DEF AppendUserMessage
  <2>2. InboundTypeOK'
    BY <1>1, <1>2, <2>1 DEF InboundTypeOK, ClaimType, DeliveryType, batchVars, AppendUserMessage
  <2>3. RunFollows' /\ Stopped'
    BY <1>2, <2>1, Follows DEF batchVars, InboundInv, Stopped, In, AppendUserMessage
  <2> QED BY <1>2, <2>1, <2>2, <2>3, Frame DEF In, AppendUserMessage
<1>3. CASE /\ Fenced(d) /\ Appended(m) /\ UNCHANGED accepted
           /\ \/ Step(d, "appended") /\ UNCHANGED << forgiven, faults >>
              \/ Step(d, "release") /\ forgiven' = forgiven \cup {m} /\ Fault
  <2>1. /\ delivery' \in [Deliveries -> DeliveryType]
        /\ \A e \in Deliveries \ {d} : delivery'[e] = delivery[e]
        /\ delivery'[d].msg = m
    BY <1>1, <1>3, Moving DEF Msg
  <2>2. faults' \in Nat
    BY <1>1, <1>3, FaultType
  <2>3. UNCHANGED << issues, batchVars >>
    BY DEF AppendUserMessage
  <2>4. copies[m] = 0 /\ issues[m] = 0
    <3>1. dedup[m].state = "inflight" /\ Rows(m)
      BY <1>1, <1>3 DEF InboundInv, Fenced, HoldsClaim
    <3>2. copies[m] \in Nat /\ issues[m] \in Nat
      BY <1>1 DEF InboundTypeOK
    <3> QED BY <3>1, <3>2 DEF Rows
  <2>5. /\ copies' \in [Messages -> Nat] /\ copies'[m] = 1
        /\ \A n \in Messages \ {m} : copies'[n] = copies[n]
    BY <1>1, <1>3, <2>4 DEF Appended, InboundTypeOK
  <2>6. /\ dedup' \in [Messages -> ClaimType] /\ dedup'[m].state = "processed"
        /\ \A n \in Messages \ {m} : dedup'[n] = dedup[n]
    BY <1>1, <1>3, ClaimTypes DEF Appended, InboundTypeOK, ClaimType
  <2>7. InboundTypeOK'
    BY <1>1, <1>3, <2>1, <2>2, <2>3, <2>5, <2>6 DEF InboundTypeOK, ClaimType, DeliveryType, batchVars
  <2>8. ASSUME NEW n \in Messages
        PROVE  Rows(n)'
    BY <2>3, <2>4, <2>5, <2>6 DEF InboundInv, Rows
  <2>9. \A e \in Deliveries \ {d} : In(e, "appended") => Msg(e) # m
    BY <2>4 DEF InboundInv, Writer
  <2>10. ASSUME NEW e \in Deliveries
         PROVE  Writer(e)'
    <3>1. CASE e = d
      BY <2>1, <2>3, <2>4, <2>5, <3>1 DEF Writer, Msg
    <3>2. CASE e # d
      <4>1. Msg(e) \in Messages
        BY <1>1 DEF InboundTypeOK, Msg
      <4> QED BY <2>1, <2>3, <2>5, <2>9, <3>2, <4>1 DEF InboundInv, Writer, Msg, In
    <3> QED BY <3>1, <3>2
  <2>11. OneWriter'
    BY <2>1, <2>9 DEF InboundInv, OneWriter, Msg, In
  <2>12. RunFollows'
    <3> SUFFICES ASSUME NEW n \in Durable'
                 PROVE  (n \in covered \cup forgiven \/ pendingGen # 0 \/ flushes > 0
                          \/ \E e \in Deliveries : In(e, "appended") /\ Msg(e) = n)'
      BY DEF RunFollows
    <3>1. n \in Messages
      BY DEF Durable
    <3>2. CASE n = m
      <4>1. n \in forgiven' \/ (In(d, "appended")' /\ Msg(d)' = n)
        BY <1>1, <1>3, <2>1, <3>2, Moving DEF In, Msg
      <4> QED BY <4>1
    <3>3. CASE n # m
      <4>1. n \in Durable
        BY <2>5, <3>1, <3>3 DEF Durable
      <4>2. forgiven \subseteq forgiven' /\ covered' = covered /\ pendingGen' = pendingGen
            /\ flushes' = flushes
        BY <1>3, <2>3 DEF batchVars
      <4>3. \A e \in Deliveries : In(e, "appended") => e # d
        BY <1>1 DEF In
      <4> QED BY <2>1, <4>1, <4>2, <4>3 DEF InboundInv, RunFollows, In, Msg
    <3> QED BY <3>2, <3>3
  <2>13. Stopped'
    BY <2>3 DEF InboundInv, Stopped, batchVars
  <2> QED BY <2>7, <2>8, <2>10, <2>11, <2>12, <2>13 DEF InboundInv
<1> QED BY <1>2, <1>3 DEF AppendUserMessage

LEMMA CreateIssueStep ==
  ASSUME InboundInv, NEW d \in Deliveries, CreateIssue(d)
  PROVE  InboundInv'
<1> DEFINE m == Msg(d)
<1>1. InboundTypeOK /\ m \in Messages /\ In(d, "appended") /\ m \in Commands
  BY DEF InboundInv, InboundTypeOK, Msg, CreateIssue
<1>2. /\ delivery' \in [Deliveries -> DeliveryType] /\ ~In(d, "appended")'
      /\ \A e \in Deliveries \ {d} : delivery'[e] = delivery[e]
      /\ accepted' \subseteq Messages /\ faults' \in Nat
  BY <1>1, Ending, FaultType DEF CreateIssue, Acknowledged, Failed, InboundTypeOK, In
<1>3. UNCHANGED << dedup, copies, batchVars, forgiven >>
  BY DEF CreateIssue
<1>4. /\ issues' \in [Messages -> Nat] /\ issues'[m] <= 1
      /\ \A n \in Messages \ {m} : issues'[n] = issues[n]
  <2>1. issues[m] = 0
    BY <1>1 DEF InboundInv, Writer
  <2> QED BY <1>1, <2>1 DEF InboundTypeOK, CreateIssue
<1>5. InboundTypeOK'
  BY <1>1, <1>2, <1>3, <1>4 DEF InboundTypeOK, DeliveryType, batchVars
<1>6. \A n \in Messages : Rows(n)'
  BY <1>1, <1>3, <1>4 DEF InboundInv, Rows, Writer
<1>7. \A e \in Deliveries : In(e, "appended")' => e # d /\ In(e, "appended") /\ Msg(e)' = Msg(e)
                             /\ Msg(e) # m /\ Msg(e) \in Messages
  BY <1>1, <1>2 DEF InboundInv, OneWriter, In, Msg, InboundTypeOK
<1>8. (\A e \in Deliveries : Writer(e)') /\ OneWriter'
  BY <1>3, <1>4, <1>7 DEF InboundInv, Writer, OneWriter
<1>9. RunFollows' /\ Stopped'
  <2>1. ASSUME NEW n \in Durable'
        PROVE  n \in Durable /\ n # m
    BY <1>1, <1>3 DEF Durable
  <2>2. \A e \in Deliveries : e # d => In(e, "appended")' = In(e, "appended") /\ Msg(e)' = Msg(e)
    BY <1>2 DEF In, Msg
  <2> QED BY <1>3, <2>1, <2>2 DEF InboundInv, RunFollows, Stopped, batchVars
<1> QED BY <1>5, <1>6, <1>8, <1>9 DEF InboundInv

-----------------------------------------------------------------------------
(* The batcher.                                                               *)

\* A window that is armed, or a flush that is owed, covers all that is durable.
LEMMA ScheduleStep ==
  ASSUME InboundInv, NEW d \in Deliveries, Schedule(d)
  PROVE  InboundInv'
<1>1. InboundTypeOK /\ Msg(d) \in Messages
  BY DEF InboundInv, InboundTypeOK, Msg
<1>2. /\ delivery' \in [Deliveries -> DeliveryType] /\ ~In(d, "appended")'
      /\ \A e \in Deliveries \ {d} : delivery'[e] = delivery[e]
      /\ accepted' \subseteq Messages
  BY <1>1, Ending DEF Schedule, Acknowledged, InboundTypeOK, In
<1>3. /\ pendingGen' \in Nat /\ seq' \in Nat /\ flushes' \in Nat
      /\ pendingGen' # 0 \/ flushes' > 0
      /\ stopped => pendingGen' = pendingGen
  BY <1>1 DEF Schedule, InboundTypeOK
<1>4. InboundTypeOK'
  BY <1>1, <1>2, <1>3 DEF InboundTypeOK, DeliveryType, Schedule
<1>5. RunFollows'
  BY <1>3 DEF RunFollows
<1>6. Stopped'
  BY <1>3 DEF InboundInv, Stopped, Schedule
<1> QED BY <1>2, <1>4, <1>5, <1>6, Frame DEF Schedule, In

LEMMA BatcherSteps ==
  ASSUME InboundInv, TimerFires \/ (\E g \in firing : OnFire(g)) \/ FlushChatRun \/ FlushAll
  PROVE  InboundInv'
<1>1. InboundTypeOK
  BY DEF InboundInv
<1>2. UNCHANGED << dedup, copies, issues, accepted, delivery, seq >>
  BY DEF TimerFires, OnFire, FlushChatRun, FlushAll
<1>3. Durable' = Durable /\ (\A d \in Deliveries : In(d, "appended")' = In(d, "appended"))
      /\ (\A d \in Deliveries : Msg(d)' = Msg(d))
  BY <1>2 DEF Durable, In, Msg
<1>4. InboundTypeOK' /\ RunFollows' /\ Stopped'
  <2>1. CASE TimerFires
    BY <1>1, <1>2, <1>3, <2>1 DEF InboundInv, InboundTypeOK, TimerFires, RunFollows, Stopped
  <2>2. CASE \E g \in firing : OnFire(g)
    <3>1. PICK g \in firing : OnFire(g)
      BY <2>2
    <3>2. \/ pendingGen' = pendingGen /\ flushes' = flushes
          \/ pendingGen' = 0 /\ flushes' = flushes + 1 /\ ~stopped
      <4>1. CASE pendingGen = g /\ ~stopped
        BY <3>1, <4>1 DEF OnFire, Fire
      <4>2. CASE ~(pendingGen = g /\ ~stopped)
        BY <3>1, <4>2 DEF OnFire, Fire
      <4> QED BY <4>1, <4>2
    <3>3. flushes' \in Nat /\ pendingGen' \in Nat /\ firing' \subseteq Nat
      BY <1>1, <3>1, <3>2 DEF OnFire, Fire, InboundTypeOK
    <3>4. UNCHANGED << stopped, covered, forgiven, faults >>
      BY <3>1 DEF OnFire
    <3>5. InboundTypeOK'
      BY <1>1, <1>2, <3>3, <3>4 DEF InboundTypeOK
    <3>6. RunFollows'
      BY <1>1, <1>3, <3>2, <3>4 DEF InboundInv, RunFollows, InboundTypeOK
    <3> QED BY <3>2, <3>4, <3>5, <3>6 DEF InboundInv, Stopped
  <2>3. CASE FlushChatRun
    <3>1. covered' \subseteq Messages /\ forgiven' \subseteq Messages /\ Durable \subseteq covered' \cup forgiven'
          /\ faults' \in Nat
      BY <1>1, <2>3, FaultType DEF FlushChatRun, Durable, InboundTypeOK
    <3>2. flushes' \in Nat /\ UNCHANGED << pendingGen, firing, stopped >>
      BY <1>1, <2>3 DEF FlushChatRun, InboundTypeOK
    <3> QED BY <1>1, <1>2, <1>3, <3>1, <3>2 DEF InboundTypeOK, RunFollows, InboundInv, Stopped
  <2>4. CASE FlushAll
    <3>1. flushes' \in Nat /\ pendingGen' = 0 /\ (pendingGen # 0 \/ flushes > 0 => flushes' > 0)
          /\ stopped' = TRUE /\ UNCHANGED << firing, covered, forgiven, faults >>
      BY <1>1, <2>4 DEF FlushAll, InboundTypeOK
    <3> QED BY <1>1, <1>2, <1>3, <3>1 DEF InboundTypeOK, RunFollows, InboundInv, Stopped
  <2> QED BY <2>1, <2>2, <2>3, <2>4
<1> QED BY <1>2, <1>4, Frame DEF In

\* A restart forgets the deliveries and the window, and what they owed.
LEMMA RestartStep == InboundInv /\ ServerRestarts => InboundInv'
<1> SUFFICES ASSUME InboundInv, ServerRestarts PROVE InboundInv' OBVIOUS
<1>1. InboundTypeOK
  BY DEF InboundInv
<1>2. /\ dedup' \in [Messages -> ClaimType]
      /\ \A m \in Messages : dedup'[m].state = dedup[m].state
  <2>1. ASSUME NEW x \in ClaimType
        PROVE  [x EXCEPT !.token = NoDelivery] \in ClaimType
               /\ [x EXCEPT !.token = NoDelivery].state = x.state
    BY DEF ClaimType
  <2>2. \A m \in Messages : dedup[m] \in ClaimType
    BY <1>1 DEF InboundTypeOK, ClaimType
  <2> QED BY <2>1, <2>2 DEF ServerRestarts
<1>3. delivery' \in [Deliveries -> DeliveryType] /\ \A d \in Deliveries : ~In(d, "appended")'
  BY RestingType DEF ServerRestarts, In
<1>4. faults' \in Nat
  BY <1>1, FaultType DEF ServerRestarts
<1>5. forgiven' \subseteq Messages
  BY <1>1 DEF ServerRestarts, InboundTypeOK, Durable
<1>6. InboundTypeOK'
  BY <1>1, <1>2, <1>3, <1>4, <1>5 DEF InboundTypeOK, ServerRestarts, ClaimType, DeliveryType
<1>7. Stopped'
  BY DEF ServerRestarts, Stopped
<1>8. RunFollows'
  <2>1. Durable' = Durable /\ covered' = covered
    BY DEF Durable, ServerRestarts
  <2>2. CASE Drained
    <3>1. Durable \subseteq covered \cup forgiven
      BY <2>2 DEF Drained, InboundInv, RunFollows, Stopped, In
    <3> QED BY <2>1, <2>2, <3>1 DEF ServerRestarts, RunFollows
  <2>3. CASE ~Drained
    BY <2>1, <2>3 DEF ServerRestarts, RunFollows
  <2> QED BY <2>2, <2>3
<1> QED BY <1>2, <1>3, <1>6, <1>7, <1>8, Frame DEF ServerRestarts, In

LEMMA InboundStutters == InboundInv /\ UNCHANGED inboundVars => InboundInv'
<1> SUFFICES ASSUME InboundInv, UNCHANGED inboundVars PROVE InboundInv' OBVIOUS
<1>1. InboundTypeOK' /\ Stopped' /\ RunFollows'
  BY DEF InboundInv, InboundTypeOK, Stopped, RunFollows, Durable, In, Msg, inboundVars
<1> QED BY <1>1, Frame DEF inboundVars

LEMMA InboundStepHolds == InboundInv /\ [InboundNext]_inboundVars => InboundInv'
BY ClaimSteps, AppendStep, CreateIssueStep, ScheduleStep, BatcherSteps, RestartStep, InboundStutters
DEF InboundNext, DeliveryStep

-----------------------------------------------------------------------------

LEMMA InboundAlways == InboundSpec => []InboundInv
BY InboundInitHolds, InboundStepHolds, PTL DEF InboundSpec

\* Every variable has its type.
THEOREM InboundTypeCorrect == InboundSpec => []InboundTypeOK
<1>1. InboundInv => InboundTypeOK
  BY DEF InboundInv
<1> QED BY <1>1, InboundAlways, PTL

\* A message is appended at most once and its command carried out at most once,
\* however it is delivered, reclaimed and retried.
THEOREM InboundHandledOnce == InboundSpec => []HandledOnce
<1>1. InboundInv => HandledOnce
  BY DEF InboundInv, Rows, HandledOnce
<1> QED BY <1>1, InboundAlways, PTL

\* Neither the debouncer nor a drained shutdown loses the run of a durable message.
THEOREM InboundRunFollows == InboundSpec => []RunFollows
<1>1. InboundInv => RunFollows
  BY DEF InboundInv
<1> QED BY <1>1, InboundAlways, PTL
=============================================================================
