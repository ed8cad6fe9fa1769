-------------------------- MODULE Federation_proof --------------------------
(***************************************************************************)
(* Proofs about Federation for any set of worlds, any number of letters, and  *)
(* both transports.                                                        *)
(***************************************************************************)
EXTENDS Federation, TLAPS

-----------------------------------------------------------------------------
(***************************************************************************)
(* Sequences of letters and what they hold.                                *)
(***************************************************************************)
SameSender(l, m) == letter[l].from = letter[m].from

\* Letters of one sender stand in the order of their numbers.
InOrder(s) == \A i, j \in DOMAIN s : i < j /\ SameSender(s[i], s[j]) => s[i] < s[j]

Ahead(S, T) == \A l \in S, m \in T : SameSender(l, m) => l < m

LEMMA HeldType ==
    ASSUME NEW S, NEW s \in Seq(S)
    PROVE  Held(s) \subseteq S
  BY \A i \in DOMAIN s : s[i] \in S DEF Held

LEMMA LenAppend ==
    ASSUME NEW S, NEW s \in Seq(S), NEW x \in S
    PROVE  /\ Len(s) \in Nat
           /\ DOMAIN s = 1..Len(s)
           /\ Append(s, x) \in Seq(S)
           /\ Len(Append(s, x)) = Len(s) + 1
           /\ \A i \in DOMAIN s : Append(s, x)[i] = s[i]
           /\ Append(s, x)[Len(s) + 1] = x
  OBVIOUS

\* What an appended letter adds to a sequence.
LEMMA HeldAppend ==
    ASSUME NEW S, NEW s \in Seq(S), NEW x \in S
    PROVE  /\ Append(s, x) \in Seq(S)
           /\ Held(Append(s, x)) = Held(s) \cup {x}
<1>1. Append(s, x) \in Seq(S)
  OBVIOUS
<1>2. DOMAIN Append(s, x) = DOMAIN s \cup {Len(s) + 1}
  OBVIOUS
<1>3. /\ \A i \in DOMAIN s : Append(s, x)[i] = s[i]
      /\ Append(s, x)[Len(s) + 1] = x
  OBVIOUS
<1> QED  BY <1>1, <1>2, <1>3 DEF Held

\* What is left of a sequence without its first letter.
LEMMA HeldTail ==
    ASSUME NEW S, NEW s \in Seq(S), s # <<>>
    PROVE  /\ Head(s) \in S
           /\ Tail(s) \in Seq(S)
           /\ Held(s) = {Head(s)} \cup Held(Tail(s))
<1>1. Head(s) \in S /\ Tail(s) \in Seq(S) /\ Len(s) \in Nat \ {0}
  OBVIOUS
<1>2. Head(s) = s[1] /\ 1 \in DOMAIN s
  OBVIOUS
<1>3. \A i \in DOMAIN Tail(s) : i + 1 \in DOMAIN s /\ Tail(s)[i] = s[i + 1]
  OBVIOUS
<1>4. \A i \in DOMAIN s \ {1} : i - 1 \in DOMAIN Tail(s) /\ Tail(s)[i - 1] = s[i]
  OBVIOUS
<1>5. Held(Tail(s)) \subseteq Held(s)
  BY <1>3 DEF Held
<1>6. Held(s) \subseteq {Head(s)} \cup Held(Tail(s))
  BY <1>2, <1>4 DEF Held
<1> QED  BY <1>1, <1>2, <1>5, <1>6 DEF Held

\* The first letter of an ordered sequence comes before the rest, which is ordered.
LEMMA OrderOfTail ==
    ASSUME NEW s \in Seq(Letters), s # <<>>, InOrder(s)
    PROVE  InOrder(Tail(s)) /\ Ahead({Head(s)}, Held(Tail(s)))
<1>1. Len(s) \in Nat \ {0} /\ Head(s) = s[1] /\ 1 \in DOMAIN s
  OBVIOUS
<1>2. \A i \in DOMAIN Tail(s) : i \in Nat \ {0} /\ i + 1 \in DOMAIN s /\ Tail(s)[i] = s[i + 1]
  OBVIOUS
<1>3. InOrder(Tail(s))
  BY <1>2 DEF InOrder
<1>4. ASSUME NEW i \in DOMAIN Tail(s), SameSender(Head(s), Tail(s)[i])
      PROVE  Head(s) < Tail(s)[i]
  BY <1>1, <1>2, <1>4, 1 < i + 1 DEF InOrder
<1> QED  BY <1>3, <1>4 DEF Ahead, Held

\* A letter behind every other one of its sender may be appended.
LEMMA OrderOfAppend ==
    ASSUME NEW s \in Seq(Letters), NEW x \in Letters, InOrder(s), Ahead(Held(s), {x})
    PROVE  InOrder(Append(s, x))
<1> DEFINE t == Append(s, x)
<1>1. DOMAIN t = 1..(Len(s) + 1) /\ DOMAIN s = 1..Len(s) /\ Len(s) \in Nat
  OBVIOUS
<1>2. (\A i \in DOMAIN s : t[i] = s[i]) /\ t[Len(s) + 1] = x
  OBVIOUS
<1>3. SUFFICES ASSUME NEW i \in DOMAIN t, NEW j \in DOMAIN t, i < j, SameSender(t[i], t[j])
               PROVE  t[i] < t[j]
  BY DEF InOrder
<1>4. i \in DOMAIN s
  BY <1>1, <1>3
<1>5. CASE j \in DOMAIN s
  BY <1>2, <1>3, <1>4, <1>5 DEF InOrder
<1>6. CASE j = Len(s) + 1
  BY <1>2, <1>3, <1>4, <1>6 DEF Ahead, Held
<1> QED  BY <1>1, <1>5, <1>6

-----------------------------------------------------------------------------
(***************************************************************************)
(* Types.                                                                  *)
(***************************************************************************)
\* Between its drains a world holds nothing that it took from its queue.
DrainedInPhase == \A w \in Worlds : phase[w] # "draining" => draining[w] = <<>>

\* In one process nothing is on a wire.
NoWireInMemory == transport = "memory" => \A v, w \in Worlds : wire[v][w] = <<>>

TypeInv == TypeOK /\ DrainedInPhase /\ NoWireInMemory

LEMMA TypeInvInit == Init => TypeInv
<1> SUFFICES ASSUME Init PROVE TypeInv
  OBVIOUS
<1>1. EmptyBus \in [indexed : BOOLEAN, letters : SUBSET Letters]
  BY DEF EmptyBus
<1>2. <<>> \in Seq(Letters) /\ <<>> \in Seq([from : Worlds, to : Worlds]) /\ Len(<<>>) = 0
  OBVIOUS
<1>3. Len(letter) <= MaxLetters
  <2>1. letter = <<>> /\ MaxLetters \in Nat
    BY FederationAssumption DEF Init
  <2> QED  BY <2>1, <1>2
<1>4. wire \in [Worlds -> [Worlds -> Seq(Letters)]]
  BY <1>2 DEF Init
<1>5. bus \in [Worlds -> [indexed : BOOLEAN, letters : SUBSET Letters]]
  BY <1>1 DEF Init
<1>6. TypeOK
  BY <1>2, <1>3, <1>4, <1>5 DEF Init, TypeOK
<1> QED  BY <1>6 DEF TypeInv, DrainedInPhase, NoWireInMemory, Init

\* Opening and closing: start(), stop() and the engine around them.
LEMMA TypeOfLifecycle ==
    ASSUME TypeInv, NEW w \in Worlds,
           \/ StartBegin(w) \/ Registered(w) \/ Subscribed(w) \/ StartFails(w)
           \/ StopBegin(w) \/ FederationStop(w) \/ Unsubscribed(w) \/ Unregistered(w)
           \/ Cleared(w) \/ Finish(w) \/ StopAddressee(w)
    PROVE  TypeInv'
<1> USE DEF TypeInv, TypeOK, DrainedInPhase, NoWireInMemory, fedVars, transportVars, engineVars, historyVars
<1>1. CASE StartBegin(w)
  BY <1>1 DEF StartBegin, Listed
<1>2. CASE Registered(w)
  BY <1>2 DEF Registered
<1>3. CASE Subscribed(w)
  BY <1>3 DEF Subscribed
<1>4. CASE StartFails(w)
  BY <1>4 DEF StartFails
<1>5. CASE StopBegin(w)
  BY <1>5 DEF StopBegin
<1>6. CASE FederationStop(w)
  BY <1>6 DEF FederationStop, Forgotten, Unregister
<1>7. CASE Unsubscribed(w)
  BY <1>7 DEF Unsubscribed, Unregister
<1>8. CASE Unregistered(w)
  BY <1>8 DEF Unregistered
<1>9. CASE Cleared(w)
  BY <1>9 DEF Cleared, EmptyBus
<1>10. CASE Finish(w)
  BY <1>10 DEF Finish
<1>11. CASE StopAddressee(w)
  BY <1>11 DEF StopAddressee
<1> QED  BY <1>1, <1>2, <1>3, <1>4, <1>5, <1>6, <1>7, <1>8, <1>9, <1>10, <1>11

LEMMA TypeOfPublish ==
    ASSUME NEW b \in [indexed : BOOLEAN, letters : SUBSET Letters], NEW l \in Letters
    PROVE  Publish(b, l) \in [indexed : BOOLEAN, letters : SUBSET Letters]
  BY DEF Publish

LEMMA TypeOfTick ==
    ASSUME TypeInv, NEW w \in Worlds, TickStep(w)
    PROVE  TypeInv'
<1> USE DEF TypeInv, TypeOK, DrainedInPhase, NoWireInMemory, fedVars, transportVars, engineVars, historyVars
<1>1. CASE TickBegin(w)
  <2>1. NewTick \in [indexed : BOOLEAN, letters : SUBSET Letters]
    BY DEF NewTick
  <2>2. Held(queue[w]) \subseteq Letters
    BY HeldType
  <2> QED  BY <1>1, <2>1, <2>2 DEF TickBegin, Emptied
<1>2. CASE Drain(w)
  <2> DEFINE l == Head(draining[w])
  <2>1. l \in Letters /\ Tail(draining[w]) \in Seq(Letters)
    BY <1>2, HeldTail DEF Drain
  <2>2. /\ draining' = [draining EXCEPT ![w] = Tail(draining[w])]
        /\ phase[w] = "draining"
        /\ UNCHANGED <<started, starting, unsub, queue, transportVars, running, phase,
                       stopping, present, router, letter, early>>
    BY <1>2 DEF Drain
  <2>3. /\ bus' \in [Worlds -> [indexed : BOOLEAN, letters : SUBSET Letters]]
        /\ arrived' \in [Worlds -> Seq(Letters)]
        /\ due' \in [Worlds -> SUBSET Letters]
    <3>1. CASE HasAddressee(w, l)
      <4>1. Publish(bus[w], l) \in [indexed : BOOLEAN, letters : SUBSET Letters]
        BY <2>1, TypeOfPublish
      <4>2. Append(arrived[w], l) \in Seq(Letters)
        BY <2>1, HeldAppend
      <4>3. /\ bus' = [bus EXCEPT ![w] = Publish(bus[w], l)]
            /\ arrived' = [arrived EXCEPT ![w] = Append(arrived[w], l)]
            /\ due' = due
        BY <1>2, <3>1 DEF Drain, Deliver
      <4> QED  BY <4>1, <4>2, <4>3
    <3>2. CASE ~HasAddressee(w, l)
      <4>1. bus' = bus /\ arrived' = arrived /\ due' = [due EXCEPT ![w] = @ \ {l}]
        BY <1>2, <3>2 DEF Drain
      <4> QED  BY <4>1
    <3> QED  BY <3>1, <3>2
  <2>4. DrainedInPhase'
    BY <2>2
  <2> QED  BY <2>1, <2>2, <2>3, <2>4
<1>3. CASE DrainDone(w)
  BY <1>3 DEF DrainDone, BusAfterDrain
<1>4. CASE AgentsDone(w)
  BY <1>4 DEF AgentsDone
<1> QED  BY <1>1, <1>2, <1>3, <1>4 DEF TickStep

LEMMA TypeOfReceive ==
    ASSUME TypeInv, NEW w \in Worlds, NEW l \in Letters, Receive(w, l)
    PROVE  queue' \in [Worlds -> Seq(Letters)]
<1>1. Append(queue[w], l) \in Seq(Letters)
  BY HeldAppend DEF TypeInv, TypeOK
<1> QED  BY <1>1 DEF Receive, TypeInv, TypeOK

LEMMA TypeOfWire ==
    ASSUME TypeInv, NEW v \in Worlds, NEW w \in Worlds,
           WireDeliver(v, w) \/ WireLose(v, w)
    PROVE  TypeInv'
<1> USE DEF TypeInv, TypeOK, DrainedInPhase, NoWireInMemory, fedVars, transportVars, engineVars, historyVars
<1>1. wire[v][w] # <<>> /\ wire' = [wire EXCEPT ![v][w] = Tail(wire[v][w])]
  BY DEF WireDeliver, WireLose
<1>2. Head(wire[v][w]) \in Letters /\ Tail(wire[v][w]) \in Seq(Letters)
  <2>1. wire[v][w] \in Seq(Letters)
    BY wire[v] \in [Worlds -> Seq(Letters)]
  <2> QED  BY <1>1, <2>1, HeldTail
<1>3. wire' \in [Worlds -> [Worlds -> Seq(Letters)]]
  BY <1>1, <1>2
<1>4. CASE WireDeliver(v, w)
  <2>1. queue' \in [Worlds -> Seq(Letters)]
    BY <1>2, <1>4, TypeOfReceive DEF WireDeliver
  <2> QED  BY <1>3, <1>4, <2>1 DEF WireDeliver
<1>5. CASE WireLose(v, w)
  BY <1>3, <1>5 DEF WireLose
<1> QED  BY <1>4, <1>5

LEMMA TypeOfSend ==
    ASSUME TypeInv, NEW v \in Worlds, NEW w \in Worlds, Send(v, w)
    PROVE  TypeInv'
<1> DEFINE l == Len(letter) + 1
<1>1. l \in Letters
  <2>1. l <= MaxLetters /\ MaxLetters \in Nat
    BY FederationAssumption DEF Send
  <2>2. letter \in Seq([from : Worlds, to : Worlds])
    BY DEF TypeInv, TypeOK
  <2>3. Len(letter) \in Nat
    BY <2>2
  <2> QED  BY <2>1, <2>3 DEF Letters
<1> USE DEF TypeInv, TypeOK, DrainedInPhase, NoWireInMemory
<1>2. letter' \in Seq([from : Worlds, to : Worlds]) /\ Len(letter') = l
  <2>1. letter' = Append(letter, [from |-> v, to |-> w])
    BY DEF Send
  <2>2. letter \in Seq([from : Worlds, to : Worlds])
    OBVIOUS
  <2>3. [from |-> v, to |-> w] \in [from : Worlds, to : Worlds]
    OBVIOUS
  <2> QED  BY <2>1, <2>2, <2>3, LenAppend
<1>3. /\ queue' \in [Worlds -> Seq(Letters)]
      /\ wire' \in [Worlds -> [Worlds -> Seq(Letters)]]
      /\ bus' \in [Worlds -> [indexed : BOOLEAN, letters : SUBSET Letters]]
      /\ arrived' \in [Worlds -> Seq(Letters)]
  <2>1. CASE UNCHANGED <<queue, wire, bus, arrived>>
    BY <2>1
  <2>2. CASE Deliver(w, l) /\ UNCHANGED <<queue, wire>>
    <3>1. Publish(bus[w], l) \in [indexed : BOOLEAN, letters : SUBSET Letters]
      BY <1>1, TypeOfPublish
    <3>2. Append(arrived[w], l) \in Seq(Letters)
      BY <1>1, HeldAppend
    <3> QED  BY <2>2, <3>1, <3>2 DEF Deliver
  <2>3. CASE TransportPublish(v, w, l) /\ UNCHANGED <<bus, arrived>>
    <3>1. CASE Receive(w, l) /\ UNCHANGED wire
      <4>1. queue' \in [Worlds -> Seq(Letters)]
        BY <1>1, <3>1, TypeOfReceive
      <4> QED  BY <2>3, <3>1, <4>1
    <3>2. CASE wire' \in {wire, [wire EXCEPT ![v][w] = Append(@, l)]} /\ UNCHANGED queue
      <4>1. Append(wire[v][w], l) \in Seq(Letters)
        <5>1. wire[v][w] \in Seq(Letters)
          BY wire[v] \in [Worlds -> Seq(Letters)]
        <5> QED  BY <1>1, <5>1, HeldAppend
      <4>2. CASE wire' = wire
        BY <2>3, <3>2, <4>2
      <4>3. CASE wire' = [wire EXCEPT ![v][w] = Append(wire[v][w], l)]
        <5> DEFINE s == Append(wire[v][w], l)
        <5>1. s \in Seq(Letters) /\ wire' = [wire EXCEPT ![v][w] = s]
          BY <4>1, <4>3
        <5> HIDE DEF s
        <5>2. wire' \in [Worlds -> [Worlds -> Seq(Letters)]]
          BY <5>1
        <5> QED  BY <2>3, <3>2, <5>2
      <4> QED  BY <3>2, <4>2, <4>3
    <3> QED  BY <2>3, <3>1, <3>2 DEF TransportPublish
  <2> QED  BY <2>1, <2>2, <2>3 DEF Send
<1>4. l <= MaxLetters
  BY DEF Send
<1>5. UNCHANGED <<started, starting, unsub, draining, transport, handler, nodes, running,
                  phase, stopping, present, router, due, early>>
  BY DEF Send
<1>6. NoWireInMemory'
  <2>1. transport = "memory" => wire' = wire
    BY DEF Send, TransportPublish
  <2>2. transport = "memory" => \A a, b \in Worlds : wire[a][b] = <<>>
    OBVIOUS
  <2>3. transport' = transport
    BY <1>5
  <2>4. ASSUME transport' = "memory" PROVE \A a, b \in Worlds : wire'[a][b] = <<>>
    <3>1. wire' = wire
      BY <2>1, <2>3, <2>4
    <3> QED  BY <2>2, <2>3, <2>4, <3>1
  <2> QED  BY <2>4
<1> QED  BY <1>2, <1>3, <1>4, <1>5, <1>6

LEMMA TypeInvStep ==
    ASSUME TypeInv, [Next]_vars
    PROVE  TypeInv'
<1>1. CASE UNCHANGED vars
  BY <1>1 DEF vars, fedVars, transportVars, engineVars, historyVars, TypeInv, TypeOK,
              DrainedInPhase, NoWireInMemory
<1>2. CASE \E w \in Worlds : Step(w)
  BY <1>2, TypeOfLifecycle, TypeOfTick DEF Step
<1>3. CASE \E v, w \in Worlds : Send(v, w) \/ WireDeliver(v, w) \/ WireLose(v, w)
  BY <1>3, TypeOfSend, TypeOfWire
<1> QED  BY <1>1, <1>2, <1>3 DEF Next

\* Every value keeps its type, for both transports and any worlds.
THEOREM FederationTypes == Spec => []TypeOK
<1>1. TypeInv /\ [Next]_vars => TypeInv'
  BY TypeInvStep
<1>2. TypeInv => TypeOK
  BY DEF TypeInv
<1> QED  BY <1>1, <1>2, TypeInvInit, PTL DEF Spec

-----------------------------------------------------------------------------
(***************************************************************************)
(* The ways of a letter.  Whatever a world does, the mail changes in one of  *)
(* six ways.                                                               *)
(***************************************************************************)
mailVars == <<letter, arrived, queue, draining, wire>>

Written(v, w) ==
    LET l == Len(letter) + 1 IN
    /\ l \in Letters
    /\ letter' = Append(letter, [from |-> v, to |-> w])
    /\ \/ UNCHANGED <<arrived, queue, wire>>
       \/ /\ v = w
          /\ arrived' = [arrived EXCEPT ![w] = Append(arrived[w], l)]
          /\ UNCHANGED <<queue, wire>>
       \/ /\ v # w /\ wire[v][w] = <<>>
          /\ queue' = [queue EXCEPT ![w] = Append(queue[w], l)]
          /\ UNCHANGED <<arrived, wire>>
       \/ /\ v # w
          /\ wire' = [wire EXCEPT ![v][w] = Append(wire[v][w], l)]
          /\ UNCHANGED <<arrived, queue>>
    /\ UNCHANGED draining

Brought(v, w) ==
    /\ wire[v][w] # <<>>
    /\ wire' = [wire EXCEPT ![v][w] = Tail(wire[v][w])]
    /\ queue' = [queue EXCEPT ![w] = Append(queue[w], Head(wire[v][w]))]
    /\ UNCHANGED <<letter, arrived, draining>>

Vanished(v, w) ==
    /\ wire[v][w] # <<>>
    /\ wire' = [wire EXCEPT ![v][w] = Tail(wire[v][w])]
    /\ UNCHANGED <<letter, arrived, queue, draining>>

Taken(w) ==
    /\ draining[w] = <<>>
    /\ draining' = [draining EXCEPT ![w] = queue[w]]
    /\ queue' = [queue EXCEPT ![w] = <<>>]
    /\ UNCHANGED <<letter, arrived, wire>>

Published(w) ==
    /\ draining[w] # <<>>
    /\ draining' = [draining EXCEPT ![w] = Tail(draining[w])]
    /\ arrived' = [arrived EXCEPT ![w] = Append(arrived[w], Head(draining[w]))]
    /\ UNCHANGED <<letter, queue, wire>>

Refused(w) ==
    /\ draining[w] # <<>>
    /\ draining' = [draining EXCEPT ![w] = Tail(draining[w])]
    /\ UNCHANGED <<letter, arrived, queue, wire>>

LEMMA WaysOfALetter ==
    ASSUME TypeInv, [Next]_vars
    PROVE  \/ UNCHANGED mailVars
           \/ \E v, w \in Worlds : Written(v, w) \/ Brought(v, w) \/ Vanished(v, w)
           \/ \E w \in Worlds : Taken(w) \/ Published(w) \/ Refused(w)
<1> USE DEF mailVars
<1>1. CASE UNCHANGED vars
  BY <1>1 DEF vars, fedVars, transportVars, historyVars
<1>2. ASSUME NEW w \in Worlds, Step(w)
      PROVE  UNCHANGED mailVars \/ Taken(w) \/ Published(w) \/ Refused(w)
  <2> USE DEF fedVars, transportVars, historyVars
  <2>1. CASE \/ StartBegin(w) \/ Registered(w) \/ Subscribed(w) \/ StartFails(w)
             \/ StopBegin(w) \/ FederationStop(w) \/ Unsubscribed(w) \/ Unregistered(w)
             \/ Cleared(w) \/ Finish(w) \/ StopAddressee(w)
    BY <2>1 DEF StartBegin, Registered, Subscribed, StartFails, StopBegin, FederationStop,
                Unsubscribed, Unregistered, Cleared, Finish, StopAddressee
  <2>2. CASE TickBegin(w)
    <3>1. draining[w] = <<>>
      BY <2>2 DEF TickBegin, TypeInv, DrainedInPhase
    <3> QED  BY <2>2, <3>1 DEF TickBegin, Emptied, Taken
  <2>3. CASE Drain(w)
    <3>1. CASE HasAddressee(w, Head(draining[w]))
      BY <2>3, <3>1 DEF Drain, Deliver, Published
    <3>2. CASE ~HasAddressee(w, Head(draining[w]))
      BY <2>3, <3>2 DEF Drain, Refused
    <3> QED  BY <3>1, <3>2
  <2>4. CASE DrainDone(w) \/ AgentsDone(w)
    BY <2>4 DEF DrainDone, AgentsDone
  <2> QED  BY <1>2, <2>1, <2>2, <2>3, <2>4 DEF Step, TickStep
<1>3. ASSUME NEW v \in Worlds, NEW w \in Worlds, Send(v, w)
      PROVE  Written(v, w)
  <2> DEFINE l == Len(letter) + 1
  <2>1. l \in Letters
    <3>1. l <= MaxLetters /\ MaxLetters \in Nat
      BY <1>3, FederationAssumption DEF Send
    <3>2. letter \in Seq([from : Worlds, to : Worlds])
      BY DEF TypeInv, TypeOK
    <3>3. Len(letter) \in Nat
      BY <3>2
    <3> QED  BY <3>1, <3>3 DEF Letters
  <2>2. letter' = Append(letter, [from |-> v, to |-> w]) /\ UNCHANGED draining
    BY <1>3 DEF Send
  <2>3. CASE UNCHANGED <<queue, wire, bus, arrived>>
    BY <2>1, <2>2, <2>3 DEF Written
  <2>4. CASE v = w /\ Deliver(w, l) /\ UNCHANGED <<queue, wire>>
    BY <2>1, <2>2, <2>4 DEF Written, Deliver
  <2>5. CASE v # w /\ TransportPublish(v, w, l) /\ UNCHANGED <<bus, arrived>>
    <3>1. transport = "memory" => wire[v][w] = <<>>
      BY DEF TypeInv, NoWireInMemory
    <3> QED  BY <2>1, <2>2, <2>5, <3>1 DEF Written, TransportPublish, Receive
  <2> QED  BY <1>3, <2>3, <2>4, <2>5 DEF Send
<1>4. ASSUME NEW v \in Worlds, NEW w \in Worlds, WireDeliver(v, w)
      PROVE  Brought(v, w) \/ Vanished(v, w)
  BY <1>4 DEF WireDeliver, Receive, Brought, Vanished, historyVars
<1>5. ASSUME NEW v \in Worlds, NEW w \in Worlds, WireLose(v, w)
      PROVE  Vanished(v, w)
  BY <1>5 DEF WireLose, Vanished, fedVars, historyVars
<1> QED  BY <1>1, <1>2, <1>3, <1>4, <1>5 DEF Next

-----------------------------------------------------------------------------
(***************************************************************************)
(* The order of the mail.  A letter is in one place, and what is on its way   *)
(* is behind what has come: arrived, drained, queued, on the wire.            *)
(***************************************************************************)
Addressed(l, w) == l \in DOMAIN letter /\ letter[l].to = w
Foreign(l, w) == Addressed(l, w) /\ letter[l].from # w

WellAddressed ==
    \A w \in Worlds :
        /\ \A l \in Held(arrived[w]) : Addressed(l, w)
        /\ \A l \in Held(draining[w]) \cup Held(queue[w]) : Foreign(l, w)
        /\ \A v \in Worlds : \A l \in Held(wire[v][w]) : Foreign(l, w) /\ letter[l].from = v

InboxInOrder ==
    \A w \in Worlds :
        /\ InOrder(draining[w]) /\ InOrder(queue[w])
        /\ Ahead(Held(arrived[w]), Held(draining[w]) \cup Held(queue[w]))
        /\ Ahead(Held(draining[w]), Held(queue[w]))

WireInOrder ==
    \A v, w \in Worlds :
        /\ InOrder(wire[v][w])
        /\ Ahead(Held(arrived[w]) \cup Held(draining[w]) \cup Held(queue[w]), Held(wire[v][w]))

MailInv == WellAddressed /\ InboxInOrder /\ WireInOrder

LEMMA MailInvInit == Init => MailInv
<1> SUFFICES ASSUME Init PROVE MailInv
  OBVIOUS
<1>1. Held(<<>>) = {} /\ InOrder(<<>>)
  BY DEF Held, InOrder
<1>2. \A w \in Worlds : arrived[w] = <<>> /\ draining[w] = <<>> /\ queue[w] = <<>>
  BY DEF Init
<1>3. \A v, w \in Worlds : wire[v][w] = <<>>
  BY DEF Init
<1>4. WellAddressed
  BY <1>1, <1>2, <1>3 DEF WellAddressed
<1>5. InboxInOrder
  BY <1>1, <1>2 DEF InboxInOrder, Ahead
<1>6. WireInOrder
  BY <1>1, <1>2, <1>3 DEF WireInOrder, Ahead
<1> QED  BY <1>4, <1>5, <1>6 DEF MailInv

\* The types that the mail has before and after a step.
LEMMA MailTypes ==
    ASSUME TypeInv, NEW v \in Worlds, NEW w \in Worlds
    PROVE  /\ arrived[w] \in Seq(Letters) /\ draining[w] \in Seq(Letters)
           /\ queue[w] \in Seq(Letters) /\ wire[v][w] \in Seq(Letters)
           /\ letter \in Seq([from : Worlds, to : Worlds])
           /\ wire \in [Worlds -> [Worlds -> Seq(Letters)]]
           /\ queue \in [Worlds -> Seq(Letters)]
           /\ draining \in [Worlds -> Seq(Letters)]
           /\ arrived \in [Worlds -> Seq(Letters)]
<1>1. wire[v] \in [Worlds -> Seq(Letters)]
  BY DEF TypeInv, TypeOK
<1> QED  BY <1>1 DEF TypeInv, TypeOK

\* A letter comes off the wire, into the queue or not.
LEMMA OrderOffTheWire ==
    ASSUME TypeInv, MailInv, NEW v \in Worlds, NEW w \in Worlds,
           Brought(v, w) \/ Vanished(v, w)
    PROVE  MailInv'
<1> DEFINE x == Head(wire[v][w])
<1>1. /\ wire[v][w] # <<>> /\ letter' = letter /\ arrived' = arrived /\ draining' = draining
      /\ wire' = [wire EXCEPT ![v][w] = Tail(wire[v][w])]
  BY DEF Brought, Vanished
<1>2. /\ x \in Letters
      /\ Held(wire[v][w]) = {x} \cup Held(Tail(wire[v][w]))
      /\ InOrder(Tail(wire[v][w])) /\ Ahead({x}, Held(Tail(wire[v][w])))
  BY <1>1, MailTypes, HeldTail, OrderOfTail DEF MailInv, WireInOrder
<1>3. /\ wire'[v][w] = Tail(wire[v][w])
      /\ \A a, b \in Worlds : <<a, b>> # <<v, w>> => wire'[a][b] = wire[a][b]
  BY <1>1, MailTypes
<1>4. Foreign(x, w) /\ letter[x].from = v
  BY <1>2 DEF MailInv, WellAddressed
<1>5. \A b \in Worlds : Held(queue'[b]) \subseteq Held(queue[b]) \cup (IF b = w THEN {x} ELSE {})
  <2>1. CASE queue' = queue
    BY <2>1
  <2>2. CASE queue' = [queue EXCEPT ![w] = Append(queue[w], x)]
    <3>1. Held(Append(queue[w], x)) = Held(queue[w]) \cup {x}
      BY <1>2, MailTypes, HeldAppend
    <3>2. queue'[w] = Append(queue[w], x) /\ \A b \in Worlds \ {w} : queue'[b] = queue[b]
      BY <2>2, MailTypes
    <3> QED  BY <3>1, <3>2
  <2> QED  BY <2>1, <2>2 DEF Brought, Vanished
<1>6. WellAddressed'
  BY <1>1, <1>2, <1>3, <1>4, <1>5 DEF MailInv, WellAddressed, Addressed, Foreign
<1>7. \A b \in Worlds : InOrder(queue'[b])
  <2>1. CASE queue' = queue
    BY <2>1 DEF MailInv, InboxInOrder
  <2>2. CASE queue' = [queue EXCEPT ![w] = Append(queue[w], x)]
    <3>1. Ahead(Held(queue[w]), {x})
      BY <1>2 DEF MailInv, WireInOrder, Ahead
    <3>2. InOrder(Append(queue[w], x))
      BY <1>2, <3>1, MailTypes, OrderOfAppend DEF MailInv, InboxInOrder
    <3> QED  BY <2>2, <3>2, MailTypes DEF MailInv, InboxInOrder
  <2> QED  BY <2>1, <2>2 DEF Brought, Vanished
<1>8. (\A b \in Worlds : InOrder(queue[b]))'
  BY <1>1, <1>7 DEF InOrder, SameSender
<1>9. InboxInOrder'
  <2> SUFFICES ASSUME NEW b \in Worlds
               PROVE  /\ InOrder(draining[b])'
                      /\ Ahead(Held(arrived[b]), Held(draining[b]) \cup Held(queue[b]))'
                      /\ Ahead(Held(draining[b]), Held(queue[b]))'
    BY <1>8 DEF InboxInOrder
  <2>1. InOrder(draining[b])'
    BY <1>1 DEF InOrder, SameSender, MailInv, InboxInOrder
  <2>2. Ahead(Held(arrived[b]) \cup Held(draining[b]), Held(queue'[b]))
    BY <1>2, <1>5 DEF Ahead, MailInv, InboxInOrder, WireInOrder
  <2>3. Ahead(Held(arrived[b]), Held(draining[b]))
    BY DEF Ahead, MailInv, InboxInOrder
  <2> QED  BY <1>1, <2>1, <2>2, <2>3 DEF Ahead, SameSender
<1>10. WireInOrder'
  <2> SUFFICES ASSUME NEW a \in Worlds, NEW b \in Worlds
               PROVE  /\ InOrder(wire[a][b])'
                      /\ Ahead(Held(arrived[b]) \cup Held(draining[b]) \cup Held(queue[b]),
                               Held(wire[a][b]))'
    BY DEF WireInOrder
  <2>1. InOrder(wire'[a][b])
    BY <1>2, <1>3 DEF MailInv, WireInOrder
  <2>2. Ahead(Held(arrived[b]) \cup Held(draining[b]) \cup Held(queue[b]), Held(wire'[a][b]))
    BY <1>2, <1>3 DEF Ahead, MailInv, WireInOrder
  <2>3. b = w => Ahead({x}, Held(wire'[a][b]))
    <3>1. CASE a = v
      BY <1>2, <1>3, <3>1
    <3>2. CASE a # v
      BY <1>3, <1>4, <3>2 DEF Ahead, SameSender, MailInv, WellAddressed
    <3> QED  BY <3>1, <3>2
  <2>4. Ahead(Held(arrived[b]) \cup Held(draining[b]) \cup Held(queue'[b]), Held(wire'[a][b]))
    BY <1>5, <2>2, <2>3 DEF Ahead
  <2> QED  BY <1>1, <2>1, <2>4 DEF Ahead, InOrder, SameSender
<1> QED  BY <1>6, <1>9, <1>10 DEF MailInv

\* A tick takes the queue: what was waiting is now being drained.
LEMMA OrderOfTaken ==
    ASSUME TypeInv, MailInv, NEW w \in Worlds, Taken(w)
    PROVE  MailInv'
<1>1. /\ Held(<<>>) = {} /\ InOrder(<<>>)
      /\ letter' = letter /\ arrived' = arrived /\ wire' = wire
  BY DEF Held, InOrder, Taken
<1>2. /\ draining[w] = <<>>
      /\ draining'[w] = queue[w] /\ queue'[w] = <<>>
      /\ \A b \in Worlds \ {w} : draining'[b] = draining[b] /\ queue'[b] = queue[b]
  BY MailTypes DEF Taken
<1>3. \A b \in Worlds : /\ Held(draining'[b]) \subseteq Held(draining[b]) \cup Held(queue[b])
                        /\ Held(queue'[b]) \subseteq Held(queue[b])
  BY <1>1, <1>2
<1>4. WellAddressed'
  BY <1>1, <1>3 DEF MailInv, WellAddressed, Addressed, Foreign
<1>5. InboxInOrder'
  <2> SUFFICES ASSUME NEW b \in Worlds
               PROVE  /\ InOrder(draining'[b]) /\ InOrder(queue'[b])
                      /\ Ahead(Held(arrived[b]), Held(draining'[b]) \cup Held(queue'[b]))
                      /\ Ahead(Held(draining'[b]), Held(queue'[b]))
    BY <1>1 DEF InboxInOrder, Ahead, InOrder, SameSender
  <2>1. CASE b = w
    BY <1>1, <1>2, <2>1 DEF MailInv, InboxInOrder, Ahead
  <2>2. CASE b # w
    BY <1>2, <2>2 DEF MailInv, InboxInOrder
  <2> QED  BY <2>1, <2>2
<1>6. WireInOrder'
  <2> SUFFICES ASSUME NEW a \in Worlds, NEW b \in Worlds
               PROVE  /\ InOrder(wire[a][b])
                      /\ Ahead(Held(arrived[b]) \cup Held(draining'[b]) \cup Held(queue'[b]),
                               Held(wire[a][b]))
    BY <1>1 DEF WireInOrder, Ahead, InOrder, SameSender
  <2> QED  BY <1>3 DEF MailInv, WireInOrder, Ahead
<1> QED  BY <1>4, <1>5, <1>6 DEF MailInv

\* The first letter of the drain is published or refused.
LEMMA OrderOfDrain ==
    ASSUME TypeInv, MailInv, NEW w \in Worlds, Published(w) \/ Refused(w)
    PROVE  MailInv'
<1> DEFINE x == Head(draining[w])
<1>1. /\ draining[w] # <<>> /\ letter' = letter /\ queue' = queue /\ wire' = wire
      /\ draining' = [draining EXCEPT ![w] = Tail(draining[w])]
  BY DEF Published, Refused
<1>2. /\ x \in Letters
      /\ Held(draining[w]) = {x} \cup Held(Tail(draining[w]))
      /\ InOrder(Tail(draining[w])) /\ Ahead({x}, Held(Tail(draining[w])))
  BY <1>1, MailTypes, HeldTail, OrderOfTail DEF MailInv, InboxInOrder
<1>3. /\ draining'[w] = Tail(draining[w])
      /\ \A b \in Worlds \ {w} : draining'[b] = draining[b]
  BY <1>1, MailTypes
<1>4. \A b \in Worlds :
          Held(arrived'[b]) \subseteq Held(arrived[b]) \cup (IF b = w THEN {x} ELSE {})
  <2>1. CASE Refused(w)
    BY <2>1 DEF Refused
  <2>2. CASE Published(w)
    <3>1. Held(Append(arrived[w], x)) = Held(arrived[w]) \cup {x}
      BY <1>2, MailTypes, HeldAppend
    <3>2. /\ arrived'[w] = Append(arrived[w], x)
          /\ \A b \in Worlds \ {w} : arrived'[b] = arrived[b]
      BY <2>2, MailTypes DEF Published
    <3> QED  BY <3>1, <3>2
  <2> QED  BY <2>1, <2>2
<1>5. \A b \in Worlds : Held(draining'[b]) \subseteq Held(draining[b])
  BY <1>2, <1>3
<1>6. WellAddressed'
  BY <1>1, <1>2, <1>4, <1>5 DEF MailInv, WellAddressed, Addressed, Foreign
<1>7. InboxInOrder'
  <2> SUFFICES ASSUME NEW b \in Worlds
               PROVE  /\ InOrder(draining'[b]) /\ InOrder(queue[b])
                      /\ Ahead(Held(arrived'[b]), Held(draining'[b]) \cup Held(queue[b]))
                      /\ Ahead(Held(draining'[b]), Held(queue[b]))
    BY <1>1 DEF InboxInOrder, Ahead, InOrder, SameSender
  <2>1. InOrder(draining'[b]) /\ InOrder(queue[b])
    BY <1>2, <1>3 DEF MailInv, InboxInOrder
  <2>2. Ahead(Held(draining'[b]), Held(queue[b]))
    BY <1>5 DEF MailInv, InboxInOrder, Ahead
  <2>3. Ahead(Held(arrived[b]), Held(draining'[b]) \cup Held(queue[b]))
    BY <1>5 DEF MailInv, InboxInOrder, Ahead
  <2>4. b = w => Ahead({x}, Held(draining'[b]) \cup Held(queue[b]))
    BY <1>2, <1>3 DEF MailInv, InboxInOrder, Ahead
  <2>5. Ahead(Held(arrived'[b]), Held(draining'[b]) \cup Held(queue[b]))
    BY <1>4, <2>3, <2>4 DEF Ahead
  <2> QED  BY <2>1, <2>2, <2>5
<1>8. WireInOrder'
  <2> SUFFICES ASSUME NEW a \in Worlds, NEW b \in Worlds
               PROVE  /\ InOrder(wire[a][b])
                      /\ Ahead(Held(arrived'[b]) \cup Held(draining'[b]) \cup Held(queue[b]),
                               Held(wire[a][b]))
    BY <1>1 DEF WireInOrder, Ahead, InOrder, SameSender
  <2>1. Held(arrived'[b]) \subseteq Held(arrived[b]) \cup Held(draining[b])
    BY <1>2, <1>4
  <2> QED  BY <1>5, <2>1 DEF MailInv, WireInOrder, Ahead
<1> QED  BY <1>6, <1>7, <1>8 DEF MailInv

\* Writing a letter changes neither the others nor their order.
LEMMA OldLettersKept ==
    ASSUME TypeInv, NEW v \in Worlds, NEW w \in Worlds, Written(v, w)
    PROVE  /\ Len(letter) + 1 \in Letters
           /\ DOMAIN letter' = DOMAIN letter \cup {Len(letter) + 1}
           /\ \A m \in DOMAIN letter : m \in Nat /\ m < Len(letter) + 1 /\ letter'[m] = letter[m]
           /\ letter'[Len(letter) + 1].from = v
           /\ letter'[Len(letter) + 1].to = w
<1>1. /\ letter \in Seq([from : Worlds, to : Worlds])
      /\ [from |-> v, to |-> w] \in [from : Worlds, to : Worlds]
  BY MailTypes
<1>2. letter' = Append(letter, [from |-> v, to |-> w]) /\ Len(letter) + 1 \in Letters
  BY DEF Written
<1>3. /\ Len(letter) \in Nat
      /\ DOMAIN letter = 1..Len(letter)
      /\ letter' \in Seq([from : Worlds, to : Worlds])
      /\ Len(letter') = Len(letter) + 1
      /\ \A i \in DOMAIN letter : letter'[i] = letter[i]
      /\ letter'[Len(letter) + 1] = [from |-> v, to |-> w]
  BY <1>1, <1>2, LenAppend
<1>4. DOMAIN letter' = 1..(Len(letter) + 1)
  BY <1>3
<1> QED  BY <1>2, <1>3, <1>4

LEMMA OrderOfWritten ==
    ASSUME TypeInv, MailInv, NEW v \in Worlds, NEW w \in Worlds, Written(v, w)
    PROVE  MailInv'
<1>1. PICK x \in Letters : x = Len(letter) + 1
  BY OldLettersKept
<1>2. /\ DOMAIN letter' = DOMAIN letter \cup {x}
      /\ \A m \in DOMAIN letter : m \in Nat /\ m < x /\ letter'[m] = letter[m]
      /\ letter'[x].from = v /\ letter'[x].to = w
      /\ draining' = draining
  BY <1>1, OldLettersKept DEF Written
\* Where the new letter goes.
<1>3. \/ /\ UNCHANGED <<arrived, queue, wire>>
      \/ /\ v = w
         /\ arrived' = [arrived EXCEPT ![w] = Append(arrived[w], x)]
         /\ UNCHANGED <<queue, wire>>
      \/ /\ v # w /\ wire[v][w] = <<>>
         /\ queue' = [queue EXCEPT ![w] = Append(queue[w], x)]
         /\ UNCHANGED <<arrived, wire>>
      \/ /\ v # w
         /\ wire' = [wire EXCEPT ![v][w] = Append(wire[v][w], x)]
         /\ UNCHANGED <<arrived, queue>>
  BY <1>1 DEF Written
<1>4. \A b \in Worlds : \/ arrived'[b] = arrived[b]
                        \/ /\ b = w /\ v = w /\ queue' = queue /\ wire' = wire
                           /\ Held(arrived'[b]) = Held(arrived[b]) \cup {x}
  <2>1. Held(Append(arrived[w], x)) = Held(arrived[w]) \cup {x}
    BY MailTypes, HeldAppend
  <2> QED  BY <1>3, <2>1, MailTypes
<1>5. \A b \in Worlds : \/ queue'[b] = queue[b]
                        \/ /\ b = w /\ v # w /\ wire[v][w] = <<>>
                           /\ arrived' = arrived /\ wire' = wire
                           /\ queue'[b] = Append(queue[b], x)
                           /\ Held(queue'[b]) = Held(queue[b]) \cup {x}
  <2>1. Held(Append(queue[w], x)) = Held(queue[w]) \cup {x}
    BY MailTypes, HeldAppend
  <2> QED  BY <1>3, <2>1, MailTypes
<1>6. \A a, b \in Worlds : \/ wire'[a][b] = wire[a][b]
                           \/ /\ a = v /\ b = w /\ v # w
                              /\ arrived' = arrived /\ queue' = queue
                              /\ wire'[a][b] = Append(wire[a][b], x)
                              /\ Held(wire'[a][b]) = Held(wire[a][b]) \cup {x}
  <2>1. Held(Append(wire[v][w], x)) = Held(wire[v][w]) \cup {x}
    BY MailTypes, HeldAppend
  <2>2. CASE wire' = wire
    BY <2>2
  <2>3. CASE /\ v # w
             /\ wire' = [wire EXCEPT ![v][w] = Append(wire[v][w], x)]
             /\ UNCHANGED <<arrived, queue>>
    <3>1. /\ wire'[v][w] = Append(wire[v][w], x)
          /\ \A a, b \in Worlds : <<a, b>> # <<v, w>> => wire'[a][b] = wire[a][b]
      BY <2>3, MailTypes
    <3> QED  BY <2>1, <2>3, <3>1
  <2> QED  BY <1>3, <2>2, <2>3
\* The letters that were there are older than the new one.
<1>7. /\ \A b \in Worlds : /\ Held(arrived[b]) \subseteq DOMAIN letter
                           /\ Held(draining[b]) \subseteq DOMAIN letter
                           /\ Held(queue[b]) \subseteq DOMAIN letter
      /\ \A a, b \in Worlds : Held(wire[a][b]) \subseteq DOMAIN letter
  BY DEF MailInv, WellAddressed, Foreign, Addressed
<1>8. \A b \in Worlds : \A l \in Held(queue'[b]) :
          l \in Held(queue[b]) \/ (l = x /\ b = w /\ v # w)
  BY <1>5
<1>9. \A a, b \in Worlds : \A l \in Held(wire'[a][b]) :
          l \in Held(wire[a][b]) \/ (l = x /\ a = v /\ b = w /\ v # w)
  BY <1>6
<1>10. ASSUME NEW s \in Seq(Letters), Held(s) \subseteq DOMAIN letter, InOrder(s)
      PROVE  InOrder(s)' /\ InOrder(Append(s, x))'
  <2>1. \A i \in DOMAIN s : s[i] \in DOMAIN letter
    BY <1>10 DEF Held
  <2>2. InOrder(s)'
    BY <1>2, <1>10, <2>1 DEF InOrder, SameSender
  <2>3. /\ Len(s) \in Nat /\ DOMAIN s = 1..Len(s)
        /\ DOMAIN Append(s, x) = 1..(Len(s) + 1)
        /\ \A i \in DOMAIN s : Append(s, x)[i] = s[i]
        /\ Append(s, x)[Len(s) + 1] = x
    BY <1>10
  <2>4. ASSUME NEW i \in DOMAIN Append(s, x), NEW j \in DOMAIN Append(s, x), i < j,
               SameSender(Append(s, x)[i], Append(s, x)[j])'
        PROVE  Append(s, x)[i] < Append(s, x)[j]
    <3>1. i \in DOMAIN s
      BY <2>3, <2>4
    <3>2. CASE j \in DOMAIN s
      BY <2>2, <2>3, <2>4, <3>1, <3>2 DEF InOrder
    <3>3. CASE j = Len(s) + 1
      BY <1>2, <2>1, <2>3, <3>1, <3>3
    <3> QED  BY <2>3, <3>2, <3>3
  <2> QED  BY <2>2, <2>4 DEF InOrder
<1>11. WellAddressed'
  <2> USE DEF MailInv, WellAddressed, Addressed, Foreign
  <2>1. \A b \in Worlds : \A l \in Held(arrived'[b]) : Addressed(l, b)'
    BY <1>2, <1>4, <1>7
  <2>2. \A b \in Worlds : \A l \in Held(draining[b]) \cup Held(queue'[b]) : Foreign(l, b)'
    BY <1>2, <1>7, <1>8
  <2>3. \A a, b \in Worlds : \A l \in Held(wire'[a][b]) : Foreign(l, b)' /\ letter'[l].from = a
    BY <1>2, <1>7, <1>9
  <2> QED  BY <1>2, <2>1, <2>2, <2>3
<1>12. InboxInOrder'
  <2> SUFFICES ASSUME NEW b \in Worlds
               PROVE  /\ InOrder(draining[b])' /\ InOrder(queue[b])'
                      /\ Ahead(Held(arrived[b]), Held(draining[b]) \cup Held(queue[b]))'
                      /\ Ahead(Held(draining[b]), Held(queue[b]))'
    BY DEF InboxInOrder
  <2>1. /\ InOrder(draining[b]) /\ InOrder(queue[b])
        /\ draining[b] \in Seq(Letters) /\ queue[b] \in Seq(Letters)
    BY MailTypes DEF MailInv, InboxInOrder
  <2>2. InOrder(draining[b])'
    BY <1>2, <1>7, <1>10, <2>1
  <2>3. InOrder(queue[b])'
    BY <1>5, <1>7, <1>10, <2>1
  <2>4. Ahead(Held(draining[b]), Held(queue[b]))'
    <3>1. Ahead(Held(draining[b]), Held(queue[b]))
      BY DEF MailInv, InboxInOrder
    <3>2. ASSUME NEW l \in Held(draining[b]), NEW m \in Held(queue'[b]), SameSender(l, m)'
          PROVE  l < m
      <4>1. l \in DOMAIN letter /\ (m = x \/ (m \in DOMAIN letter /\ m \in Held(queue[b])))
        <5>1. l \in DOMAIN letter
          BY <1>7
        <5>2. m \in Held(queue[b]) \/ m = x
          BY <1>8
        <5>3. m \in Held(queue[b]) => m \in DOMAIN letter
          BY <1>7
        <5> QED  BY <5>1, <5>2, <5>3
      <4>2. m = x => l < m
        BY <1>2, <4>1
      <4>3. m \in DOMAIN letter => SameSender(l, m)
        BY <1>2, <3>2, <4>1 DEF SameSender
      <4> QED  BY <3>1, <4>1, <4>2, <4>3 DEF Ahead
    <3> QED  BY <1>2, <3>2 DEF Ahead
  <2>5. Ahead(Held(arrived[b]), Held(draining[b]) \cup Held(queue[b]))'
    <3>1. Ahead(Held(arrived[b]), Held(draining[b]) \cup Held(queue[b]))
      BY DEF MailInv, InboxInOrder
    <3>2. CASE arrived'[b] = arrived[b]
      <4>1. ASSUME NEW l \in Held(arrived[b]),
                   NEW m \in Held(draining[b]) \cup Held(queue'[b]), SameSender(l, m)'
            PROVE  l < m
        <5>1. /\ l \in DOMAIN letter
              /\ m = x \/ (m \in DOMAIN letter /\ m \in Held(draining[b]) \cup Held(queue[b]))
          <6>1. l \in DOMAIN letter
            BY <1>7
          <6>2. m \in Held(draining[b]) \/ m \in Held(queue[b]) \/ m = x
            BY <1>8
          <6>3. m \in Held(draining[b]) \cup Held(queue[b]) => m \in DOMAIN letter
            BY <1>7
          <6> QED  BY <6>1, <6>2, <6>3
        <5>2. m = x => l < m
          BY <1>2, <5>1
        <5>3. m \in DOMAIN letter => SameSender(l, m)
          BY <1>2, <4>1, <5>1 DEF SameSender
        <5> QED  BY <3>1, <5>1, <5>2, <5>3 DEF Ahead
      <4> QED  BY <1>2, <3>2, <4>1 DEF Ahead
    <3>3. CASE /\ b = w /\ v = w /\ queue' = queue
               /\ Held(arrived'[b]) = Held(arrived[b]) \cup {x}
      <4>1. \A m \in Held(draining[b]) \cup Held(queue[b]) : letter'[m].from # letter'[x].from
        BY <1>2, <1>7, <3>3 DEF MailInv, WellAddressed, Foreign
      <4> QED  BY <1>2, <1>7, <3>1, <3>3, <4>1 DEF Ahead, SameSender
    <3> QED  BY <1>4, <3>2, <3>3
  <2> QED  BY <2>2, <2>3, <2>4, <2>5
<1>13. WireInOrder'
  <2> SUFFICES ASSUME NEW a \in Worlds, NEW b \in Worlds
               PROVE  /\ InOrder(wire[a][b])'
                      /\ Ahead(Held(arrived[b]) \cup Held(draining[b]) \cup Held(queue[b]),
                               Held(wire[a][b]))'
    BY DEF WireInOrder
  <2>1. InOrder(wire[a][b]) /\ wire[a][b] \in Seq(Letters)
    BY MailTypes DEF MailInv, WireInOrder
  <2>2. InOrder(wire[a][b])'
    BY <1>6, <1>7, <1>10, <2>1
  <2>3. Ahead(Held(arrived[b]) \cup Held(draining[b]) \cup Held(queue[b]), Held(wire[a][b]))
    BY DEF MailInv, WireInOrder
  <2>4. CASE arrived'[b] = arrived[b] /\ queue'[b] = queue[b]
    <3>1. ASSUME NEW l \in Held(arrived[b]) \cup Held(draining[b]) \cup Held(queue[b]),
                 NEW m \in Held(wire'[a][b]), SameSender(l, m)'
          PROVE  l < m
      <4>1. l \in DOMAIN letter /\ (m = x \/ (m \in DOMAIN letter /\ m \in Held(wire[a][b])))
        <5>1. l \in DOMAIN letter
          BY <1>7
        <5>2. m \in Held(wire[a][b]) \/ m = x
          BY <1>9
        <5>3. m \in Held(wire[a][b]) => m \in DOMAIN letter
          BY <1>7
        <5> QED  BY <5>1, <5>2, <5>3
      <4>2. m = x => l < m
        BY <1>2, <4>1
      <4>3. m \in DOMAIN letter => SameSender(l, m)
        BY <1>2, <3>1, <4>1 DEF SameSender
      <4> QED  BY <2>3, <4>1, <4>2, <4>3 DEF Ahead
    <3> QED  BY <1>2, <2>2, <2>4, <3>1 DEF Ahead
  <2>5. CASE \/ arrived'[b] # arrived[b]
             \/ queue'[b] # queue[b]
    <3>1. /\ wire'[a][b] = wire[a][b] /\ b = w
          /\ Held(arrived'[b]) \cup Held(queue'[b]) = Held(arrived[b]) \cup Held(queue[b]) \cup {x}
      BY <1>4, <1>5, <2>5
    <3>2. \A m \in Held(wire[a][b]) : letter'[m].from # letter'[x].from
      <4> SUFFICES ASSUME NEW m \in Held(wire[a][b]), a = v
                   PROVE  FALSE
        BY <1>2, <1>7 DEF MailInv, WellAddressed, Foreign
      <4>1. wire[a][b] # <<>>
        BY DEF Held
      <4>2. v # w
        BY <3>1 DEF MailInv, WellAddressed, Foreign
      <4> QED  BY <1>4, <1>5, <2>5, <3>1, <4>1, <4>2
    <3>3. ASSUME NEW l \in Held(arrived'[b]) \cup Held(draining[b]) \cup Held(queue'[b]),
                 NEW m \in Held(wire[a][b]), SameSender(l, m)'
          PROVE  l < m
      <4>1. l # x
        BY <3>2, <3>3 DEF SameSender
      <4>2. l \in Held(arrived[b]) \cup Held(draining[b]) \cup Held(queue[b])
        BY <3>1, <3>3, <4>1
      <4> QED  BY <1>2, <1>7, <2>3, <3>3, <4>2 DEF Ahead, SameSender
    <3> QED  BY <1>2, <2>2, <3>1, <3>3 DEF Ahead
  <2> QED  BY <2>2, <2>4, <2>5
<1> QED  BY <1>11, <1>12, <1>13 DEF MailInv

LEMMA MailStep ==
    ASSUME TypeInv, MailInv, [Next]_vars
    PROVE  MailInv'
<1>1. CASE UNCHANGED mailVars
  BY <1>1 DEF mailVars, MailInv, WellAddressed, InboxInOrder, WireInOrder, Addressed, Foreign,
              Ahead, InOrder, SameSender, Held
<1>2. CASE \E v, w \in Worlds : Written(v, w) \/ Brought(v, w) \/ Vanished(v, w)
  BY <1>2, OrderOfWritten, OrderOffTheWire
<1>3. CASE \E w \in Worlds : Taken(w) \/ Published(w) \/ Refused(w)
  BY <1>3, OrderOfTaken, OrderOfDrain
<1> QED  BY <1>1, <1>2, <1>3, WaysOfALetter

-----------------------------------------------------------------------------
(***************************************************************************)
(* Federation implements Post.                                             *)
(***************************************************************************)
Between(v, w) == Held(queue[w]) \cup Held(draining[w]) \cup Held(wire[v][w])

LEMMA LetterTypes ==
    ASSUME TypeInv, NEW l \in DOMAIN letter
    PROVE  l \in Nat /\ letter[l].from \in Worlds /\ letter[l].to \in Worlds
<1>1. letter \in Seq([from : Worlds, to : Worlds])
  BY DEF TypeInv, TypeOK
<1>2. \A R : \A s \in Seq(R) : \A i \in DOMAIN s : i \in Nat /\ s[i] \in R
  OBVIOUS
<1>3. l \in Nat /\ letter[l] \in [from : Worlds, to : Worlds]
  BY <1>1, <1>2
<1> QED  BY <1>3

Travels(l) == l \in Between(letter[l].from, letter[l].to)

LEMMA TransitTravels == InTransit = {l \in DOMAIN letter : Travels(l)}
  BY DEF InTransit, Between, Travels

\* A letter that only moves on stays in transit.
LEMMA TransitKept ==
    ASSUME letter' = letter, \A l \in DOMAIN letter : Travels(l)' <=> Travels(l)
    PROVE  InTransit' = InTransit
<1>1. InTransit' = {l \in DOMAIN letter : Travels(l)'}
  BY DEF InTransit, Between, Travels
<1> QED  BY <1>1, TransitTravels

\* A letter that is taken out is no longer in transit.
LEMMA TransitLeft ==
    ASSUME letter' = letter, NEW x \in DOMAIN letter, Travels(x), ~Travels(x)',
           \A l \in DOMAIN letter : l # x => (Travels(l)' <=> Travels(l))
    PROVE  x \in InTransit /\ InTransit' = InTransit \ {x}
<1>1. InTransit' = {l \in DOMAIN letter : Travels(l)'}
  BY DEF InTransit, Between, Travels
<1> QED  BY <1>1, TransitTravels

LEMMA ImplementsArrival ==
    ASSUME TypeInv, MailInv, NEW w \in Worlds, Published(w) \/ Refused(w)
    PROVE  Post!PostNext
<1>1. /\ draining[w] # <<>> /\ letter' = letter /\ queue' = queue /\ wire' = wire
      /\ draining' = [draining EXCEPT ![w] = Tail(draining[w])]
  BY DEF Published, Refused
<1>2. PICK x \in Letters : /\ x = Head(draining[w])
                           /\ Held(draining[w]) = {x} \cup Held(Tail(draining[w]))
                           /\ Ahead({x}, Held(Tail(draining[w])))
  BY <1>1, MailTypes, HeldTail, OrderOfTail DEF MailInv, InboxInOrder
<1>3. /\ draining'[w] = Tail(draining[w])
      /\ \A b \in Worlds \ {w} : draining'[b] = draining[b]
  BY <1>1, MailTypes
<1>4. x \in DOMAIN letter /\ letter[x].to = w /\ letter[x].from # w
  BY <1>2 DEF MailInv, WellAddressed, Foreign, Addressed
<1>5. PICK v \in Worlds : v = letter[x].from
  BY <1>4, LetterTypes
<1>6. Travels(x)
  BY <1>2, <1>4 DEF Travels, Between
<1>7. ~Travels(x)'
  <2>1. x \in Nat
    BY <1>2 DEF Letters
  <2>2. x \notin Held(Tail(draining[w]))
    BY <1>2, <2>1 DEF Ahead, SameSender
  <2>3. x \notin Held(queue[w])
    BY <1>2, <2>1 DEF Ahead, SameSender, MailInv, InboxInOrder
  <2>4. x \notin Held(wire[v][w])
    BY <1>2, <1>5, <2>1 DEF Ahead, SameSender, MailInv, WireInOrder
  <2>5. Travels(x)' <=> x \in Held(queue[w]) \cup Held(Tail(draining[w])) \cup Held(wire[v][w])
    BY <1>1, <1>3, <1>4, <1>5 DEF Travels, Between
  <2> QED  BY <2>2, <2>3, <2>4, <2>5
<1>8. ASSUME NEW l \in DOMAIN letter, l # x
      PROVE  Travels(l)' <=> Travels(l)
  <2>1. PICK a \in Worlds, b \in Worlds : a = letter[l].from /\ b = letter[l].to
    BY LetterTypes
  <2>2. l \in Held(draining'[b]) <=> l \in Held(draining[b])
    BY <1>2, <1>3, <1>8
  <2> QED  BY <1>1, <2>1, <2>2 DEF Travels, Between
<1>9. x \in InTransit /\ InTransit' = InTransit \ {x}
  BY <1>1, <1>4, <1>6, <1>7, <1>8, TransitLeft
<1>10. CASE Refused(w)
  <2>1. Post!Lose(x)
    BY <1>9, <1>10 DEF Post!Lose, Refused
  <2> QED  BY <1>9, <2>1 DEF Post!PostNext
<1>11. CASE Published(w)
  <2>1. ~Post!Overtakes(x)
    <3> SUFFICES ASSUME NEW i \in DOMAIN arrived[w],
                        letter[arrived[w][i]].from = letter[x].from, arrived[w][i] >= x
                 PROVE  FALSE
      BY <1>4 DEF Post!Overtakes
    <3>1. arrived[w][i] \in Held(arrived[w])
      BY DEF Held
    <3>2. arrived[w][i] < x
      BY <1>2, <3>1 DEF MailInv, InboxInOrder, Ahead, SameSender
    <3>3. arrived[w][i] \in Letters
      BY <3>1, MailTypes, HeldType
    <3> QED  BY <1>2, <3>2, <3>3 DEF Letters
  <2>2. Post!Arrive(x)
    BY <1>2, <1>4, <1>9, <1>11, <2>1 DEF Post!Arrive, Published
  <2> QED  BY <1>9, <2>2 DEF Post!PostNext
<1> QED  BY <1>10, <1>11

LEMMA ImplementsFlight ==
    ASSUME TypeInv, MailInv, NEW v \in Worlds, NEW w \in Worlds,
           Brought(v, w) \/ Vanished(v, w)
    PROVE  [Post!PostNext]_(Post!postVars)
<1>1. /\ wire[v][w] # <<>> /\ letter' = letter /\ arrived' = arrived /\ draining' = draining
      /\ wire' = [wire EXCEPT ![v][w] = Tail(wire[v][w])]
  BY DEF Brought, Vanished
<1>2. PICK x \in Letters : /\ x = Head(wire[v][w])
                           /\ Held(wire[v][w]) = {x} \cup Held(Tail(wire[v][w]))
                           /\ Ahead({x}, Held(Tail(wire[v][w])))
  BY <1>1, MailTypes, HeldTail, OrderOfTail DEF MailInv, WireInOrder
<1>3. /\ wire'[v][w] = Tail(wire[v][w])
      /\ \A a, b \in Worlds : <<a, b>> # <<v, w>> => wire'[a][b] = wire[a][b]
  BY <1>1, MailTypes
<1>4. x \in DOMAIN letter /\ letter[x].to = w /\ letter[x].from = v
  BY <1>2 DEF MailInv, WellAddressed, Foreign, Addressed
<1>5. CASE Vanished(v, w)
  <2>1. queue' = queue
    BY <1>5 DEF Vanished
  <2>2. x \in Nat
    BY <1>2 DEF Letters
  <2>3. x \notin Held(Tail(wire[v][w]))
    BY <1>2, <2>2 DEF Ahead, SameSender
  <2>4. x \notin Held(queue[w]) \cup Held(draining[w])
    BY <1>2, <2>2 DEF Ahead, SameSender, MailInv, WireInOrder
  <2>5. Travels(x) /\ ~Travels(x)'
    BY <1>1, <1>2, <1>3, <1>4, <2>1, <2>3, <2>4 DEF Travels, Between
  <2>6. ASSUME NEW l \in DOMAIN letter, l # x
        PROVE  Travels(l)' <=> Travels(l)
    <3>1. PICK a \in Worlds, b \in Worlds : a = letter[l].from /\ b = letter[l].to
      BY LetterTypes
    <3>2. l \in Held(wire'[a][b]) <=> l \in Held(wire[a][b])
      BY <1>2, <1>3, <2>6
    <3> QED  BY <1>1, <2>1, <3>1, <3>2 DEF Travels, Between
  <2>7. x \in InTransit /\ InTransit' = InTransit \ {x}
    BY <1>1, <1>4, <2>5, <2>6, TransitLeft
  <2>8. Post!Lose(x)
    BY <1>1, <2>7 DEF Post!Lose
  <2> QED  BY <2>7, <2>8 DEF Post!PostNext
<1>6. CASE Brought(v, w)
  <2>1. Held(Append(queue[w], x)) = Held(queue[w]) \cup {x}
    BY <1>2, MailTypes, HeldAppend
  <2>2. queue'[w] = Append(queue[w], x) /\ \A b \in Worlds \ {w} : queue'[b] = queue[b]
    BY <1>2, <1>6, MailTypes DEF Brought
  <2>3. ASSUME NEW l \in DOMAIN letter
        PROVE  Travels(l)' <=> Travels(l)
    <3>1. PICK a \in Worlds, b \in Worlds : a = letter[l].from /\ b = letter[l].to
      BY LetterTypes
    <3>2. CASE l = x
      BY <1>1, <1>2, <1>3, <1>4, <2>1, <2>2, <3>2 DEF Travels, Between
    <3>3. CASE l # x
      <4>1. l \in Held(wire'[a][b]) <=> l \in Held(wire[a][b])
        BY <1>2, <1>3, <3>3
      <4>2. l \in Held(queue'[b]) <=> l \in Held(queue[b])
        BY <2>1, <2>2, <3>3
      <4> QED  BY <1>1, <3>1, <4>1, <4>2 DEF Travels, Between
    <3> QED  BY <3>2, <3>3
  <2>4. InTransit' = InTransit
    BY <1>1, <2>3, TransitKept
  <2> QED  BY <1>1, <2>4 DEF Post!postVars
<1> QED  BY <1>5, <1>6

LEMMA ImplementsTaken ==
    ASSUME TypeInv, MailInv, NEW w \in Worlds, Taken(w)
    PROVE  UNCHANGED Post!postVars
<1>1. /\ Held(<<>>) = {}
      /\ letter' = letter /\ arrived' = arrived /\ wire' = wire
  BY DEF Held, Taken
<1>2. /\ draining[w] = <<>>
      /\ draining'[w] = queue[w] /\ queue'[w] = <<>>
      /\ \A b \in Worlds \ {w} : draining'[b] = draining[b] /\ queue'[b] = queue[b]
  BY MailTypes DEF Taken
<1>3. ASSUME NEW l \in DOMAIN letter
      PROVE  Travels(l)' <=> Travels(l)
  <2>1. PICK a \in Worlds, b \in Worlds : a = letter[l].from /\ b = letter[l].to
    BY LetterTypes
  <2>2. l \in Held(queue'[b]) \cup Held(draining'[b]) <=> l \in Held(queue[b]) \cup Held(draining[b])
    BY <1>1, <1>2
  <2> QED  BY <1>1, <2>1, <2>2 DEF Travels, Between
<1>4. InTransit' = InTransit
  BY <1>1, <1>3, TransitKept
<1> QED  BY <1>1, <1>4 DEF Post!postVars

LEMMA ImplementsWriting ==
    ASSUME TypeInv, MailInv, NEW v \in Worlds, NEW w \in Worlds, Written(v, w)
    PROVE  Post!PostNext
<1>1. PICK x \in Letters : x = Len(letter) + 1
  BY OldLettersKept
<1>2. /\ DOMAIN letter' = DOMAIN letter \cup {x}
      /\ \A m \in DOMAIN letter : m \in Nat /\ m < x /\ letter'[m] = letter[m]
      /\ letter'[x].from = v /\ letter'[x].to = w
      /\ letter' = Append(letter, [from |-> v, to |-> w])
      /\ draining' = draining /\ x \in Nat
  BY <1>1, OldLettersKept DEF Written, Letters
<1>3. x \notin DOMAIN letter
  BY <1>2
<1>4. InTransit' = {l \in DOMAIN letter' : Travels(l)'}
  BY DEF InTransit, Between, Travels
<1>5. ~(x \in Held(queue[w]) \cup Held(draining[w]) \cup Held(wire[v][w]))
  BY <1>3 DEF MailInv, WellAddressed, Foreign, Addressed
<1>6. SUFFICES \/ InTransit' \in {InTransit, InTransit \cup {x}} /\ arrived' = arrived
               \/ /\ arrived' = [arrived EXCEPT ![w] = Append(arrived[w], x)]
                  /\ InTransit' = InTransit
  BY <1>1, <1>2 DEF Post!PostNext, Post!PostLetter
<1>7. ASSUME UNCHANGED <<queue, wire>>
      PROVE  InTransit' = InTransit
  <2>1. ASSUME NEW l \in DOMAIN letter
        PROVE  Travels(l)' <=> Travels(l)
    BY <1>2, <1>7 DEF Travels, Between
  <2>2. ~Travels(x)'
    BY <1>2, <1>5, <1>7 DEF Travels, Between
  <2> QED  BY <1>2, <1>4, <2>1, <2>2, TransitTravels
<1>8. ASSUME NEW l \in DOMAIN letter,
             \/ queue' = [queue EXCEPT ![w] = Append(queue[w], x)] /\ wire' = wire
             \/ wire' = [wire EXCEPT ![v][w] = Append(wire[v][w], x)] /\ queue' = queue
      PROVE  Travels(l)' <=> Travels(l)
  <2>1. PICK a \in Worlds, b \in Worlds : a = letter[l].from /\ b = letter[l].to
    BY LetterTypes
  <2>2. l # x
    BY <1>3
  <2>3. /\ Held(Append(queue[w], x)) = Held(queue[w]) \cup {x}
        /\ Held(Append(wire[v][w], x)) = Held(wire[v][w]) \cup {x}
    <3>1. queue[w] \in Seq(Letters) /\ wire[v][w] \in Seq(Letters)
      BY MailTypes
    <3>2. \A q \in Seq(Letters) : Held(Append(q, x)) = Held(q) \cup {x}
      BY HeldAppend
    <3> QED  BY <3>1, <3>2
  <2>4. CASE queue' = [queue EXCEPT ![w] = Append(queue[w], x)] /\ wire' = wire
    <3>1. queue'[w] = Append(queue[w], x) /\ \A c \in Worlds \ {w} : queue'[c] = queue[c]
      BY <2>4, MailTypes
    <3>2. l \in Held(queue'[b]) <=> l \in Held(queue[b])
      BY <2>2, <2>3, <3>1
    <3> QED  BY <1>2, <2>1, <2>4, <3>2 DEF Travels, Between
  <2>5. CASE wire' = [wire EXCEPT ![v][w] = Append(wire[v][w], x)] /\ queue' = queue
    <3>1. /\ wire'[v][w] = Append(wire[v][w], x)
          /\ \A c, d \in Worlds : <<c, d>> # <<v, w>> => wire'[c][d] = wire[c][d]
      BY <2>5, MailTypes
    <3>2. l \in Held(wire'[a][b]) <=> l \in Held(wire[a][b])
      <4>1. CASE a = v /\ b = w
        BY <2>2, <2>3, <3>1, <4>1
      <4>2. CASE ~(a = v /\ b = w)
        BY <3>1, <4>2
      <4> QED  BY <4>1, <4>2
    <3> QED  BY <1>2, <2>1, <2>5, <3>2 DEF Travels, Between
  <2> QED  BY <1>8, <2>4, <2>5
<1>9. ASSUME \/ queue' = [queue EXCEPT ![w] = Append(queue[w], x)] /\ wire' = wire
             \/ wire' = [wire EXCEPT ![v][w] = Append(wire[v][w], x)] /\ queue' = queue
      PROVE  InTransit' \in {InTransit, InTransit \cup {x}}
  <2>1. \A l \in DOMAIN letter : Travels(l)' <=> Travels(l)
    BY <1>8, <1>9
  <2> QED  BY <1>2, <1>4, <2>1, TransitTravels
<1> QED  BY <1>1, <1>7, <1>9 DEF Written

LEMMA PostBegins == Init => Post!PostInit
<1> SUFFICES ASSUME Init PROVE Post!PostInit
  OBVIOUS
<1>1. letter = <<>> /\ arrived = [w \in Worlds |-> <<>>]
  BY DEF Init
<1>2. InTransit = {}
  BY <1>1 DEF InTransit
<1> QED  BY <1>1, <1>2 DEF Post!PostInit

\* Letters arrive once at most, in the world they are addressed to, and in the
\* order in which a world sent them, however many worlds and letters there are.
THEOREM FederationImplementsPost == Spec => ImplementsPost
<1> DEFINE Inv == TypeInv /\ MailInv
<1>1. Init => Inv
  BY TypeInvInit, MailInvInit
<1>2. Inv /\ [Next]_vars => Inv'
  BY TypeInvStep, MailStep
<1>3. Inv /\ [Next]_vars => [Post!PostNext]_(Post!postVars)
  <2> SUFFICES ASSUME Inv, [Next]_vars PROVE [Post!PostNext]_(Post!postVars)
    OBVIOUS
  <2>1. CASE UNCHANGED mailVars
    <3>1. InTransit' = InTransit
      BY <2>1 DEF mailVars, InTransit, Held
    <3> QED  BY <2>1, <3>1 DEF mailVars, Post!postVars
  <2>2. CASE \E v, w \in Worlds : Written(v, w) \/ Brought(v, w) \/ Vanished(v, w)
    BY <2>2, ImplementsWriting, ImplementsFlight
  <2>3. CASE \E w \in Worlds : Taken(w) \/ Published(w) \/ Refused(w)
    BY <2>3, ImplementsTaken, ImplementsArrival
  <2> QED  BY <2>1, <2>2, <2>3, WaysOfALetter
<1> QED  BY <1>1, <1>2, <1>3, PostBegins, PTL DEF Spec, ImplementsPost, Post!PostSpec

-----------------------------------------------------------------------------
(***************************************************************************)
(* What the start, the ticks and the end of a world leave of its letters.     *)
(***************************************************************************)
\* While its queue is drained a world's bus has begun its tick, and what waited is
\* on the bus or about to be looked at; when its agents run it is on the bus.
TickReads ==
    \A w \in Worlds : stopping[w] # "done" =>
        /\ phase[w] = "draining" =>
              /\ bus[w].indexed
              /\ due[w] \subseteq bus[w].letters \cup Held(draining[w])
        /\ phase[w] = "agents" => due[w] \subseteq bus[w].letters

\* How far start() has come decides which handler and which way to unsubscribe
\* there is.
StartLeaves ==
    \A w \in Worlds :
        /\ starting[w] \in {"not called", "register"} => ~handler[w]
        /\ starting[w] \in {"subscribe", "failed"} /\ transport = "redis" => ~handler[w]
        /\ starting[w] = "failed" => transport = "redis"
        /\ starting[w] = "done" /\ stopping[w] \in {"not called", "disconnect"} => unsub[w]

\* A stop() that finds start() finished closes one thing after the other.
StopCloses ==
    \A w \in Worlds \ early :
        /\ stopping[w] # "not called" => starting[w] \in {"failed", "done"}
        /\ stopping[w] \notin {"not called", "disconnect"} => ~handler[w] /\ ~router[w]
        /\ stopping[w] \in {"unregister", "hooks", "done"} /\ transport = "memory"
              => w \notin nodes

ReachInv == TickReads /\ StartLeaves /\ StopCloses

LEMMA ReachInit == Init => ReachInv
  BY DEF Init, ReachInv, TickReads, StartLeaves, StopCloses

\* A bus that has begun its tick keeps every letter; none loses one.
LEMMA PublishKeeps ==
    ASSUME NEW b \in [indexed : BOOLEAN, letters : SUBSET Letters], NEW l
    PROVE  /\ b.letters \subseteq Publish(b, l).letters
           /\ Publish(b, l).indexed = b.indexed
           /\ b.indexed => l \in Publish(b, l).letters
  BY DEF Publish

\* Letters that are delivered while the agents run, or while another world drains,
\* take nothing away.
LEMMA DeliverKeeps ==
    ASSUME TypeInv, TickReads, NEW w \in Worlds, NEW l, Deliver(w, l),
           UNCHANGED <<stopping, phase, draining, due>>
    PROVE  TickReads'
<1>1. \A x \in Worlds : /\ bus[x].letters \subseteq bus'[x].letters
                        /\ bus'[x].indexed = bus[x].indexed
  <2>1. bus \in [Worlds -> [indexed : BOOLEAN, letters : SUBSET Letters]]
    BY DEF TypeInv, TypeOK
  <2>2. bus' = [bus EXCEPT ![w] = Publish(bus[w], l)]
    BY DEF Deliver
  <2>3. /\ bus[w].letters \subseteq Publish(bus[w], l).letters
        /\ Publish(bus[w], l).indexed = bus[w].indexed
    BY <2>1, PublishKeeps
  <2> QED  BY <2>1, <2>2, <2>3
<1>2. UNCHANGED <<stopping, phase, draining, due>>
  OBVIOUS
<1> QED  BY <1>1, <1>2 DEF TickReads

LEMMA TickReadsStep ==
    ASSUME TypeInv, TickReads, [Next]_vars
    PROVE  TickReads'
<1> USE DEF fedVars, transportVars, engineVars, historyVars
<1>0. /\ bus \in [Worlds -> [indexed : BOOLEAN, letters : SUBSET Letters]]
      /\ due \in [Worlds -> SUBSET Letters] /\ queue \in [Worlds -> Seq(Letters)]
      /\ draining \in [Worlds -> Seq(Letters)]
      /\ phase \in [Worlds -> {"between", "draining", "agents"}]
      /\ stopping \in [Worlds -> {"not called", "disconnect", "unsubscribe", "unregister",
                                  "hooks", "done"}]
  BY DEF TypeInv, TypeOK
<1>1. CASE UNCHANGED <<stopping, phase, draining, due, bus>>
  BY <1>1 DEF TickReads
<1>2. ASSUME NEW w \in Worlds,
             \/ StartBegin(w) \/ Registered(w) \/ Subscribed(w) \/ StartFails(w)
             \/ Finish(w) \/ StopAddressee(w)
      PROVE  TickReads'
  <2>1. UNCHANGED <<stopping, phase, draining, due, bus>>
    BY <1>2 DEF StartBegin, Registered, Subscribed, StartFails, Finish, StopAddressee
  <2> QED  BY <1>1, <2>1
<1>3. ASSUME NEW w \in Worlds, NEW to \in {"disconnect", "unsubscribe", "unregister", "hooks"},
             stopping' = [stopping EXCEPT ![w] = to],
             UNCHANGED <<phase, draining, due, bus>>, stopping[w] # "done"
      PROVE  TickReads'
  <2>1. \A x \in Worlds : stopping'[x] # "done" => stopping[x] # "done"
    BY <1>0, <1>3
  <2> QED  BY <1>3, <2>1 DEF TickReads
<1>4. ASSUME NEW w \in Worlds,
             StopBegin(w) \/ FederationStop(w) \/ Unsubscribed(w) \/ Unregistered(w)
      PROVE  TickReads'
  <2>1. /\ \E to \in {"disconnect", "unsubscribe", "unregister", "hooks"} :
              stopping' = [stopping EXCEPT ![w] = to]
        /\ UNCHANGED <<phase, draining, due, bus>>
        /\ stopping[w] # "done"
    BY <1>4 DEF StopBegin, FederationStop, Unsubscribed, Unregistered, Unregister
  <2> QED  BY <1>3, <2>1
<1>5. ASSUME NEW w \in Worlds, Cleared(w)
      PROVE  TickReads'
  <2>1. /\ stopping' = [stopping EXCEPT ![w] = "done"]
        /\ bus' = [bus EXCEPT ![w] = EmptyBus]
        /\ UNCHANGED <<phase, draining, due>>
    BY <1>5 DEF Cleared
  <2>2. \A x \in Worlds : stopping'[x] # "done" => x # w
    BY <1>0, <2>1
  <2>3. \A x \in Worlds \ {w} : stopping'[x] = stopping[x] /\ bus'[x] = bus[x]
    BY <1>0, <2>1
  <2> QED  BY <2>1, <2>2, <2>3 DEF TickReads
<1>6. ASSUME NEW w \in Worlds, TickBegin(w)
      PROVE  TickReads'
  <2>1. /\ phase' = [phase EXCEPT ![w] = "draining"]
        /\ bus' = [bus EXCEPT ![w] = NewTick]
        /\ draining' = [draining EXCEPT ![w] = queue[w]]
        /\ due' = [due EXCEPT ![w] = Held(queue[w])]
        /\ UNCHANGED stopping
    BY <1>6 DEF TickBegin
  <2>2. \A x \in Worlds \ {w} : /\ phase'[x] = phase[x] /\ bus'[x] = bus[x]
                                /\ draining'[x] = draining[x] /\ due'[x] = due[x]
    BY <1>0, <2>1
  <2>3. /\ phase'[w] = "draining" /\ bus'[w].indexed
        /\ due'[w] = Held(draining'[w])
    BY <1>0, <2>1 DEF NewTick
  <2> QED  BY <2>1, <2>2, <2>3 DEF TickReads
<1>7. ASSUME NEW w \in Worlds, Drain(w)
      PROVE  TickReads'
  <2> DEFINE l == Head(draining[w])
  <2>1. /\ phase[w] = "draining" /\ draining[w] # <<>>
        /\ draining' = [draining EXCEPT ![w] = Tail(draining[w])]
        /\ UNCHANGED <<phase, stopping>>
    BY <1>7 DEF Drain
  <2>2. Held(draining[w]) = {l} \cup Held(Tail(draining[w]))
    BY <1>0, <2>1, HeldTail
  <2>3. \/ /\ bus' = [bus EXCEPT ![w] = Publish(bus[w], l)]
           /\ due' = due
        \/ /\ due' = [due EXCEPT ![w] = due[w] \ {l}]
           /\ bus' = bus
    BY <1>7 DEF Drain, Deliver
  <2>4. \A x \in Worlds \ {w} : /\ bus'[x] = bus[x] /\ draining'[x] = draining[x]
                                /\ due'[x] = due[x]
    BY <1>0, <2>1, <2>3
  <2>5. ASSUME stopping[w] # "done"
        PROVE  bus'[w].indexed /\ due'[w] \subseteq bus'[w].letters \cup Held(draining'[w])
    <3>1. bus[w].indexed /\ due[w] \subseteq bus[w].letters \cup Held(draining[w])
      BY <2>1, <2>5 DEF TickReads
    <3>2. draining'[w] = Tail(draining[w])
      BY <1>0, <2>1
    <3>3. CASE bus' = [bus EXCEPT ![w] = Publish(bus[w], l)] /\ due' = due
      <4>1. /\ bus'[w] = Publish(bus[w], l) /\ bus'[w].indexed
            /\ bus[w].letters \cup {l} \subseteq bus'[w].letters
        <5>1. bus[w] \in [indexed : BOOLEAN, letters : SUBSET Letters]
          BY <1>0
        <5>2. bus'[w] = Publish(bus[w], l)
          BY <1>0, <3>3
        <5> QED  BY <3>1, <5>1, <5>2, PublishKeeps
      <4> QED  BY <2>2, <3>1, <3>2, <3>3, <4>1
    <3>4. CASE due' = [due EXCEPT ![w] = due[w] \ {l}] /\ bus' = bus
      <4>1. due'[w] = due[w] \ {l}
        BY <1>0, <3>4
      <4> QED  BY <2>2, <3>1, <3>2, <3>4, <4>1
    <3> QED  BY <2>3, <3>3, <3>4
  <2> QED  BY <2>1, <2>4, <2>5 DEF TickReads
<1>8. ASSUME NEW w \in Worlds, DrainDone(w)
      PROVE  TickReads'
  <2>1. /\ phase[w] = "draining" /\ draining[w] = <<>>
        /\ phase' = [phase EXCEPT ![w] = IF stopping[w] = "not called" THEN "agents"
                                         ELSE "between"]
        /\ UNCHANGED <<bus, draining, due, stopping>>
    BY <1>8 DEF DrainDone, BusAfterDrain
  <2>2. Held(draining[w]) = {}
    <3>1. DOMAIN <<>> = {}
      OBVIOUS
    <3> QED  BY <2>1, <3>1 DEF Held
  <2>3. stopping[w] # "done" => due[w] \subseteq bus[w].letters
    BY <2>1, <2>2 DEF TickReads
  <2>4. phase'[w] # "draining" /\ \A x \in Worlds \ {w} : phase'[x] = phase[x]
    BY <1>0, <2>1
  <2> QED  BY <2>1, <2>3, <2>4 DEF TickReads
<1>9. ASSUME NEW w \in Worlds, AgentsDone(w)
      PROVE  TickReads'
  <2>1. /\ phase' = [phase EXCEPT ![w] = "between"]
        /\ UNCHANGED <<bus, draining, due, stopping>>
    BY <1>9 DEF AgentsDone
  <2>2. phase'[w] = "between" /\ \A x \in Worlds \ {w} : phase'[x] = phase[x]
    BY <1>0, <2>1
  <2> QED  BY <2>1, <2>2 DEF TickReads
<1>10. ASSUME NEW v \in Worlds, NEW w \in Worlds, Send(v, w)
       PROVE  TickReads'
  <2>1. UNCHANGED <<stopping, phase, draining, due>>
    BY <1>10 DEF Send
  <2>2. CASE UNCHANGED bus
    BY <1>1, <2>1, <2>2
  <2>3. CASE Deliver(w, Len(letter) + 1)
    BY <2>1, <2>3, DeliverKeeps
  <2> QED  BY <1>10, <2>2, <2>3 DEF Send
<1>11. ASSUME NEW v \in Worlds, NEW w \in Worlds, WireDeliver(v, w) \/ WireLose(v, w)
       PROVE  TickReads'
  <2>1. UNCHANGED <<stopping, phase, draining, due, bus>>
    BY <1>11 DEF WireDeliver, WireLose
  <2> QED  BY <1>1, <2>1
<1>12. CASE UNCHANGED vars
  BY <1>1, <1>12 DEF vars
<1> QED  BY <1>2, <1>4, <1>5, <1>6, <1>7, <1>8, <1>9, <1>10, <1>11, <1>12 DEF Next, Step, TickStep

\* start() and stop() of a world, and what they leave to the other steps.
LEMMA ClosingStep ==
    ASSUME TypeInv, StartLeaves, StopCloses, [Next]_vars
    PROVE  StartLeaves' /\ StopCloses'
<1> USE DEF fedVars, transportVars, engineVars, historyVars
<1>0. /\ starting \in [Worlds -> {"not called", "register", "subscribe", "failed", "done"}]
      /\ stopping \in [Worlds -> {"not called", "disconnect", "unsubscribe", "unregister",
                                  "hooks", "done"}]
      /\ handler \in [Worlds -> BOOLEAN] /\ unsub \in [Worlds -> BOOLEAN]
      /\ router \in [Worlds -> BOOLEAN] /\ transport \in {"memory", "redis"}
  BY FederationAssumption DEF TypeInv, TypeOK
<1>1. CASE UNCHANGED <<starting, stopping, handler, unsub, router, transport, nodes, early>>
  BY <1>1 DEF StartLeaves, StopCloses
<1>2. ASSUME NEW w \in Worlds, StartBegin(w)
      PROVE  StartLeaves' /\ StopCloses'
  <2>1. /\ starting[w] = "not called" /\ starting' = [starting EXCEPT ![w] = "register"]
        /\ nodes' = nodes \cup {w}
        /\ UNCHANGED <<stopping, handler, unsub, router, transport, early>>
    BY <1>2 DEF StartBegin, Listed
  <2> QED  BY <1>0, <2>1 DEF StartLeaves, StopCloses
<1>3. ASSUME NEW w \in Worlds, Registered(w)
      PROVE  StartLeaves' /\ StopCloses'
  <2>1. /\ starting[w] = "register" /\ starting' = [starting EXCEPT ![w] = "subscribe"]
        /\ handler' = [handler EXCEPT ![w] = (transport = "memory")]
        /\ UNCHANGED <<stopping, unsub, router, transport, nodes, early>>
    BY <1>3 DEF Registered
  <2> QED  BY <1>0, <2>1 DEF StartLeaves, StopCloses
<1>4. ASSUME NEW w \in Worlds, Subscribed(w)
      PROVE  StartLeaves' /\ StopCloses'
  <2>1. /\ starting[w] = "subscribe" /\ starting' = [starting EXCEPT ![w] = "done"]
        /\ handler' = [handler EXCEPT ![w] = TRUE] /\ unsub' = [unsub EXCEPT ![w] = TRUE]
        /\ router' = [router EXCEPT ![w] = TRUE]
        /\ UNCHANGED <<stopping, transport, nodes, early>>
    BY <1>4 DEF Subscribed
  <2> QED  BY <1>0, <2>1 DEF StartLeaves, StopCloses
<1>5. ASSUME NEW w \in Worlds, StartFails(w)
      PROVE  StartLeaves' /\ StopCloses'
  <2>1. /\ transport = "redis" /\ starting[w] \in {"register", "subscribe"}
        /\ starting' = [starting EXCEPT ![w] = "failed"]
        /\ UNCHANGED <<stopping, handler, unsub, router, transport, early>>
    BY <1>5 DEF StartFails
  <2> QED  BY <1>0, <2>1 DEF StartLeaves, StopCloses
<1>6. ASSUME NEW w \in Worlds, StopBegin(w)
      PROVE  StartLeaves' /\ StopCloses'
  <2>1. /\ starting[w] # "not called" /\ stopping[w] = "not called"
        /\ stopping' = [stopping EXCEPT ![w] = "disconnect"]
        /\ early' = IF starting[w] \in {"register", "subscribe"} THEN early \cup {w} ELSE early
        /\ UNCHANGED <<starting, handler, unsub, router, transport, nodes>>
    BY <1>6 DEF StopBegin
  <2>2. early \subseteq early' /\ (starting[w] \notin {"failed", "done"} => w \in early')
    BY <1>0, <2>1
  <2> QED  BY <1>0, <2>1, <2>2 DEF StartLeaves, StopCloses
<1>7. ASSUME NEW w \in Worlds, FederationStop(w)
      PROVE  StartLeaves' /\ StopCloses'
  <2>1. /\ stopping[w] = "disconnect" /\ router' = [router EXCEPT ![w] = FALSE]
        /\ UNCHANGED <<starting, unsub, transport, early>>
    BY <1>7 DEF FederationStop
  <2>2. CASE /\ unsub[w] /\ handler' = [handler EXCEPT ![w] = FALSE]
             /\ stopping' = [stopping EXCEPT ![w] = "unsubscribe"]
             /\ UNCHANGED nodes
    BY <1>0, <2>1, <2>2 DEF StartLeaves, StopCloses
  <2>3. CASE ~unsub[w] /\ Unregister(w) /\ UNCHANGED handler
    <3>1. /\ stopping' = [stopping EXCEPT ![w] = "unregister"] /\ nodes' \subseteq nodes
          /\ transport = "memory" => w \notin nodes'
      BY <2>3 DEF Unregister
    <3>2. starting[w] # "done"
      BY <2>1, <2>3 DEF StartLeaves
    <3>3. w \notin early => ~handler[w]
      BY <1>0, <2>1, <3>2 DEF StartLeaves, StopCloses
    <3>4. StartLeaves'
      BY <1>0, <2>1, <2>3, <3>1, <3>2 DEF StartLeaves
    <3>5. StopCloses'
      BY <1>0, <2>1, <2>3, <3>1, <3>2, <3>3 DEF StopCloses
    <3> QED  BY <3>4, <3>5
  <2> QED  BY <1>7, <2>2, <2>3 DEF FederationStop, Forgotten
<1>8. ASSUME NEW w \in Worlds, Unsubscribed(w)
      PROVE  StartLeaves' /\ StopCloses'
  <2>1. /\ stopping[w] = "unsubscribe" /\ unsub' = [unsub EXCEPT ![w] = FALSE]
        /\ stopping' = [stopping EXCEPT ![w] = "unregister"] /\ nodes' \subseteq nodes
        /\ transport = "memory" => w \notin nodes'
        /\ UNCHANGED <<starting, handler, router, transport, early>>
    BY <1>8 DEF Unsubscribed, Unregister
  <2> QED  BY <1>0, <2>1 DEF StartLeaves, StopCloses
<1>9. ASSUME NEW w \in Worlds, Unregistered(w) \/ Cleared(w)
      PROVE  StartLeaves' /\ StopCloses'
  <2>1. /\ stopping[w] \in {"unregister", "hooks"}
        /\ stopping' = [stopping EXCEPT ![w] = IF stopping[w] = "hooks" THEN "done" ELSE "hooks"]
        /\ UNCHANGED <<starting, handler, unsub, router, transport, nodes, early>>
    BY <1>9 DEF Unregistered, Cleared
  <2> QED  BY <1>0, <2>1 DEF StartLeaves, StopCloses
<1>10. ASSUME NEW w \in Worlds, TickStep(w) \/ Finish(w) \/ StopAddressee(w)
       PROVE  StartLeaves' /\ StopCloses'
  <2>1. UNCHANGED <<starting, stopping, handler, unsub, router, transport, nodes, early>>
    BY <1>10 DEF TickStep, TickBegin, Drain, DrainDone, AgentsDone, Finish, StopAddressee
  <2> QED  BY <1>1, <2>1
<1>11. ASSUME NEW v \in Worlds, NEW w \in Worlds,
              Send(v, w) \/ WireDeliver(v, w) \/ WireLose(v, w)
       PROVE  StartLeaves' /\ StopCloses'
  <2>1. UNCHANGED <<starting, stopping, handler, unsub, router, transport, nodes, early>>
    BY <1>11 DEF Send, WireDeliver, WireLose
  <2> QED  BY <1>1, <2>1
<1>12. CASE UNCHANGED vars
  BY <1>1, <1>12 DEF vars
<1> QED  BY <1>2, <1>3, <1>4, <1>5, <1>6, <1>7, <1>8, <1>9, <1>10, <1>11, <1>12 DEF Next, Step

\* Letters that waited when a tick began are on the bus when its agents run, unless
\* their addressee was gone; and a world stopped after its start has left the
\* federation, whichever of its own and of other worlds' steps come between.
THEOREM LettersReachOrWorldIsGone == Spec => []ReachedOrGone
<1>1. TypeInv /\ ReachInv /\ [Next]_vars => TypeInv' /\ ReachInv'
  BY TypeInvStep, TickReadsStep, ClosingStep DEF ReachInv
<1>2. TypeInv /\ ReachInv => ReachedOrGone
  BY DEF ReachInv, ReachedOrGone, FirstTickDelivers, StoppedWorldHasLeft, TickReads, StopCloses
<1> QED  BY <1>1, <1>2, TypeInvInit, ReachInit, PTL DEF Spec
=============================================================================
