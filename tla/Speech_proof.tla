---------------------------- MODULE Speech_proof ----------------------------
(***************************************************************************)
(* Theorems about Speech, for every set of agents and emitters, every world   *)
(* of any length, in three parts.  The receipts and the stamps need nothing   *)
(* of what the senses, the topics and attention compute; what is heard needs  *)
(* how a percept of speech comes about; the threads need how the tracker      *)
(* files a stimulus, and that what an agent attends to is something it felt.  *)
(***************************************************************************)
EXTENDS Speech, FiniteSetTheorems, WellFoundedInduction, TLAPS

-----------------------------------------------------------------------------
(***************************************************************************)
(* The recipients as messages in a row.                                     *)
(***************************************************************************)
\* SetToSeq lists every element of a finite set once.
LEMMA ListOfSet ==
    ASSUME NEW S, IsFiniteSet(S)
    PROVE  /\ Cardinality(S) \in Nat
           /\ SetToSeq(S) \in Seq(S)
           /\ Len(SetToSeq(S)) = Cardinality(S)
           /\ {SetToSeq(S)[i] : i \in 1..Cardinality(S)} = S
<1>. DEFINE n == Cardinality(S)
<1>1. n \in Nat /\ ExistsBijection(1..n, S)
    BY FS_CardinalityType
<1>2. \E f \in [1..n -> S] : IsInjective(f)
    BY <1>1 DEF ExistsBijection, Bijection, Injection
<1>3. SetToSeq(S) \in [1..n -> S] /\ IsInjective(SetToSeq(S))
    BY <1>2 DEF SetToSeq
<1>4. SetToSeq(S) \in Injection(1..n, S)
    BY <1>3 DEF Injection
<1>5. IsFiniteSet(1..n) /\ Cardinality(1..n) = n
    BY <1>1, FS_Interval
<1>6. SetToSeq(S) \in Surjection(1..n, S)
    BY <1>4, <1>5, FS_Injection
<1>7. {SetToSeq(S)[i] : i \in 1..n} = S
    BY <1>3, <1>6 DEF Surjection
<1>. QED
    BY <1>1, <1>3, <1>7

\* The greatest of numbers of which one is known to bound the others.
LEMMA TopIsMax ==
    ASSUME NEW S \in SUBSET Nat, NEW n \in S, \A m \in S : m <= n
    PROVE  Max(S) = n
<1>1. \A x \in S : (\A y \in S : x >= y) => x = n
    OBVIOUS
<1>2. n \in S /\ \A y \in S : n >= y
    OBVIOUS
<1>. QED
    BY <1>1, <1>2 DEF Max

-----------------------------------------------------------------------------
(***************************************************************************)
(* Types, as far as they matter here.                                       *)
(***************************************************************************)
Stamps == [seq : Nat, offset : Nat]

Message ==
    [id : (Agents \X Nat) \cup ({"letter"} \X Agents \X Nat),
     from : Agents \cup {"abroad"}, to : Agents \cup {Everyone}, seq : Nat, offset : Nat]

Fields == {"pc", "incoming", "raw", "ranked", "stim", "stamp", "hearers"}

MindsOK ==
    /\ DOMAIN agent = Agents
    /\ \A a \in Agents : /\ DOMAIN agent[a] = Fields
                         /\ agent[a].incoming \subseteq Message
                         /\ agent[a].hearers \subseteq DOMAIN mode.senses \ {a}

\* Who is done, or has not looked yet, holds no messages; nobody is at work between
\* the ticks; and who waits for its neighbours is in a world that has some.
StageInv ==
    \A a \in Agents :
        /\ stage # "running" => agent[a].pc = "done"
        /\ agent[a].pc \in {"done", "waiting", "gathering"} => agent[a].incoming = {}
        /\ agent[a].pc = "routing" => mode.friends # <<>>

Types ==
    /\ mode \in Modes
    /\ tick \in Nat
    /\ bus \in Seq(Message)
    /\ line \in Stamps
    /\ MindsOK
    /\ StageInv

-----------------------------------------------------------------------------
(***************************************************************************)
(* The timeline: nothing that is published, read or stamped lies ahead of it. *)
(***************************************************************************)
NotAhead(m) == m.seq <= line.seq /\ m.offset <= line.offset

LineInv ==
    /\ \A i \in DOMAIN bus : NotAhead(bus[i])
    /\ \A a \in Agents : \A m \in agent[a].incoming : NotAhead(m)
    /\ \A a \in Agents : agent[a].pc \in {"emitting", "delivering", "routing"} =>
                            agent[a].stamp \in Stamps /\ NotAhead(agent[a].stamp)

\* Whoever decides is stamped behind everything there is.
LEMMA Reserved ==
    ASSUME Types, LineInv, NEW a \in Agents, NEW observed \in SUBSET Message,
           \A m \in observed : NotAhead(m)
    PROVE  ReserveAction(a, observed)
             = [seq |-> line.seq + 1, offset |-> line.offset + Delay[a]]
<1>1. line.seq \in Nat /\ line.offset \in Nat /\ Delay[a] \in Nat
    BY SpeechAssumption DEF Types, Stamps
<1>2. Max({line.offset} \cup {m.offset : m \in observed}) = line.offset
  <2>. DEFINE S == {line.offset} \cup {m.offset : m \in observed}
  <2>1. S \in SUBSET Nat
      BY <1>1 DEF Message
  <2>2. line.offset \in S /\ \A n \in S : n <= line.offset
      BY <1>1 DEF NotAhead
  <2>. HIDE DEF S
  <2>3. Max(S) = line.offset
      BY <2>1, <2>2, TopIsMax
  <2>. QED
      BY <2>3 DEF S
<1>3. Max({line.offset, line.offset + Delay[a]}) = line.offset + Delay[a]
  <2>. DEFINE S == {line.offset, line.offset + Delay[a]}
  <2>1. S \in SUBSET Nat /\ line.offset + Delay[a] \in S
            /\ \A n \in S : n <= line.offset + Delay[a]
      BY <1>1
  <2>. HIDE DEF S
  <2>2. Max(S) = line.offset + Delay[a]
      BY <2>1, TopIsMax
  <2>. QED
      BY <2>2 DEF S
<1>. QED
    BY <1>2, <1>3 DEF ReserveAction, NextEvent

-----------------------------------------------------------------------------
(***************************************************************************)
(* Receipts and messages.                                                   *)
(***************************************************************************)
\* One action of an agent in a tick, one receipt; and none before it acts.
ReceiptInv ==
    /\ \A k \in receipts : /\ k.from \in Agents /\ k.tick \in Nat
                           /\ k.id = <<k.from, k.tick>> /\ k.tick <= tick
                           /\ stage = "opened" => k.tick < tick
                           /\ agent[k.from].pc \notin {"done", "receipt"} => k.tick # tick
    /\ \A k, l \in receipts : k.id = l.id => k = l

\* Every message of an agent has a receipt, and a letter is no action.
BusInv ==
    \A i \in DOMAIN bus :
        IF bus[i].from \in Agents THEN \E k \in receipts : k.id = bus[i].id
                                  ELSE bus[i].id \notin Agents \X Nat

Counted ==
    \A k \in {r \in receipts : r.tick = tick} :
        /\ {bus[i].to : i \in MessagesOf(k.id)} = k.to
        /\ Cardinality(MessagesOf(k.id)) = Cardinality(k.to)
        /\ k.from \notin k.to

\* What "filtered" must be due to.
Excused(a) ==
    walked # {} \/ (\E d \in mode.deaf : d[2] = a) \/ \E b \in Agents : Walled(a, b)

FilteredInv == \A k \in receipts : k.reason = "filtered" => Excused(k.from)

\* As long as nobody has moved the hearers are those that the world has from the
\* start.
HearersInv ==
    /\ walked = {} => where = mode.places
    /\ \A a \in Agents :
          /\ agent[a].pc \in {"emitting", "delivering"} => agent[a].stim.from = a
          /\ agent[a].pc = "delivering" /\ walked = {} =>
                agent[a].hearers = HearersOf(a, agent[a].stim)

Inv == Types /\ LineInv /\ ReceiptInv /\ BusInv /\ Counted /\ FilteredInv /\ HearersInv

LEMMA InvInit == Init => Inv
<1>. SUFFICES ASSUME Init PROVE Inv
    OBVIOUS
<1>1. /\ mode \in Modes /\ tick = 0 /\ stage = "closed" /\ bus = <<>>
      /\ line = [seq |-> 0, offset |-> 0] /\ where = mode.places
      /\ agent = [a \in Agents |-> Free] /\ receipts = {} /\ walked = {}
    BY DEF Init
<1>2. DOMAIN agent = Agents /\ \A a \in Agents : agent[a] = Free
    BY <1>1
<1>3. /\ DOMAIN Free = Fields /\ Free.pc = "done" /\ Free.incoming = {} /\ Free.hearers = {}
    BY DEF Free, Fields
<1>4. Types
    BY <1>1, <1>2, <1>3 DEF Types, Stamps, MindsOK, StageInv
<1>5. bus = <<>> /\ DOMAIN bus = {}
  <2>1. DOMAIN <<>> = {}
      OBVIOUS
  <2>. QED
      BY <1>1, <2>1
<1>. QED
    BY <1>1, <1>2, <1>3, <1>4, <1>5
       DEF Inv, LineInv, ReceiptInv, BusInv, Counted, FilteredInv, HearersInv

-----------------------------------------------------------------------------
(***************************************************************************)
(* A delivery: one message for each recipient, behind all others.            *)
(***************************************************************************)
LEMMA Delivery ==
    ASSUME Types, NEW a \in Agents, NEW to \in SUBSET (Agents \cup {Everyone}),
           IsFiniteSet(to), NEW route, NEW stamp \in Stamps, Send(a, to, route, stamp)
    PROVE  /\ Cardinality(to) \in Nat /\ bus' \in Seq(Message)
           /\ Len(bus') = Len(bus) + Cardinality(to)
           /\ \A i \in 1..Len(bus) : bus'[i] = bus[i]
           /\ \A i \in (Len(bus) + 1)..(Len(bus) + Cardinality(to)) :
                 /\ bus'[i].id = <<a, tick>> /\ bus'[i].from = a
                 /\ bus'[i].seq = stamp.seq /\ bus'[i].offset = stamp.offset
           /\ {bus'[i].to : i \in (Len(bus) + 1)..(Len(bus) + Cardinality(to))} = to
<1>. DEFINE Msg(r) == [id |-> <<a, tick>>, from |-> a, to |-> r,
                       seq |-> stamp.seq, offset |-> stamp.offset]
            M == {Msg(r) : r \in to}
            f == [r \in to |-> Msg(r)]
            n == Cardinality(to)
            new == SetToSeq(M)
<1>1. \A r \in to : /\ Msg(r) \in Message /\ Msg(r).to = r /\ Msg(r).id = <<a, tick>>
                    /\ Msg(r).from = a /\ Msg(r).seq = stamp.seq
                    /\ Msg(r).offset = stamp.offset
    BY DEF Types, Message, Stamps
<1>2. bus' = bus \o new
    BY DEF Send
<1>. HIDE DEF Msg
<1>3. f \in Bijection(to, M)
  <2>1. f \in [to -> M] /\ \A x \in M : \E r \in to : f[r] = x
      OBVIOUS
  <2>2. \A r, s \in to : f[r] = f[s] => r = s
      BY <1>1
  <2>. QED
      BY <2>1, <2>2 DEF Bijection, Injection, Surjection, IsInjective
<1>4. IsFiniteSet(M) /\ Cardinality(M) = n
    BY <1>3, FS_Bijection DEF ExistsBijection
<1>5. /\ n \in Nat /\ new \in Seq(M) /\ Len(new) = n /\ {new[i] : i \in 1..n} = M
    BY <1>4, ListOfSet
<1>6. M \subseteq Message
    BY <1>1
<1>7. bus \in Seq(Message) /\ new \in Seq(Message) /\ Len(bus) \in Nat
    BY <1>5, <1>6 DEF Types
<1>. HIDE DEF new, n
<1>8. /\ bus' \in Seq(Message) /\ Len(bus') = Len(bus) + n
      /\ \A i \in 1..Len(bus) : bus'[i] = bus[i]
      /\ \A i \in (Len(bus) + 1)..(Len(bus) + n) : bus'[i] = new[i - Len(bus)]
    BY <1>2, <1>5, <1>7
<1>9. /\ \A i \in (Len(bus) + 1)..(Len(bus) + n) : i - Len(bus) \in 1..n
      /\ \A j \in 1..n : j + Len(bus) \in (Len(bus) + 1)..(Len(bus) + n)
                           /\ (j + Len(bus)) - Len(bus) = j
    BY <1>5, <1>7
<1>10. {bus'[i] : i \in (Len(bus) + 1)..(Len(bus) + n)} = M
  <2>1. ASSUME NEW x \in M
        PROVE  \E i \in (Len(bus) + 1)..(Len(bus) + n) : bus'[i] = x
    <3>1. PICK j \in 1..n : new[j] = x
        BY <1>5
    <3>. QED
        BY <1>8, <1>9, <3>1
  <2>2. \A i \in (Len(bus) + 1)..(Len(bus) + n) : bus'[i] \in M
      BY <1>5, <1>8, <1>9
  <2>. QED
      BY <2>1, <2>2
<1>11. {bus'[i].to : i \in (Len(bus) + 1)..(Len(bus) + n)} = to
  <2>1. ASSUME NEW r \in to
        PROVE  r \in {bus'[i].to : i \in (Len(bus) + 1)..(Len(bus) + n)}
    <3>1. PICK i \in (Len(bus) + 1)..(Len(bus) + n) : bus'[i] = Msg(r)
        BY <1>10
    <3>. QED
        BY <1>1, <3>1
  <2>2. ASSUME NEW i \in (Len(bus) + 1)..(Len(bus) + n)
        PROVE  bus'[i].to \in to
    <3>1. PICK r \in to : bus'[i] = Msg(r)
        BY <1>10
    <3>. QED
        BY <1>1, <3>1
  <2>. QED
      BY <2>1, <2>2
<1>12. \A i \in (Len(bus) + 1)..(Len(bus) + n) : \E r \in to : bus'[i] = Msg(r)
    BY <1>10
<1>13. \A i \in (Len(bus) + 1)..(Len(bus) + n) :
          /\ bus'[i].id = <<a, tick>> /\ bus'[i].from = a
          /\ bus'[i].seq = stamp.seq /\ bus'[i].offset = stamp.offset
    BY <1>1, <1>12
<1>. QED
    BY <1>5, <1>8, <1>11, <1>13 DEF n

-----------------------------------------------------------------------------
(***************************************************************************)
(* The steps of an agent: it does nothing to the bus, sends to some others, or *)
(* drops its message with a reason.                                         *)
(***************************************************************************)
Quiet(a) ==
    /\ UNCHANGED <<bus, receipts>>
    /\ agent[a].pc = "receipt" => agent'[a].pc = "done"

Sends(a) ==
    /\ agent[a].pc # "receipt"
    /\ \E to \in SUBSET (Agents \cup {Everyone}), stamp \in Stamps : \E route :
          /\ IsFiniteSet(to) /\ a \notin to
          /\ stamp.seq <= line'.seq /\ stamp.offset <= line'.offset
          /\ Send(a, to, route, stamp)
          /\ route # "dropped"
          /\ route = "perception" => agent[a].pc = "delivering" /\ to \subseteq agent[a].hearers

Drops(a) ==
    /\ agent[a].pc # "receipt"
    /\ \E reason : /\ RecordDropped(a, reason)
                   /\ reason = "filtered" => Excused(a)

\* An agent moves nothing of another one.
Alone(a) ==
    /\ stage = "running" /\ agent[a].pc # "done"
    /\ UNCHANGED worldVars
    /\ DOMAIN agent' = Agents /\ DOMAIN agent'[a] = Fields
    /\ \A b \in Agents \ {a} : agent'[b] = agent[b]

LEMMA FreeIs ==
    /\ DOMAIN Free = Fields /\ Free.pc = "done" /\ Free.incoming = {} /\ Free.hearers = {}
    /\ \A pc : LET m == [Free EXCEPT !.pc = pc]
               IN  DOMAIN m = Fields /\ m.pc = pc /\ m.incoming = {} /\ m.hearers = {}
    /\ \A pc, stamp : LET m == [Free EXCEPT !.pc = pc, !.stamp = stamp]
                      IN  /\ DOMAIN m = Fields /\ m.pc = pc /\ m.incoming = {}
                          /\ m.hearers = {} /\ m.stamp = stamp
BY DEF Free, Fields

LEMMA SendsIs ==
    ASSUME NEW a, agent[a].pc # "receipt", NEW to \in SUBSET (Agents \cup {Everyone}),
           NEW stamp \in Stamps, NEW route, IsFiniteSet(to), a \notin to,
           stamp.seq <= line'.seq, stamp.offset <= line'.offset,
           Send(a, to, route, stamp), route # "dropped",
           route = "perception" => agent[a].pc = "delivering" /\ to \subseteq agent[a].hearers
    PROVE  Sends(a) /\ agent' = [agent EXCEPT ![a] = [Free EXCEPT !.pc = "receipt"]]
BY DEF Sends, Send

\* The receivers that the cascade may find.
LEMMA SomeAreFinite ==
    /\ \A S : S \subseteq Agents => IsFiniteSet(S)
    /\ IsFiniteSet({Everyone}) /\ Everyone \notin Agents
<1>1. \A S : S \subseteq Agents => IsFiniteSet(S)
    BY SpeechAssumption, FS_Subset
<1>2. IsFiniteSet({Everyone})
    BY FS_Singleton
<1>. QED
    BY <1>1, <1>2, SpeechAssumption DEF Everyone

LEMMA FallbackKinds ==
    ASSUME Types, NEW a \in Agents, agent[a].pc # "receipt", NEW stamp \in Stamps,
           stamp.seq <= line'.seq, stamp.offset <= line'.offset, Fallback(a, stamp)
    PROVE  /\ Sends(a) \/ Drops(a)
           /\ agent' = [agent EXCEPT ![a] = [Free EXCEPT !.pc = "receipt"]]
<1>1. CASE Send(a, Nearby(a), "proximity", stamp)
  <2>1. Nearby(a) \subseteq Agents \ {a}
      BY DEF Nearby
  <2>2. Nearby(a) \in SUBSET (Agents \cup {Everyone}) /\ a \notin Nearby(a)
          /\ IsFiniteSet(Nearby(a))
      BY <2>1, SomeAreFinite
  <2>. QED
      BY <1>1, <2>2, SendsIs
<1>2. CASE Send(a, {Everyone}, "broadcast", stamp)
  <2>1. {Everyone} \in SUBSET (Agents \cup {Everyone}) /\ a \notin {Everyone}
          /\ IsFiniteSet({Everyone})
      BY SomeAreFinite
  <2>. QED
      BY <1>2, <2>1, SendsIs
<1>3. CASE RecordDropped(a, "no_routing_audience")
    BY <1>3 DEF Drops, RecordDropped
<1>. QED
    BY <1>1, <1>2, <1>3 DEF Fallback

LEMMA CascadeKinds ==
    ASSUME Types, NEW a \in Agents, agent[a].pc # "receipt", NEW stamp \in Stamps,
           stamp.seq <= line'.seq, stamp.offset <= line'.offset, Cascade(a, stamp)
    PROVE  \/ /\ Sends(a) \/ Drops(a)
              /\ agent' = [agent EXCEPT ![a] = [Free EXCEPT !.pc = "receipt"]]
           \/ /\ UNCHANGED <<bus, receipts>> /\ mode.friends # <<>>
              /\ agent' = [agent EXCEPT ![a] = [Free EXCEPT !.pc = "routing", !.stamp = stamp]]
<1>1. CASE Send(a, mode.conversation \ {a}, "conversation", stamp)
  <2>1. mode.conversation \subseteq Agents
      BY SpeechAssumption DEF Types
  <2>2. /\ mode.conversation \ {a} \in SUBSET (Agents \cup {Everyone})
        /\ a \notin mode.conversation \ {a} /\ IsFiniteSet(mode.conversation \ {a})
      BY <2>1, SomeAreFinite
  <2>. QED
      BY <1>1, <2>2, SendsIs
<1>2. CASE Fallback(a, stamp)
    BY <1>2, FallbackKinds
<1>. QED
    BY <1>1, <1>2 DEF Cascade

\* A speech that is dropped as filtered was perceived by somebody with a deaf plugin, or
\* a wall is in between.
LEMMA FilteredIsExcused ==
    ASSUME Types, HearersInv, NEW a \in Agents, agent[a].pc = "delivering",
           {b \in agent[a].hearers : <<b, a>> \notin mode.deaf} = {},
           ExplainUndelivered(agent[a].stim, a, mode.senses, where, mode.geography) = "filtered"
    PROVE  Excused(a)
<1>. SUFFICES ASSUME walked = {} PROVE Excused(a)
    BY DEF Excused
<1>. DEFINE stim == agent[a].stim
            others == DOMAIN mode.senses \ {a, stim.from}
            sensing == {p \in others : stim.channel \in DOMAIN mode.senses[p]}
            Info(p) == DistanceInfo(stim, p, where, mode.geography)
            placed == {p \in sensing : Info(p).reason = "none"}
            Sense(p) == mode.senses[p][stim.channel]
            far == {p \in placed : OutOfRange(stim, Sense(p), Info(p).km)}
<1>1. stim.from = a /\ agent[a].hearers = HearersOf(a, stim)
    BY DEF HearersInv
<1>2. /\ sensing # {}
      /\ \A p \in sensing : Info(p).reason \notin {"no_location", "no_source_location"}
      /\ far = {}
      /\ \A p \in placed \ far : ~(PerceivedIntensity(stim, Sense(p), Info(p).km) < Sense(p).floor)
    BY DEF ExplainUndelivered
<1>3. PICK p \in sensing : TRUE
    BY <1>2
<1>4. p \in placed \ far
    BY <1>2 DEF DistanceInfo
<1>5. CASE p \in agent[a].hearers
  <2>1. <<p, a>> \in mode.deaf
      BY <1>5
  <2>. QED
      BY <2>1 DEF Excused
<1>6. CASE p \notin agent[a].hearers
  <2>1. Percept(stim, p, mode.senses[p], where, mode.geography, Blocked(p)) = {}
      BY <1>1, <1>6 DEF HearersOf
  <2>2. <<stim.channel, stim.from>> \in Blocked(p)
      BY <1>2, <1>4, <2>1 DEF Percept
  <2>3. Walled(a, p)
      BY <1>1, <2>2 DEF Blocked
  <2>4. p \in Agents
      BY SpeechAssumption DEF Types
  <2>. QED
      BY <2>3, <2>4 DEF Excused
<1>. QED
    BY <1>5, <1>6

\* What the invariant says of one agent.
MindOK(a) ==
    /\ agent[a].incoming \subseteq Message /\ \A m \in agent[a].incoming : NotAhead(m)
    /\ agent[a].hearers \subseteq DOMAIN mode.senses \ {a}
    /\ agent[a].pc \in {"done", "waiting", "gathering"} => agent[a].incoming = {}
    /\ agent[a].pc = "routing" => mode.friends # <<>>
    /\ agent[a].pc \in {"emitting", "delivering", "routing"} =>
          agent[a].stamp \in Stamps /\ NotAhead(agent[a].stamp)
    /\ agent[a].pc \in {"emitting", "delivering"} => agent[a].stim.from = a
    /\ agent[a].pc = "delivering" /\ walked = {} =>
          agent[a].hearers = HearersOf(a, agent[a].stim)

LEMMA MindsAreOK ==
    ASSUME Types, LineInv, HearersInv
    PROVE  \A a \in Agents : MindOK(a)
BY DEF Types, MindsOK, StageInv, LineInv, HearersInv, MindOK

LineGrows == line' \in Stamps /\ line'.seq >= line.seq /\ line'.offset >= line.offset

\* A mind that is free but for where it is suspended.
LEMMA FreeIsOK ==
    ASSUME NEW a, NEW pc,
           agent'[a] = [Free EXCEPT !.pc = pc],
           pc \notin {"emitting", "delivering", "routing"}
    PROVE  MindOK(a)'
BY FreeIs DEF MindOK

LEMMA Outcome ==
    ASSUME Types, LineInv, HearersInv, NEW a \in Agents, Step(a)
    PROVE  /\ Alone(a) /\ LineGrows /\ MindOK(a)'
           /\ Quiet(a) \/ Sends(a) \/ Drops(a)
<1>0. /\ DOMAIN agent = Agents /\ DOMAIN agent[a] = Fields /\ MindOK(a)
      /\ line \in Stamps /\ line.seq \in Nat /\ line.offset \in Nat
      /\ bus \in Seq(Message) /\ Delay[a] \in Nat
    BY MindsAreOK, SpeechAssumption DEF Types, MindsOK, Stamps
<1>1. UNCHANGED line => LineGrows /\ \A m : NotAhead(m) => NotAhead(m)'
    BY <1>0 DEF LineGrows, NotAhead
<1>2. ASSUME NEW observed \in SUBSET Message, \A m \in observed : NotAhead(m)
      PROVE  /\ ReserveAction(a, observed) \in Stamps
             /\ line' = ReserveAction(a, observed) =>
                  /\ LineGrows
                  /\ line'.seq <= line'.seq /\ line'.offset <= line'.offset
  <2>1. ReserveAction(a, observed) = [seq |-> line.seq + 1, offset |-> line.offset + Delay[a]]
      BY <1>2, Reserved
  <2>. QED
      BY <1>0, <2>1 DEF Stamps, LineGrows, NotAhead, Message
<1>3. CASE Begin(a)
  <2>1. /\ At_(a, "waiting") /\ UNCHANGED <<worldVars, bus, receipts>>
        /\ \E pc \in {"done", "gathering"} : agent' = [agent EXCEPT ![a].pc = pc]
        /\ line' = ReserveAction(a, {}) \/ UNCHANGED line
      BY <1>3 DEF Begin, HoldBack
  <2>2. PICK pc \in {"done", "gathering"} : agent' = [agent EXCEPT ![a].pc = pc]
      BY <2>1
  <2>3. /\ DOMAIN agent' = Agents /\ DOMAIN agent'[a] = Fields
        /\ agent'[a].pc = pc /\ agent'[a].incoming = agent[a].incoming
        /\ agent'[a].hearers = agent[a].hearers
        /\ \A b \in Agents \ {a} : agent'[b] = agent[b]
      BY <1>0, <2>2 DEF Fields
  <2>4. agent[a].incoming = {}
      BY <1>0, <2>1 DEF MindOK, At_
  <2>5. LineGrows
      BY <1>1, <1>2, <2>1
  <2>6. MindOK(a)'
      BY <1>0, <2>1, <2>3, <2>4 DEF MindOK, worldVars
  <2>. QED
      BY <2>1, <2>3, <2>5, <2>6 DEF Alone, Quiet, At_
<1>4. CASE Observe(a)
  <2>1. /\ At_(a, "gathering") /\ UNCHANGED <<worldVars, bus, line, receipts>>
      BY <1>4 DEF Observe, mediaVars
  <2>2. \/ agent' = [agent EXCEPT ![a].pc = "done"]
        \/ \E raw : agent' = [agent EXCEPT ![a] =
                 [@ EXCEPT !.pc = "perceiving", !.raw = raw,
                           !.incoming = {bus[i] : i \in InboxOf(a)}]]
      BY <1>4 DEF Observe, HoldBack
  <2>3. /\ DOMAIN agent' = Agents /\ DOMAIN agent'[a] = Fields
        /\ \/ agent'[a].pc = "done" /\ agent'[a].incoming = {}
           \/ agent'[a].pc = "perceiving" /\ agent'[a].incoming = {bus[i] : i \in InboxOf(a)}
        /\ agent'[a].hearers = agent[a].hearers
        /\ \A b \in Agents \ {a} : agent'[b] = agent[b]
    <3>1. agent[a].incoming = {}
        BY <1>0, <2>1 DEF MindOK, At_
    <3>. QED
        BY <1>0, <2>2, <3>1 DEF Fields
  <2>4. \A i \in InboxOf(a) : bus[i] \in Message /\ NotAhead(bus[i])
      BY <1>0 DEF InboxOf, LineInv
  <2>5. MindOK(a)'
      BY <1>0, <1>1, <2>1, <2>3, <2>4 DEF MindOK, worldVars
  <2>. QED
      BY <1>1, <2>1, <2>3, <2>5 DEF Alone, Quiet, At_
<1>5. CASE AttendPercepts(a)
  <2>1. /\ At_(a, "perceiving") /\ UNCHANGED <<worldVars, bus, line, receipts>>
        /\ \E ranked : agent' = [agent EXCEPT ![a] =
                          [@ EXCEPT !.pc = "thinking", !.ranked = ranked, !.raw = <<>>]]
      BY <1>5 DEF AttendPercepts, mediaVars
  <2>2. /\ DOMAIN agent' = Agents /\ DOMAIN agent'[a] = Fields
        /\ agent'[a].pc = "thinking" /\ agent'[a].incoming = agent[a].incoming
        /\ agent'[a].hearers = agent[a].hearers
        /\ \A b \in Agents \ {a} : agent'[b] = agent[b]
      BY <1>0, <2>1 DEF Fields
  <2>3. MindOK(a)'
      BY <1>0, <1>1, <2>1, <2>2 DEF MindOK, worldVars
  <2>. QED
      BY <1>1, <2>1, <2>2, <2>3 DEF Alone, Quiet, At_
<1>6. CASE Act(a)
  <2>. DEFINE stamp == ReserveAction(a, agent[a].incoming)
  <2>1. /\ At_(a, "thinking") /\ UNCHANGED worldVars /\ line' = stamp
      BY <1>6 DEF Act
  <2>2. /\ stamp \in Stamps /\ LineGrows
        /\ stamp.seq <= line'.seq /\ stamp.offset <= line'.offset
      BY <1>0, <1>2, <2>1 DEF MindOK
  <2>3. CASE mode.perception
    <3>1. UNCHANGED <<bus, receipts>>
        BY <1>6, <2>3 DEF Act
    <3>2. PICK answer \in mode.answers : agent' = [agent EXCEPT ![a] =
             [@ EXCEPT !.pc = "emitting", !.stim = SpeechOf(a, answer),
                       !.stamp = stamp, !.incoming = {}, !.ranked = <<>>]]
        BY <1>6, <2>3 DEF Act
    <3>3. SpeechOf(a, answer).from = a
        BY DEF SpeechOf
    <3>. HIDE DEF stamp
    <3>4. /\ DOMAIN agent' = Agents /\ DOMAIN agent'[a] = Fields
          /\ agent'[a].pc = "emitting" /\ agent'[a].incoming = {}
          /\ agent'[a].hearers = agent[a].hearers
          /\ agent'[a].stim = SpeechOf(a, answer) /\ agent'[a].stamp = stamp
          /\ \A b \in Agents \ {a} : agent'[b] = agent[b]
        BY <1>0, <3>2 DEF Fields
    <3>5. MindOK(a)'
        BY <1>0, <2>1, <2>2, <3>3, <3>4 DEF MindOK, NotAhead, worldVars
    <3>. QED
        BY <2>1, <2>2, <3>1, <3>4, <3>5 DEF Alone, Quiet, At_
  <2>4. CASE ~mode.perception
    <3>1. Cascade(a, stamp)
        BY <1>6, <2>4 DEF Act
    <3>. HIDE DEF stamp
    <3>2. agent[a].pc # "receipt" /\ stamp.seq <= line'.seq /\ stamp.offset <= line'.offset
        BY <2>1, <2>2 DEF At_, NotAhead
    <3>3. CASE /\ Sends(a) \/ Drops(a)
               /\ agent' = [agent EXCEPT ![a] = [Free EXCEPT !.pc = "receipt"]]
      <4>1. /\ agent'[a] = [Free EXCEPT !.pc = "receipt"] /\ DOMAIN agent' = Agents
            /\ \A b \in Agents \ {a} : agent'[b] = agent[b]
          BY <1>0, <3>3
      <4>. QED
          BY <2>1, <2>2, <3>3, <4>1, FreeIs, FreeIsOK DEF Alone, At_
    <3>4. CASE /\ UNCHANGED <<bus, receipts>> /\ mode.friends # <<>>
               /\ agent' = [agent EXCEPT ![a] = [Free EXCEPT !.pc = "routing", !.stamp = stamp]]
      <4>1. /\ agent'[a] = [Free EXCEPT !.pc = "routing", !.stamp = stamp]
            /\ DOMAIN agent' = Agents /\ \A b \in Agents \ {a} : agent'[b] = agent[b]
          BY <1>0, <3>4
      <4>2. MindOK(a)'
          BY <2>1, <2>2, <3>4, <4>1, FreeIs DEF MindOK, NotAhead, worldVars
      <4>. QED
          BY <2>1, <2>2, <3>2, <3>4, <4>1, <4>2, FreeIs DEF Alone, Quiet, At_
    <3>. QED
        BY <2>2, <3>1, <3>2, <3>3, <3>4, CascadeKinds
  <2>. QED
      BY <2>3, <2>4
<1>7. CASE Emit(a)
  <2>1. /\ At_(a, "emitting") /\ UNCHANGED <<worldVars, line>>
      BY <1>7 DEF Emit
  <2>2. CASE a \in mode.hushed
    <3>1. RecordDropped(a, "stimulus_cancelled")
        BY <1>7, <2>2 DEF Emit
    <3>2. agent' = [agent EXCEPT ![a] = [Free EXCEPT !.pc = "receipt"]]
        BY <3>1 DEF RecordDropped
    <3>3. /\ agent'[a] = [Free EXCEPT !.pc = "receipt"] /\ DOMAIN agent' = Agents
          /\ \A b \in Agents \ {a} : agent'[b] = agent[b]
        BY <1>0, <3>2
    <3>4. Drops(a)
        BY <2>1, <3>1 DEF Drops, At_
    <3>. QED
        BY <1>1, <2>1, <3>3, <3>4, FreeIs, FreeIsOK DEF Alone, At_
  <2>3. CASE a \notin mode.hushed
    <3>1. /\ UNCHANGED <<bus, receipts>>
          /\ agent' = [agent EXCEPT ![a] =
                [@ EXCEPT !.pc = "delivering", !.hearers = HearersOf(a, agent[a].stim)]]
        BY <1>7, <2>3 DEF Emit
    <3>2. /\ DOMAIN agent' = Agents /\ DOMAIN agent'[a] = Fields
          /\ agent'[a].pc = "delivering" /\ agent'[a].incoming = agent[a].incoming
          /\ agent'[a].hearers = HearersOf(a, agent[a].stim)
          /\ agent'[a].stim = agent[a].stim /\ agent'[a].stamp = agent[a].stamp
          /\ \A b \in Agents \ {a} : agent'[b] = agent[b]
        BY <1>0, <3>1 DEF Fields
    <3>3. /\ HearersOf(a, agent[a].stim) \subseteq DOMAIN mode.senses \ {a}
          /\ HearersOf(a, agent[a].stim)' = HearersOf(a, agent'[a].stim)
        BY <2>1 DEF HearersOf, Blocked, Walled, Label, worldVars
    <3>4. MindOK(a)'
        BY <1>0, <1>1, <2>1, <3>2, <3>3 DEF MindOK, At_, worldVars
    <3>. QED
        BY <1>1, <2>1, <3>1, <3>2, <3>4 DEF Alone, Quiet, At_
  <2>. QED
      BY <2>2, <2>3
<1>8. CASE Deliver(a)
  <2>. DEFINE reached == {b \in agent[a].hearers : <<b, a>> \notin mode.deaf}
              reason == ExplainUndelivered(agent[a].stim, a, mode.senses, where, mode.geography)
              stamp == agent[a].stamp
  <2>1. /\ At_(a, "delivering") /\ UNCHANGED <<worldVars, line>>
        /\ IF reached # {} THEN Send(a, reached, "perception", stamp)
           ELSE IF mode.fallback THEN Cascade(a, stamp)
           ELSE RecordDropped(a, reason)
      BY <1>8 DEF Deliver
  <2>2. /\ stamp \in Stamps /\ agent[a].pc = "delivering"
        /\ stamp.seq <= line'.seq /\ stamp.offset <= line'.offset
      BY <1>0, <2>1 DEF MindOK, NotAhead, At_
  <2>3. LineGrows
      BY <1>1, <2>1
  <2>4. CASE /\ Sends(a) \/ Drops(a)
             /\ agent' = [agent EXCEPT ![a] = [Free EXCEPT !.pc = "receipt"]]
    <3>1. /\ agent'[a] = [Free EXCEPT !.pc = "receipt"] /\ DOMAIN agent' = Agents
          /\ \A b \in Agents \ {a} : agent'[b] = agent[b]
        BY <1>0, <2>4
    <3>. QED
        BY <2>1, <2>3, <2>4, <3>1, FreeIs, FreeIsOK DEF Alone, At_
  <2>5. CASE reached # {}
    <3>1. reached \subseteq Agents \ {a}
        BY <1>0, SpeechAssumption DEF MindOK, Types
    <3>2. /\ reached \in SUBSET (Agents \cup {Everyone}) /\ a \notin reached
          /\ IsFiniteSet(reached) /\ reached \subseteq agent[a].hearers
        BY <3>1, SomeAreFinite
    <3>. HIDE DEF reached, stamp
    <3>3. Send(a, reached, "perception", stamp)
        BY <2>1, <2>5
    <3>4. Sends(a)
        BY <2>2, <3>2, <3>3, SendsIs
    <3>. QED
        BY <2>4, <3>3, <3>4 DEF Send
  <2>6. CASE reached = {} /\ ~mode.fallback
    <3>1. RecordDropped(a, reason)
        BY <2>1, <2>6
    <3>2. reason = "filtered" => Excused(a)
        BY <2>2, <2>6, FilteredIsExcused
    <3>. HIDE DEF reason
    <3>3. Drops(a)
        BY <2>2, <3>1, <3>2 DEF Drops
    <3>. QED
        BY <2>4, <3>1, <3>3 DEF RecordDropped
  <2>7. CASE reached = {} /\ mode.fallback
    <3>1. Cascade(a, stamp)
        BY <2>1, <2>7
    <3>. HIDE DEF stamp
    <3>2. CASE /\ UNCHANGED <<bus, receipts>> /\ mode.friends # <<>>
               /\ agent' = [agent EXCEPT ![a] = [Free EXCEPT !.pc = "routing", !.stamp = stamp]]
      <4>1. /\ agent'[a] = [Free EXCEPT !.pc = "routing", !.stamp = stamp]
            /\ DOMAIN agent' = Agents /\ \A b \in Agents \ {a} : agent'[b] = agent[b]
          BY <1>0, <3>2
      <4>2. MindOK(a)'
          BY <2>1, <2>2, <3>2, <4>1, FreeIs DEF MindOK, NotAhead, worldVars
      <4>. QED
          BY <2>1, <2>2, <2>3, <3>2, <4>1, <4>2, FreeIs DEF Alone, Quiet, At_
    <3>. QED
        BY <2>2, <2>4, <3>1, <3>2, CascadeKinds
  <2>. QED
      BY <2>5, <2>6, <2>7
<1>9. CASE Route(a)
  <2>. DEFINE stamp == agent[a].stamp
  <2>1. /\ At_(a, "routing") /\ UNCHANGED <<worldVars, line>>
        /\ IF mode.friends[a] # {} THEN Send(a, mode.friends[a], "neighborhood", stamp)
                                   ELSE Fallback(a, stamp)
      BY <1>9 DEF Route
  <2>2. /\ stamp \in Stamps /\ agent[a].pc = "routing"
        /\ stamp.seq <= line'.seq /\ stamp.offset <= line'.offset
      BY <1>0, <2>1 DEF MindOK, NotAhead, At_
  <2>3. mode.friends[a] \subseteq Agents \ {a}
    <3>1. mode.friends # <<>>
        BY <1>0, <2>2 DEF MindOK
    <3>. QED
        BY <3>1, SpeechAssumption DEF Types
  <2>4. mode.friends[a] \in SUBSET (Agents \cup {Everyone}) /\ IsFiniteSet(mode.friends[a])
          /\ a \notin mode.friends[a]
      BY <2>3, SomeAreFinite
  <2>. HIDE DEF stamp
  <2>5. /\ Sends(a) \/ Drops(a)
        /\ agent' = [agent EXCEPT ![a] = [Free EXCEPT !.pc = "receipt"]]
    <3>1. CASE Send(a, mode.friends[a], "neighborhood", stamp)
        BY <2>2, <2>4, <3>1, SendsIs
    <3>2. CASE Fallback(a, stamp)
        BY <2>2, <3>2, FallbackKinds
    <3>. QED
        BY <2>1, <3>1, <3>2
  <2>6. /\ agent'[a] = [Free EXCEPT !.pc = "receipt"] /\ DOMAIN agent' = Agents
        /\ \A b \in Agents \ {a} : agent'[b] = agent[b]
      BY <1>0, <2>5
  <2>. QED
      BY <1>1, <2>1, <2>5, <2>6, FreeIs, FreeIsOK DEF Alone, At_
<1>10. CASE Finish(a)
  <2>1. /\ At_(a, "receipt") /\ UNCHANGED <<worldVars, bus, line, receipts>>
        /\ agent' = [agent EXCEPT ![a] = Free]
      BY <1>10 DEF Finish, mediaVars
  <2>2. /\ agent'[a] = Free /\ DOMAIN agent' = Agents
        /\ \A b \in Agents \ {a} : agent'[b] = agent[b]
      BY <1>0, <2>1
  <2>3. MindOK(a)'
      BY <2>2, FreeIs DEF MindOK
  <2>. QED
      BY <1>1, <2>1, <2>2, <2>3, FreeIs DEF Alone, Quiet, At_
<1>. QED
    BY <1>3, <1>4, <1>5, <1>6, <1>7, <1>8, <1>9, <1>10 DEF Step

-----------------------------------------------------------------------------
(***************************************************************************)
(* The invariant across the steps of an agent.                              *)
(***************************************************************************)
LEMMA MindsFollow ==
    ASSUME DOMAIN agent' = Agents, mode' \in Modes, stage' = "running",
           walked' = {} => where' = mode'.places,
           \A b \in Agents : DOMAIN agent'[b] = Fields /\ MindOK(b)'
    PROVE  /\ MindsOK' /\ StageInv' /\ HearersInv'
           /\ (\A b \in Agents : \A m \in agent[b].incoming : NotAhead(m))'
           /\ (\A b \in Agents : agent[b].pc \in {"emitting", "delivering", "routing"} =>
                                   agent[b].stamp \in Stamps /\ NotAhead(agent[b].stamp))'
BY DEF MindOK, MindsOK, StageInv, HearersInv

LEMMA AgentsStep ==
    ASSUME Inv, NEW a \in Agents, Step(a)
    PROVE  /\ Types' /\ LineInv' /\ HearersInv'
           /\ Alone(a)
           /\ Quiet(a) \/ Sends(a) \/ Drops(a)
<1>. USE DEF Inv
<1>1. /\ Alone(a) /\ LineGrows /\ MindOK(a)'
      /\ Quiet(a) \/ Sends(a) \/ Drops(a)
    BY Outcome
<1>2. \A b \in Agents : MindOK(b)
    BY MindsAreOK
<1>3. /\ bus \in Seq(Message) /\ line \in Stamps /\ DOMAIN agent = Agents
      /\ \A b \in Agents : DOMAIN agent[b] = Fields
    BY DEF Types, MindsOK
<1>4. UNCHANGED <<mode, tick, stage, where, walked>> /\ stage = "running"
    BY <1>1 DEF Alone, worldVars
<1>5. \A m : m.seq \in Nat /\ m.offset \in Nat /\ NotAhead(m) => NotAhead(m)'
    BY <1>1, <1>3 DEF LineGrows, NotAhead, Stamps
<1>6. \A b \in Agents : DOMAIN agent'[b] = Fields /\ MindOK(b)'
  <2>. SUFFICES ASSUME NEW b \in Agents \ {a}
                PROVE  DOMAIN agent'[b] = Fields /\ MindOK(b)'
      BY <1>1 DEF Alone
  <2>1. agent'[b] = agent[b]
      BY <1>1 DEF Alone
  <2>2. \A m \in agent[b].incoming : m.seq \in Nat /\ m.offset \in Nat
      BY <1>2 DEF MindOK, Message
  <2>3. agent[b].stamp \in Stamps => agent[b].stamp.seq \in Nat /\ agent[b].stamp.offset \in Nat
      BY DEF Stamps
  <2>4. agent[b].stamp \in Stamps /\ NotAhead(agent[b].stamp) => NotAhead(agent[b].stamp)'
    <3>. DEFINE st == agent[b].stamp
    <3>1. st' = st
        BY <2>1
    <3>2. st \in Stamps /\ NotAhead(st) => st.seq <= line'.seq /\ st.offset <= line'.offset
        BY <2>3, <1>5 DEF NotAhead
    <3>. QED
        BY <2>1, <3>2 DEF NotAhead
  <2>5. agent'[b].hearers = HearersOf(b, agent[b].stim) => (agent[b].hearers = HearersOf(b, agent[b].stim))'
      BY <1>4, <2>1 DEF HearersOf, Blocked, Walled, Label
  <2>6. MindOK(b)'
      BY <1>2, <1>4, <1>5, <2>1, <2>2, <2>4, <2>5 DEF MindOK
  <2>. QED
      BY <1>3, <2>1, <2>6
<1>7. /\ MindsOK' /\ StageInv' /\ HearersInv'
      /\ (\A b \in Agents : \A m \in agent[b].incoming : NotAhead(m))'
      /\ (\A b \in Agents : agent[b].pc \in {"emitting", "delivering", "routing"} =>
                              agent[b].stamp \in Stamps /\ NotAhead(agent[b].stamp))'
  <2>1. mode' \in Modes /\ (walked' = {} => where' = mode'.places)
      BY <1>4 DEF Types, HearersInv
  <2>. QED
      BY <1>1, <1>4, <1>6, <2>1, MindsFollow DEF Alone
<1>8. \A i \in DOMAIN bus : bus[i].seq \in Nat /\ bus[i].offset \in Nat /\ NotAhead(bus[i])
  <2>1. \A i \in DOMAIN bus : bus[i] \in Message
      BY <1>3
  <2>. QED
      BY <2>1 DEF LineInv, Message
<1>9. bus' \in Seq(Message) /\ (\A i \in DOMAIN bus : NotAhead(bus[i]))'
  <2>1. CASE bus' = bus
      BY <1>3, <1>5, <1>8, <2>1 DEF NotAhead
  <2>2. CASE Sends(a)
    <3>0. PICK to \in SUBSET (Agents \cup {Everyone}), stamp \in Stamps : \E route :
              /\ IsFiniteSet(to)
              /\ stamp.seq <= line'.seq /\ stamp.offset <= line'.offset
              /\ Send(a, to, route, stamp)
        BY <2>2 DEF Sends
    <3>1. PICK route :
              /\ IsFiniteSet(to)
              /\ stamp.seq <= line'.seq /\ stamp.offset <= line'.offset
              /\ Send(a, to, route, stamp)
        BY <3>0
    <3>2. /\ Cardinality(to) \in Nat /\ bus' \in Seq(Message)
          /\ Len(bus') = Len(bus) + Cardinality(to)
          /\ \A i \in 1..Len(bus) : bus'[i] = bus[i]
          /\ \A i \in (Len(bus) + 1)..(Len(bus) + Cardinality(to)) :
                bus'[i].seq = stamp.seq /\ bus'[i].offset = stamp.offset
        BY <3>1, Delivery
    <3>3. ASSUME NEW i \in DOMAIN bus'
          PROVE  bus'[i].seq <= line'.seq /\ bus'[i].offset <= line'.offset
      <4>1. CASE i \in 1..Len(bus)
        <5>1. i \in DOMAIN bus /\ bus'[i] = bus[i]
            BY <1>3, <3>2, <4>1
        <5>. QED
            BY <1>5, <1>8, <5>1 DEF NotAhead
      <4>2. CASE i \in (Len(bus) + 1)..(Len(bus) + Cardinality(to))
          BY <3>1, <3>2, <4>2
      <4>. QED
          BY <1>3, <3>2, <4>1, <4>2
    <3>. QED
        BY <3>2, <3>3 DEF NotAhead
  <2>. QED
      BY <1>1, <2>1, <2>2 DEF Quiet, Drops, RecordDropped
<1>10. LineInv'
    BY <1>7, <1>9 DEF LineInv
<1>11. Types'
    BY <1>1, <1>4, <1>7, <1>9 DEF Types, LineGrows
<1>. QED
    BY <1>1, <1>7, <1>10, <1>11

\* The step adds k, the receipt of a in this tick, and one message to each of its n hearers.
FilesInto(a, k, n) ==
    /\ agent[a].pc # "receipt" /\ agent'[a].pc = "receipt"
    /\ k.from = a /\ k.tick = tick /\ k.id = <<a, tick>>
    /\ k.reason = "filtered" => Excused(a)
    /\ a \notin k.to /\ n \in Nat /\ Cardinality(k.to) = n
    /\ receipts' = receipts \cup {k}
    /\ bus' \in Seq(Message) /\ Len(bus') = Len(bus) + n
    /\ \A i \in 1..Len(bus) : bus'[i] = bus[i]
    /\ \A i \in (Len(bus) + 1)..(Len(bus) + n) : bus'[i].id = k.id /\ bus'[i].from = a
    /\ {bus'[i].to : i \in (Len(bus) + 1)..(Len(bus) + n)} = k.to

\* Queues that agree on the places of S have the same hearers there.
LEMMA SameHearers ==
    ASSUME NEW S, NEW q, NEW r, \A i \in S : q[i] = r[i]
    PROVE  {q[i].to : i \in S} = {r[i].to : i \in S}
OBVIOUS

\* A receipt and its messages, together.
LEMMA ReceiptAdded ==
    ASSUME Inv, Types', NEW a \in Agents, Alone(a), NEW k, NEW n, FilesInto(a, k, n)
    PROVE  ReceiptInv' /\ BusInv' /\ Counted' /\ FilteredInv'
<1>. USE DEF Inv, FilesInto
<1>0. /\ UNCHANGED <<mode, tick, stage, where, walked>> /\ stage = "running"
      /\ tick \in Nat /\ bus \in Seq(Message) /\ Len(bus) \in Nat
      /\ DOMAIN bus = 1..Len(bus) /\ DOMAIN bus' = 1..(Len(bus) + n)
    BY DEF Alone, worldVars, Types
<1>1. \A l \in receipts : l.from \in Agents /\ l.tick \in Nat /\ l.id = <<l.from, l.tick>>
                            /\ l.id # k.id
  <2>1. ASSUME NEW l \in receipts
        PROVE  l.from \in Agents /\ l.tick \in Nat /\ l.id = <<l.from, l.tick>>
      BY DEF ReceiptInv
  <2>2. ASSUME NEW l \in receipts, l.id = k.id PROVE FALSE
    <3>1. l.from = a /\ l.tick = tick
        BY <2>1, <2>2
    <3>2. agent[a].pc \notin {"done", "receipt"}
        BY DEF Alone
    <3>. QED
        BY <3>1, <3>2 DEF ReceiptInv
  <2>. QED
      BY <2>1, <2>2
<1>2. ReceiptInv'
  <2>1. ASSUME NEW l \in receipts'
        PROVE  /\ l.from \in Agents /\ l.tick \in Nat
               /\ l.id = <<l.from, l.tick>> /\ l.tick <= tick'
               /\ agent'[l.from].pc \notin {"done", "receipt"} => l.tick # tick'
    <3>1. CASE l = k
        BY <1>0, <3>1
    <3>2. CASE l \in receipts
      <4>1. /\ l.from \in Agents /\ l.tick \in Nat
            /\ l.id = <<l.from, l.tick>> /\ l.tick <= tick
            /\ agent[l.from].pc \notin {"done", "receipt"} => l.tick # tick
          BY <3>2 DEF ReceiptInv
      <4>2. l.from = a \/ agent'[l.from] = agent[l.from]
          BY <4>1 DEF Alone
      <4>. QED
          BY <1>0, <4>1, <4>2
    <3>. QED
        BY <2>1, <3>1, <3>2
  <2>2. \A l, m \in receipts' : l.id = m.id => l = m
      BY <1>1 DEF ReceiptInv
  <2>. QED
      BY <1>0, <2>1, <2>2 DEF ReceiptInv
<1>3. BusInv'
  <2>. SUFFICES ASSUME NEW i \in DOMAIN bus'
                PROVE  IF bus'[i].from \in Agents THEN \E l \in receipts' : l.id = bus'[i].id
                                                  ELSE bus'[i].id \notin Agents \X Nat
      BY DEF BusInv
  <2>1. CASE i \in 1..Len(bus)
      BY <1>0, <2>1 DEF BusInv
  <2>2. CASE i \in (Len(bus) + 1)..(Len(bus) + n)
      BY <2>2
  <2>. QED
      BY <1>0, <2>1, <2>2
\* Nothing on the bus had this id before.
<1>4. \A i \in 1..Len(bus) : bus[i].id # k.id
  <2>. SUFFICES ASSUME NEW i \in DOMAIN bus PROVE bus[i].id # k.id
      BY <1>0
  <2>1. CASE bus[i].from \in Agents
      BY <1>1, <2>1 DEF BusInv
  <2>2. CASE bus[i].from \notin Agents
    <3>1. bus[i].id \notin Agents \X Nat
        BY <2>2 DEF BusInv
    <3>2. k.id \in Agents \X Nat
        BY <1>0
    <3>. QED
        BY <3>1, <3>2
  <2>. QED
      BY <2>1, <2>2
<1>5. Counted'
  <2>. SUFFICES ASSUME NEW l \in receipts', l.tick = tick
                PROVE  /\ {bus'[i].to : i \in MessagesOf(l.id)'} = l.to
                       /\ Cardinality(MessagesOf(l.id)') = Cardinality(l.to)
                       /\ l.from \notin l.to
      BY <1>0 DEF Counted, MessagesOf
  <2>1. CASE l = k
    <3>1. MessagesOf(l.id)' = (Len(bus) + 1)..(Len(bus) + n)
      <4>1. MessagesOf(l.id)' = {i \in DOMAIN bus' : bus'[i].id = k.id}
          BY <2>1 DEF MessagesOf
      <4>2. \A i \in 1..Len(bus) : bus'[i].id # k.id
          BY <1>4
      <4>3. \A i \in DOMAIN bus' : \/ i \in 1..Len(bus)
                                  \/ i \in (Len(bus) + 1)..(Len(bus) + n)
          BY <1>0
      <4>4. (Len(bus) + 1)..(Len(bus) + n) \subseteq DOMAIN bus'
          BY <1>0
      <4>. QED
          BY <4>1, <4>2, <4>3, <4>4
    <3>2. Cardinality((Len(bus) + 1)..(Len(bus) + n)) = n
      <4>1. /\ Len(bus) + 1 \in Int /\ Len(bus) + n \in Int
            /\ (Len(bus) + 1 > Len(bus) + n) <=> n = 0
            /\ (Len(bus) + n) - (Len(bus) + 1) + 1 = n
          BY <1>0
      <4>. QED
          BY <4>1, FS_Interval
    <3>. QED
        BY <2>1, <3>1, <3>2
  <2>2. CASE l \in receipts
    <3>1. l.id # k.id
        BY <1>1, <2>2
    <3>2. MessagesOf(l.id)' = MessagesOf(l.id)
        BY <1>0, <3>1 DEF MessagesOf
    <3>3. \A i \in MessagesOf(l.id) : bus'[i] = bus[i]
        BY <1>0 DEF MessagesOf
    <3>4. {bus'[i].to : i \in MessagesOf(l.id)} = {bus[i].to : i \in MessagesOf(l.id)}
      <4>. HIDE DEF Inv, FilesInto
      <4>. QED
          BY <3>3, SameHearers
    <3>. QED
        BY <2>2, <3>2, <3>4 DEF Counted
  <2>. QED
      BY <2>1, <2>2
<1>6. FilteredInv'
  <2>1. \A b : Excused(b) => Excused(b)'
      BY <1>0 DEF Excused, Walled, Label
  <2>. QED
      BY <2>1 DEF FilteredInv
<1>. QED
    BY <1>2, <1>3, <1>5, <1>6

LEMMA AgentsKeep ==
    ASSUME Inv, NEW a \in Agents, Step(a)
    PROVE  Inv'
<1>. USE DEF Inv
<1>1. /\ Types' /\ LineInv' /\ HearersInv' /\ Alone(a)
      /\ Quiet(a) \/ Sends(a) \/ Drops(a)
    BY AgentsStep
<1>2. /\ UNCHANGED <<mode, tick, stage, where, walked>> /\ stage = "running"
      /\ tick \in Nat /\ bus \in Seq(Message) /\ DOMAIN agent = Agents
    BY <1>1 DEF Alone, worldVars, Types, MindsOK
<1>3. CASE Quiet(a)
  <2>1. UNCHANGED <<bus, receipts>>
      BY <1>3 DEF Quiet
  <2>2. \A b \in Agents : agent'[b].pc \notin {"done", "receipt"}
                             => agent[b].pc \notin {"done", "receipt"}
      BY <1>1, <1>3 DEF Quiet, Alone
  <2>3. ReceiptInv'
      BY <1>2, <2>1, <2>2 DEF ReceiptInv
  <2>4. BusInv'
      BY <2>1 DEF BusInv
  <2>5. Counted'
      BY <1>2, <2>1 DEF Counted, MessagesOf
  <2>6. \A b : Excused(b) => Excused(b)'
      BY <1>2 DEF Excused, Walled, Label
  <2>7. FilteredInv'
      BY <2>1, <2>6 DEF FilteredInv
  <2>. QED
      BY <1>1, <2>3, <2>4, <2>5, <2>7
<1>4. CASE Sends(a)
  <2>0. PICK to \in SUBSET (Agents \cup {Everyone}), stamp \in Stamps : \E route :
            IsFiniteSet(to) /\ a \notin to /\ Send(a, to, route, stamp)
      BY <1>4 DEF Sends
  <2>1. PICK route : IsFiniteSet(to) /\ a \notin to /\ Send(a, to, route, stamp)
      BY <2>0
  <2>. DEFINE k == Receipt(a, route, to, "none")
              n == Cardinality(to)
  <2>2. /\ n \in Nat /\ bus' \in Seq(Message) /\ Len(bus') = Len(bus) + n
        /\ \A i \in 1..Len(bus) : bus'[i] = bus[i]
        /\ \A i \in (Len(bus) + 1)..(Len(bus) + n) :
              bus'[i].id = <<a, tick>> /\ bus'[i].from = a
        /\ {bus'[i].to : i \in (Len(bus) + 1)..(Len(bus) + n)} = to
      BY <2>1, Delivery
  <2>3. /\ k.from = a /\ k.tick = tick /\ k.id = <<a, tick>> /\ k.to = to
        /\ k.reason # "filtered"
      BY DEF Receipt
  <2>4. receipts' = receipts \cup {k} /\ agent'[a].pc = "receipt"
    <3>1. agent'[a] = [Free EXCEPT !.pc = "receipt"] /\ receipts' = receipts \cup {k}
        BY <1>2, <2>1 DEF Send
    <3>. QED
        BY <3>1, FreeIs
  <2>5. agent[a].pc # "receipt"
      BY <1>4 DEF Sends
  <2>. HIDE DEF k, Inv
  <2>7. /\ \A i \in (Len(bus) + 1)..(Len(bus) + n) : bus'[i].id = k.id /\ bus'[i].from = a
        /\ {bus'[i].to : i \in (Len(bus) + 1)..(Len(bus) + n)} = k.to
        /\ Cardinality(k.to) = n /\ a \notin k.to /\ Inv
        /\ (k.reason = "filtered" => Excused(a))
      BY <2>1, <2>2, <2>3
  <2>. HIDE DEF n
  <2>8. FilesInto(a, k, n)
      BY <2>2, <2>3, <2>4, <2>5, <2>7 DEF FilesInto
  <2>6. ReceiptInv' /\ BusInv' /\ Counted' /\ FilteredInv'
      BY <1>1, <2>7, <2>8, ReceiptAdded
  <2>. QED
      BY <1>1, <2>6 DEF Inv
<1>5. CASE Drops(a)
  <2>1. PICK reason : RecordDropped(a, reason) /\ (reason = "filtered" => Excused(a))
      BY <1>5 DEF Drops
  <2>. DEFINE k == Receipt(a, "dropped", {}, reason)
  <2>2. bus' = bus /\ receipts' = receipts \cup {k} /\ agent'[a].pc = "receipt"
    <3>1. /\ agent'[a] = [Free EXCEPT !.pc = "receipt"] /\ receipts' = receipts \cup {k}
          /\ bus' = bus
        BY <1>2, <2>1 DEF RecordDropped
    <3>. QED
        BY <3>1, FreeIs
  <2>3. /\ k.from = a /\ k.tick = tick /\ k.id = <<a, tick>> /\ k.to = {}
        /\ k.reason = reason
      BY DEF Receipt
  <2>4. agent[a].pc # "receipt"
      BY <1>5 DEF Drops
  <2>5. /\ Len(bus) \in Nat /\ Len(bus') = Len(bus) + 0
        /\ (Len(bus) + 1)..(Len(bus) + 0) = {} /\ bus' \in Seq(Message)
      BY <1>2, <2>2
  <2>6. Cardinality(k.to) = 0 /\ 0 \in Nat
      BY <2>3, FS_EmptySet
  <2>. HIDE DEF k, Inv
  <2>7. /\ \A i \in 1..Len(bus) : bus'[i] = bus[i]
        /\ \A i \in (Len(bus) + 1)..(Len(bus) + 0) : bus'[i].id = k.id /\ bus'[i].from = a
        /\ {bus'[i].to : i \in (Len(bus) + 1)..(Len(bus) + 0)} = k.to
      BY <2>2, <2>3, <2>5
  <2>9. FilesInto(a, k, 0)
      BY <2>1, <2>2, <2>3, <2>4, <2>5, <2>6, <2>7 DEF FilesInto
  <2>10. Inv
      BY DEF Inv
  <2>8. ReceiptInv' /\ BusInv' /\ Counted' /\ FilteredInv'
      BY <1>1, <2>9, <2>10, ReceiptAdded
  <2>. QED
      BY <1>1, <2>8 DEF Inv
<1>. QED
    BY <1>1, <1>3, <1>4, <1>5

-----------------------------------------------------------------------------
(***************************************************************************)
(* The invariant across the steps of the world.                             *)
(***************************************************************************)
\* What nobody moves while the hearers stay where they are.
LEMMA ExcusesStay ==
    ASSUME Inv, UNCHANGED <<mode, where, walked, receipts>>
    PROVE  FilteredInv'
<1>1. \A b : Excused(b) => Excused(b)'
    BY DEF Excused, Walled, Label
<1>. QED
    BY <1>1 DEF Inv, FilteredInv

\* The letters of a tick are numbered on its line, and none is an action.
LEMMA OpenKeeps == Inv /\ OpenTick => Inv'
<1>. SUFFICES ASSUME Inv, OpenTick PROVE Inv'
    OBVIOUS
<1>. USE DEF Inv
<1>1. PICK letters \in mode.inbound :
          /\ bus' = SetToSeq({[id |-> <<"letter", a, tick'>>, from |-> "abroad", to |-> a,
                               seq |-> 1, offset |-> 0] : a \in letters})
          /\ line' = [seq |-> Cardinality(letters), offset |-> 0]
    BY DEF OpenTick
<1>2. /\ stage = "closed" /\ stage' = "opened" /\ tick' = tick + 1
      /\ UNCHANGED <<mode, where, walked, agent, receipts>>
    BY DEF OpenTick, mindVars
<1>3. /\ mode \in Modes /\ tick \in Nat /\ tick' \in Nat /\ DOMAIN agent = Agents
      /\ \A a \in Agents : agent[a].pc = "done" /\ agent[a].incoming = {}
    BY <1>2 DEF Types, MindsOK, StageInv
<1>4. letters \subseteq Agents /\ IsFiniteSet(letters)
  <2>1. letters \subseteq Agents
      BY <1>1, <1>3, SpeechAssumption
  <2>. QED
      BY <2>1, SomeAreFinite
<1>. DEFINE Letter(a) == [id |-> <<"letter", a, tick'>>, from |-> "abroad", to |-> a,
                          seq |-> 1, offset |-> 0]
            M == {Letter(a) : a \in letters}
            f == [a \in letters |-> Letter(a)]
            n == Cardinality(letters)
<1>5. \A a \in letters : /\ Letter(a) \in Message /\ Letter(a).to = a
                         /\ Letter(a).from = "abroad" /\ Letter(a).id = <<"letter", a, tick'>>
                         /\ Letter(a).seq = 1 /\ Letter(a).offset = 0
    BY <1>3, <1>4 DEF Message
<1>6. bus' = SetToSeq(M)
    BY <1>1
<1>. HIDE DEF Letter
<1>7. f \in Bijection(letters, M)
  <2>1. f \in [letters -> M] /\ \A x \in M : \E r \in letters : f[r] = x
      OBVIOUS
  <2>2. \A r, s \in letters : f[r] = f[s] => r = s
      BY <1>5
  <2>. QED
      BY <2>1, <2>2 DEF Bijection, Injection, Surjection, IsInjective
<1>8. IsFiniteSet(M) /\ Cardinality(M) = n
    BY <1>4, <1>7, FS_Bijection DEF ExistsBijection
<1>9. /\ n \in Nat /\ bus' \in Seq(M) /\ Len(bus') = n
    BY <1>6, <1>8, ListOfSet
<1>10. \A i \in DOMAIN bus' : n >= 1 /\ \E a \in letters : bus'[i] = Letter(a)
  <2>. HIDE DEF n
  <2>1. \A i \in DOMAIN bus' : i \in 1..n /\ bus'[i] \in M
      BY <1>9
  <2>. QED
      BY <1>9, <2>1
<1>11. \A i \in DOMAIN bus' : /\ bus'[i].from = "abroad" /\ bus'[i].seq = 1
                              /\ bus'[i].offset = 0
                              /\ \E a \in letters : bus'[i].id = <<"letter", a, tick'>>
    BY <1>5, <1>10
<1>12. bus' \in Seq(Message)
  <2>1. M \subseteq Message
      BY <1>5
  <2>. QED
      BY <1>9, <2>1
<1>13. line'.seq = n /\ line'.offset = 0 /\ line' \in Stamps
    BY <1>1, <1>9 DEF Stamps
<1>14. MindsOK' /\ StageInv'
    BY <1>2, <1>3 DEF Types, MindsOK, StageInv
<1>15. Types'
    BY <1>2, <1>3, <1>12, <1>13, <1>14 DEF Types
<1>16. LineInv'
  <2>1. \A i \in DOMAIN bus' : bus'[i].seq <= line'.seq /\ bus'[i].offset <= line'.offset
      BY <1>9, <1>10, <1>11, <1>13
  <2>2. \A a \in Agents : agent'[a].incoming = {} /\ agent'[a].pc = "done"
      BY <1>2, <1>3
  <2>. QED
      BY <2>1, <2>2 DEF LineInv, NotAhead
<1>17. ReceiptInv'
  <2>1. \A k \in receipts : /\ k.from \in Agents /\ k.tick \in Nat
                            /\ k.id = <<k.from, k.tick>> /\ k.tick <= tick
      BY DEF ReceiptInv
  <2>2. \A k, l \in receipts : k.id = l.id => k = l
      BY DEF ReceiptInv
  <2>3. \A k \in receipts : k.tick < tick' /\ agent'[k.from].pc = "done"
      BY <1>2, <1>3, <2>1
  <2>. QED
      BY <1>2, <1>3, <2>1, <2>2, <2>3 DEF ReceiptInv
<1>18. BusInv'
  <2>1. "abroad" \notin Agents
      BY SpeechAssumption
  <2>2. \A x, y : <<"letter", x, y>> \notin Agents \X Nat
      OBVIOUS
  <2>. QED
      BY <1>11, <2>1, <2>2 DEF BusInv
<1>19. Counted'
  <2>1. \A k \in receipts' : k.tick # tick'
      BY <1>2, <1>3 DEF ReceiptInv
  <2>. QED
      BY <2>1 DEF Counted
<1>20. FilteredInv'
    BY <1>2, ExcusesStay
<1>21. HearersInv'
    BY <1>2, <1>3 DEF HearersInv
<1>. QED
    BY <1>15, <1>16, <1>17, <1>18, <1>19, <1>20, <1>21

\* Nobody has spoken in a tick that has just begun.
LEMMA ActivateKeeps == Inv /\ Activate => Inv'
<1>. SUFFICES ASSUME Inv, Activate PROVE Inv'
    OBVIOUS
<1>. USE DEF Inv
<1>1. /\ stage = "opened" /\ stage' = "running"
      /\ UNCHANGED <<mode, tick, where, walked, bus, line, receipts>>
    BY DEF Activate, mediaVars
<1>2. /\ DOMAIN agent' = Agents
      /\ \A a \in Agents : /\ DOMAIN agent'[a] = Fields /\ agent'[a].incoming = {}
                           /\ agent'[a].hearers = {} /\ agent'[a].pc \in {"waiting", "done"}
  <2>1. PICK drawn \in mode.drawn :
            agent' = [a \in Agents |->
               [Free EXCEPT !.pc =
                  IF \/ InboxOf(a) # {}
                     \/ mode.perception /\ PerceiveRetained(a) # <<>>
                     \/ a \in drawn
                  THEN "waiting" ELSE "done"]]
      BY DEF Activate
  <2>2. /\ DOMAIN agent' = Agents
        /\ \A a \in Agents : \E pc \in {"waiting", "done"} :
              agent'[a] = [Free EXCEPT !.pc = pc]
      BY <2>1
  <2>. SUFFICES ASSUME NEW a \in Agents
                PROVE  /\ DOMAIN agent'[a] = Fields /\ agent'[a].incoming = {}
                       /\ agent'[a].hearers = {} /\ agent'[a].pc \in {"waiting", "done"}
      BY <2>2
  <2>3. PICK pc \in {"waiting", "done"} : agent'[a] = [Free EXCEPT !.pc = pc]
      BY <2>2
  <2>. QED
      BY <2>3, FreeIs
<1>3. MindsOK' /\ StageInv'
    BY <1>1, <1>2 DEF MindsOK, StageInv
<1>4. Types'
    BY <1>1, <1>3 DEF Types
<1>5. LineInv'
    BY <1>1, <1>2 DEF LineInv, NotAhead
<1>6. ReceiptInv'
    BY <1>1 DEF ReceiptInv, Types
<1>7. BusInv'
    BY <1>1 DEF BusInv
<1>8. Counted'
    BY <1>1 DEF Counted, MessagesOf
<1>9. FilteredInv'
    BY <1>1, ExcusesStay
<1>10. HearersInv'
    BY <1>1, <1>2 DEF HearersInv
<1>. QED
    BY <1>4, <1>5, <1>6, <1>7, <1>8, <1>9, <1>10

\* The end of a tick leaves the bus and the receipts as they are.
LEMMA CloseKeeps == Inv /\ CloseTick => Inv'
<1>. SUFFICES ASSUME Inv, CloseTick PROVE Inv'
    OBVIOUS
<1>. USE DEF Inv
<1>1. /\ stage = "running" /\ stage' = "closed" /\ \A a \in Agents : agent[a].pc = "done"
      /\ UNCHANGED <<mode, tick, where, walked, bus, line, agent, receipts>>
    BY DEF CloseTick, mindVars
<1>2. Types'
    BY <1>1 DEF Types, MindsOK, StageInv
<1>3. LineInv'
    BY <1>1 DEF LineInv, NotAhead
<1>4. ReceiptInv'
    BY <1>1 DEF ReceiptInv
<1>5. BusInv'
    BY <1>1 DEF BusInv
<1>6. Counted'
    BY <1>1 DEF Counted, MessagesOf
<1>7. FilteredInv'
    BY <1>1, ExcusesStay
<1>8. HearersInv'
    BY <1>1 DEF HearersInv
<1>. QED
    BY <1>2, <1>3, <1>4, <1>5, <1>6, <1>7, <1>8

\* Who moves is an excuse from then on.
LEMMA MoveKeeps ==
    ASSUME Inv, NEW a \in Agents, Move(a)
    PROVE  Inv'
<1>. USE DEF Inv
<1>1. /\ UNCHANGED <<mode, tick, stage, bus, line, agent, receipts>> /\ walked' # {}
    BY DEF Move, mediaVars, mindVars
<1>2. Types'
    BY <1>1 DEF Types, MindsOK, StageInv
<1>3. LineInv'
    BY <1>1 DEF LineInv, NotAhead
<1>4. ReceiptInv'
    BY <1>1 DEF ReceiptInv
<1>5. BusInv'
    BY <1>1 DEF BusInv
<1>6. Counted'
    BY <1>1 DEF Counted, MessagesOf
<1>7. FilteredInv'
    BY <1>1 DEF FilteredInv, Excused
<1>8. HearersInv'
    BY <1>1 DEF HearersInv
<1>. QED
    BY <1>2, <1>3, <1>4, <1>5, <1>6, <1>7, <1>8

LEMMA InvStep == Inv /\ [Next]_vars => Inv'
<1>. SUFFICES ASSUME Inv, [Next]_vars PROVE Inv'
    OBVIOUS
<1>1. CASE OpenTick
    BY <1>1, OpenKeeps
<1>2. CASE Activate
    BY <1>2, ActivateKeeps
<1>3. CASE CloseTick
    BY <1>3, CloseKeeps
<1>4. ASSUME NEW a \in Agents, Step(a) PROVE Inv'
    BY <1>4, AgentsKeep
<1>5. ASSUME NEW a \in Agents, Move(a) PROVE Inv'
    BY <1>5, MoveKeeps
<1>6. CASE UNCHANGED vars
  <2>. USE DEF Inv
  <2>1. UNCHANGED <<mode, tick, stage, where, walked, bus, line, agent, receipts>>
      BY <1>6 DEF vars, worldVars, mediaVars, mindVars
  <2>2. Types'
      BY <2>1 DEF Types, MindsOK, StageInv
  <2>3. LineInv'
      BY <2>1 DEF LineInv, NotAhead
  <2>4. ReceiptInv' /\ BusInv'
      BY <2>1 DEF ReceiptInv, BusInv
  <2>5. Counted'
      BY <2>1 DEF Counted, MessagesOf
  <2>6. FilteredInv'
      BY <2>1, ExcusesStay
  <2>7. HearersInv'
    <3>1. \A a \in Agents : agent[a].hearers = HearersOf(a, agent[a].stim)
                             => (agent[a].hearers = HearersOf(a, agent[a].stim))'
        BY <2>1 DEF HearersOf, Blocked, Walled, Label
    <3>. QED
        BY <2>1, <3>1 DEF HearersInv
  <2>. QED
      BY <2>2, <2>3, <2>4, <2>5, <2>6, <2>7
<1>. QED
    BY <1>1, <1>2, <1>3, <1>4, <1>5, <1>6 DEF Next

LEMMA InvAlways == Spec => []Inv
BY InvInit, InvStep, PTL DEF Spec

-----------------------------------------------------------------------------
(***************************************************************************)
(* The theorems.                                                            *)
(***************************************************************************)
\* Whatever path a message takes through the router, in every world and however
\* the agents of a tick interleave: one receipt for an action, one message for
\* each recipient that the receipt names, none for the speaker, no message of an
\* agent without a receipt, and "filtered" only where there is a filter.
THEOREM ReceiptsTellTheBus == Spec => []ReceiptsMatchTheBus
<1>1. Inv => ReceiptsMatchTheBus
    BY DEF Inv, ReceiptInv, BusInv, Counted, FilteredInv, Excused, ReceiptsMatchTheBus
<1>. QED
    BY <1>1, InvAlways, PTL

\* Whoever decides is stamped behind all that it has read, whatever the others
\* published, stamped or waited for while its model was thinking.
THEOREM EffectsFollowCauses == Spec => CauseBeforeEffect
<1>1. ASSUME Inv, [Next]_vars, NEW a \in Agents, agent[a].pc = "thinking",
             agent'[a].pc # "thinking", NEW m \in agent[a].incoming
      PROVE  Before(m, line')
  <2>. USE DEF Inv
  <2>1. Act(a)
    <3>1. CASE OpenTick
        BY <1>1, <3>1 DEF OpenTick, mindVars
    <3>2. CASE Activate
        BY <1>1, <3>2 DEF Activate, Types, StageInv
    <3>3. CASE CloseTick
        BY <1>1, <3>3 DEF CloseTick, mindVars
    <3>4. CASE UNCHANGED vars
        BY <1>1, <3>4 DEF vars, mindVars
    <3>5. ASSUME NEW b \in Agents, Move(b) PROVE FALSE
        BY <1>1, <3>5 DEF Move, mindVars
    <3>6. ASSUME NEW b \in Agents, Step(b) PROVE Act(a)
      <4>1. Alone(b)
          BY <1>1, <3>6, AgentsStep
      <4>2. b = a
          BY <1>1, <4>1 DEF Alone
      <4>3. ~Begin(a) /\ ~Observe(a) /\ ~AttendPercepts(a) /\ ~Emit(a)
          BY <1>1 DEF Begin, Observe, AttendPercepts, Emit, At_
      <4>4. ~Deliver(a) /\ ~Route(a) /\ ~Finish(a)
          BY <1>1 DEF Deliver, Route, Finish, At_
      <4>. QED
          BY <3>6, <4>2, <4>3, <4>4 DEF Step
    <3>. QED
        BY <1>1, <3>1, <3>2, <3>3, <3>4, <3>5, <3>6 DEF Next
  <2>2. line' = ReserveAction(a, agent[a].incoming)
      BY <2>1 DEF Act
  <2>3. /\ agent[a].incoming \in SUBSET Message
        /\ \A l \in agent[a].incoming : NotAhead(l)
      BY <1>1 DEF Types, MindsOK, LineInv
  <2>4. line' = [seq |-> line.seq + 1, offset |-> line.offset + Delay[a]]
      BY <1>1, <2>2, <2>3, Reserved
  <2>5. /\ line.seq \in Nat /\ line.offset \in Nat /\ Delay[a] \in Nat
        /\ m.seq \in Nat /\ m.offset \in Nat
        /\ m.seq <= line.seq /\ m.offset <= line.offset
      BY <1>1, <2>3, SpeechAssumption DEF Types, Stamps, Message, NotAhead
  <2>6. line'.seq = line.seq + 1 /\ line'.offset = line.offset + Delay[a]
      BY <2>4
  <2>. QED
      BY <2>5, <2>6 DEF Before
<1>2. Inv /\ [Next]_vars => \A a \in Agents :
          agent[a].pc = "thinking" /\ agent'[a].pc # "thinking" =>
             \A m \in agent[a].incoming : Before(m, line')
    BY <1>1
<1>. QED
    BY <1>2, InvAlways, PTL DEF Spec, CauseBeforeEffect

-----------------------------------------------------------------------------
(***************************************************************************)
(* The rows of percepts as one row: what goes into it is in it.            *)
(***************************************************************************)
\* The least of some numbers.
LEMMA LeastNumber ==
    ASSUME NEW S \in SUBSET Nat, S # {}
    PROVE  \E n \in S : \A m \in S : n <= m
<1>. DEFINE less == {ss \in Nat \X Nat : ss[1] < ss[2]}
<1>1. IsWellFoundedOn(less, Nat)
    BY NatLessThanWellFounded DEF OpToRel
<1>. HIDE DEF less
<1>2. PICK n \in S : \A m \in S : ~(<<m, n>> \in less)
    BY <1>1, WFMin
<1>3. \A m \in S : ~(m < n)
    BY <1>2 DEF less
<1>. QED
    BY <1>3

\* A function that adds row after row is there.
Adds(f, rows, n) ==
    /\ DOMAIN f = 0..n
    /\ f = [m \in 0..n |-> IF m = 0 THEN <<>> ELSE f[m - 1] \o rows[m]]

LEMMA SumsExist ==
    ASSUME NEW S, NEW rows \in Seq(Seq(S))
    PROVE  \A n \in 0..Len(rows) : \E f : Adds(f, rows, n)
<1>. DEFINE bad == {n \in 0..Len(rows) : ~\E f : Adds(f, rows, n)}
<1>. SUFFICES ASSUME bad # {} PROVE FALSE
    OBVIOUS
<1>1. Len(rows) \in Nat /\ bad \in SUBSET Nat
    OBVIOUS
<1>. HIDE DEF bad
<1>2. PICK n \in bad : \A m \in bad : n <= m
    BY <1>1, LeastNumber
<1>3. n \in 0..Len(rows) /\ ~\E f : Adds(f, rows, n)
    BY <1>2 DEF bad
<1>4. CASE n = 0
  <2>. DEFINE f == [m \in 0..0 |-> <<>>]
  <2>1. Adds(f, rows, 0)
      BY DEF Adds
  <2>. QED
      BY <1>3, <1>4, <2>1
<1>5. CASE n # 0
  <2>1. n - 1 \in 0..Len(rows) /\ ~(n <= n - 1)
      BY <1>1, <1>3, <1>5
  <2>2. n - 1 \notin bad
      BY <1>2, <2>1
  <2>3. PICK f : Adds(f, rows, n - 1)
      BY <2>1, <2>2 DEF bad
  <2>. DEFINE g == [m \in 0..n |-> IF m = n THEN f[n - 1] \o rows[n] ELSE f[m]]
  <2>4. ASSUME NEW m \in 0..n
        PROVE  g[m] = IF m = 0 THEN <<>> ELSE g[m - 1] \o rows[m]
    <3>1. CASE m = n
      <4>0. n \in Nat /\ n - 1 \in 0..n /\ n - 1 # n /\ m # 0
          BY <1>1, <1>3, <1>5, <3>1
      <4>1. g[m] = f[n - 1] \o rows[n]
          BY <3>1
      <4>2. g[n - 1] = f[n - 1]
          BY <4>0
      <4>. QED
          BY <3>1, <4>0, <4>1, <4>2
    <3>2. CASE m # n
      <4>1. m \in 0..(n - 1) /\ g[m] = f[m]
          BY <1>3, <1>5, <3>2
      <4>2. f[m] = IF m = 0 THEN <<>> ELSE f[m - 1] \o rows[m]
          BY <2>3, <4>1 DEF Adds
      <4>3. m # 0 => m - 1 \in 0..n /\ m - 1 # n
          BY <1>3, <4>1
      <4>4. m # 0 => g[m - 1] = f[m - 1]
          BY <4>3
      <4>. QED
          BY <4>1, <4>2, <4>4
    <3>. QED
        BY <3>1, <3>2
  <2>5. DOMAIN g = 0..n
      OBVIOUS
  <2>6. g = [m \in 0..n |-> g[m]]
      OBVIOUS
  <2>. HIDE DEF g
  <2>7. Adds(g, rows, n)
      BY <2>4, <2>5, <2>6 DEF Adds
  <2>. QED
      BY <1>3, <2>7
<1>. QED
    BY <1>4, <1>5

\* The last of its sequences has everything the rows have.
LEMMA FlatIs ==
    ASSUME NEW S, NEW rows \in Seq(Seq(S))
    PROVE  /\ Flat(rows) \in Seq(S)
           /\ \A i \in DOMAIN rows : \A j \in DOMAIN rows[i] :
                 \E m \in DOMAIN Flat(rows) : Flat(rows)[m] = rows[i][j]
<1>. DEFINE upto[n \in 0..Len(rows)] == IF n = 0 THEN <<>> ELSE upto[n - 1] \o rows[n]
            has(n) == /\ upto[n] \in Seq(S)
                      /\ \A i \in 1..n : \A j \in DOMAIN rows[i] :
                            \E m \in DOMAIN upto[n] : upto[n][m] = rows[i][j]
            bad == {n \in 0..Len(rows) : ~has(n)}
<1>1. Len(rows) \in Nat /\ DOMAIN rows = 1..Len(rows) /\ \A i \in DOMAIN rows : rows[i] \in Seq(S)
    OBVIOUS
<1>2. \E f : f = [m \in 0..Len(rows) |-> IF m = 0 THEN <<>> ELSE f[m - 1] \o rows[m]]
  <2>1. Len(rows) \in 0..Len(rows)
      BY <1>1
  <2>2. PICK f : Adds(f, rows, Len(rows))
      BY <2>1, SumsExist
  <2>. QED
      BY <2>2 DEF Adds
<1>3. \A n \in 0..Len(rows) : upto[n] = IF n = 0 THEN <<>> ELSE upto[n - 1] \o rows[n]
    BY <1>2
<1>4. Flat(rows) = upto[Len(rows)]
    BY DEF Flat
<1>. HIDE DEF upto
<1>5. bad = {}
  <2>. SUFFICES ASSUME bad # {} PROVE FALSE
      OBVIOUS
  <2>1. bad \in SUBSET Nat
      BY <1>1
  <2>. HIDE DEF bad
  <2>2. PICK n \in bad : \A m \in bad : n <= m
      BY <2>1, LeastNumber
  <2>3. n \in 0..Len(rows) /\ ~has(n)
      BY <2>2 DEF bad
  <2>4. CASE n = 0
    <3>1. upto[0] = <<>> /\ 1..0 = {}
        BY <1>1, <1>3
    <3>2. has(0)
        BY <3>1
    <3>. QED
        BY <2>3, <2>4, <3>2
  <2>5. CASE n # 0
    <3>1. n - 1 \in 0..Len(rows) /\ ~(n <= n - 1) /\ n \in DOMAIN rows
        BY <1>1, <2>3, <2>5
    <3>2. n - 1 \notin bad
        BY <2>2, <3>1
    <3>3. has(n - 1)
        BY <3>1, <3>2 DEF bad
    <3>. DEFINE old == upto[n - 1]
                row == rows[n]
    <3>4. upto[n] = old \o row /\ old \in Seq(S) /\ row \in Seq(S)
        BY <1>1, <1>3, <2>3, <2>5, <3>1, <3>3
    <3>5. \A i \in 1..n : i \in 1..(n - 1) \/ i = n
        BY <2>3
    <3>6. \A i \in 1..(n - 1) : \A j \in DOMAIN rows[i] :
             \E m \in DOMAIN old : old[m] = rows[i][j]
        BY <3>3
    <3>. HIDE DEF old, row
    <3>7. /\ old \o row \in Seq(S)
          /\ \A m \in DOMAIN old : m \in DOMAIN (old \o row) /\ (old \o row)[m] = old[m]
          /\ \A j \in DOMAIN row : /\ Len(old) + j \in DOMAIN (old \o row)
                                   /\ (old \o row)[Len(old) + j] = row[j]
        BY <3>4
    <3>8. ASSUME NEW i \in 1..n, NEW j \in DOMAIN rows[i]
          PROVE  \E m \in DOMAIN (old \o row) : (old \o row)[m] = rows[i][j]
      <4>1. CASE i \in 1..(n - 1)
          BY <3>6, <3>7, <3>8, <4>1
      <4>2. CASE i = n
          BY <3>7, <3>8, <4>2 DEF row
      <4>. QED
          BY <3>5, <3>8, <4>1, <4>2
    <3>9. has(n)
        BY <3>4, <3>7, <3>8
    <3>. QED
        BY <2>3, <3>9
  <2>. QED
      BY <2>4, <2>5
<1>6. has(Len(rows))
  <2>1. Len(rows) \in 0..Len(rows)
      BY <1>1
  <2>. QED
      BY <1>5, <2>1
<1>. QED
    BY <1>1, <1>4, <1>6

-----------------------------------------------------------------------------
(***************************************************************************)
(* Who hears the speech of a tick, and when it has.                        *)
(***************************************************************************)
\* Of a speech only these four say who hears it.
Sound(voice, a) == [from |-> a, channel |-> "sound", range |-> Unlimited, intensity |-> voice]

\* How loudly b feels what a says, and whether a percept of it is due.
Km(a, b) == DistanceInfo(Sound(mode.voice[a], a), b, where, mode.geography).km
Heft(a, b) ==
    PerceivedIntensity(Sound(mode.voice[a], a), mode.senses[b]["sound"], Km(a, b))

Reaches(a, b) ==
    /\ a # b /\ b \in DOMAIN mode.senses /\ "sound" \in DOMAIN mode.senses[b]
    /\ ~OutOfRange(Sound(mode.voice[a], a), mode.senses[b]["sound"], Km(a, b))
    /\ ~(Heft(a, b) < mode.senses[b]["sound"].floor)
    /\ <<"sound", a>> \notin Blocked(b)

Alike(s, a) ==
    s.from = a /\ s.channel = "sound" /\ s.range = Unlimited /\ s.intensity = mode.voice[a]

OnBus(id, a, t) ==
    t \in DOMAIN stims /\ \E i \in DOMAIN stims[t] : stims[t][i].id = id /\ Alike(stims[t][i], a)

Steady(a, b) == {a, b} \cap walked = {}

Row(s) == \E S : s \in Seq(S)

\* The rows of the bus.
RowsInv ==
    /\ \A t \in DOMAIN stims : t \in 1..tick /\ Row(stims[t])
    /\ stage # "closed" => tick \in DOMAIN stims

\* The stimulus of who is publishing.
SpeakersInv ==
    \A a \in Agents :
       /\ agent[a].pc \in {"emitting", "delivering"} =>
             /\ mode.perception
             /\ agent[a].stim.id = <<a, tick>> /\ agent[a].stim.tick = tick
             /\ Alike(agent[a].stim, a)
       /\ agent[a].pc = "delivering" =>
             /\ OnBus(<<a, tick>>, a, tick)
             /\ \A b \in agent[a].hearers : Steady(a, b) => Reaches(a, b)

KeptInv ==
    \A k \in receipts : k.route = "perception" =>
       /\ mode.perception
       /\ k.to \subseteq DOMAIN mode.senses
       /\ k.tick > tick - Retention => OnBus(k.id, k.from, k.tick)
       /\ \A b \in k.to : Steady(k.from, b) => Reaches(k.from, b)

Hearer(k, b) == k.route = "perception" /\ b \in k.to /\ Steady(k.from, b) /\ Loud(k.from, b)

\* The bus keeps k in the later tick t, in which b is not held back.
Due(k, b, t) == t \in (k.tick + 1)..tick /\ t < k.tick + Retention /\ <<b, t>> \notin held

HeardInv ==
    /\ DOMAIN heard = Agents
    /\ \A k \in receipts : \A b \in Agents : Hearer(k, b) =>
          /\ \A t : Due(k, b, t) /\ (t < tick \/ stage = "closed") => k.id \in heard[b]
          /\ Due(k, b, tick) /\ stage = "running" =>
                agent[b].pc \in {"waiting", "gathering"} \/ k.id \in heard[b]

-----------------------------------------------------------------------------
(***************************************************************************)
(* What is perceived of a speech.                                          *)
(***************************************************************************)
\* A percept is due to whoever the speech reaches, and says how loud it was.
LEMMA PerceptOfSpeech ==
    ASSUME NEW s, NEW a, NEW b \in DOMAIN mode.senses, Alike(s, a)
    PROVE  LET P == Percept(s, b, mode.senses[b], where, mode.geography, Blocked(b))
           IN  /\ P # {} <=> Reaches(a, b)
               /\ Reaches(a, b) => \E p : P = {p} /\ p.stim = s.id /\ p.felt = Heft(a, b)
               /\ P = {} \/ \E p : P = {p}
<1>. DEFINE r == Sound(mode.voice[a], a)
            sense == mode.senses[b]["sound"]
            km == Km(a, b)
<1>1. /\ s.from = a /\ s.channel = "sound" /\ s.range = Unlimited /\ s.intensity = mode.voice[a]
      /\ r.from = a /\ r.channel = "sound" /\ r.range = Unlimited /\ r.intensity = mode.voice[a]
    BY DEF Alike, Sound
<1>. HIDE DEF r
<1>2. DistanceInfo(s, b, where, mode.geography).km = km
    BY <1>1 DEF DistanceInfo, Km, r
<1>. HIDE DEF km, sense
<1>3. PerceivedIntensity(s, sense, km) = Heft(a, b)
    BY <1>1 DEF PerceivedIntensity, EffectiveRange, Heft, r, km, sense
<1>4. OutOfRange(s, sense, km) <=> OutOfRange(r, sense, km)
    BY <1>1 DEF OutOfRange, EffectiveRange
<1>5. CASE a = b \/ "sound" \notin DOMAIN mode.senses[b]
    BY <1>1, <1>5 DEF Percept, Reaches
<1>6. CASE a # b /\ "sound" \in DOMAIN mode.senses[b]
  <2>. DEFINE p == [stim |-> s.id, from |-> s.from, tick |-> s.tick, via |-> s.channel,
                    topic |-> s.topic, felt |-> Heft(a, b), words |-> s.words, tags |-> s.tags,
                    understood |-> Intelligibility(s, mode.senses[b])]
              out == OutOfRange(r, sense, km) \/ Heft(a, b) < sense.floor
                       \/ <<"sound", a>> \in Blocked(b)
  <2>1. Percept(s, b, mode.senses[b], where, mode.geography, Blocked(b)) = IF out THEN {} ELSE {p}
      BY <1>1, <1>2, <1>3, <1>4, <1>6 DEF Percept, sense
  <2>2. Reaches(a, b) <=> ~out
      BY <1>6 DEF Reaches, r, sense, km
  <2>3. p.stim = s.id /\ p.felt = Heft(a, b)
      OBVIOUS
  <2>. HIDE DEF p, out
  <2>. QED
      BY <2>1, <2>2, <2>3
<1>. QED
    BY <1>5, <1>6

\* Only these four say how loudly something is felt.
LEMMA FeltAlike ==
    ASSUME NEW s, NEW r, NEW b, NEW sense, NEW places, NEW geography,
           s.from = r.from, s.channel = r.channel, s.range = r.range, s.intensity = r.intensity
    PROVE  PerceivedIntensity(s, sense, DistanceInfo(s, b, places, geography).km)
             = PerceivedIntensity(r, sense, DistanceInfo(r, b, places, geography).km)
<1>1. DistanceInfo(s, b, places, geography).km = DistanceInfo(r, b, places, geography).km
    BY DEF DistanceInfo
<1>. QED
    BY <1>1 DEF PerceivedIntensity, EffectiveRange

LEMMA FeltIs ==
    \A a, b : Felt(a, b) = Heft(a, b) /\ Felt(a, b)' = Heft(a, b)'
<1>. SUFFICES ASSUME NEW a, NEW b PROVE Felt(a, b) = Heft(a, b) /\ Felt(a, b)' = Heft(a, b)'
    OBVIOUS
<1>. DEFINE s == SpeechOf(a, Silent)
            r == Sound(mode.voice[a], a)
<1>1. s.from = r.from /\ s.channel = r.channel /\ s.range = r.range /\ s.intensity = r.intensity
    BY DEF SpeechOf, Sound
<1>2. /\ s'.from = r'.from /\ s'.channel = r'.channel /\ s'.range = r'.range
      /\ s'.intensity = r'.intensity
    BY DEF SpeechOf, Sound
<1>3. /\ Felt(a, b) = PerceivedIntensity(s, mode.senses[b]["sound"],
                                         DistanceInfo(s, b, where, mode.geography).km)
      /\ Heft(a, b) = PerceivedIntensity(r, mode.senses[b]["sound"],
                                         DistanceInfo(r, b, where, mode.geography).km)
    BY DEF Felt, Heft, Km
<1>4. /\ Felt(a, b)' = PerceivedIntensity(s', mode'.senses[b]["sound"],
                                          DistanceInfo(s', b, where', mode'.geography).km)
      /\ Heft(a, b)' = PerceivedIntensity(r', mode'.senses[b]["sound"],
                                          DistanceInfo(r', b, where', mode'.geography).km)
    BY DEF Felt, Heft, Km
<1>. HIDE DEF s, r
<1>5. Felt(a, b) = Heft(a, b)
    BY <1>1, <1>3, FeltAlike
<1>6. Felt(a, b)' = Heft(a, b)'
    BY <1>2, <1>4, FeltAlike
<1>. QED
    BY <1>5, <1>6

\* What is on the bus and reaches an agent is among what it perceives.
LEMMA PerceivedFromTheBus ==
    ASSUME RowsInv, tick \in Nat, NEW a, NEW b, NEW t, NEW id, OnBus(id, a, t), Reaches(a, b)
    PROVE  /\ \E i \in DOMAIN Percepts(b, t) :
                 Percepts(b, t)[i].stim = id /\ Percepts(b, t)[i].felt = Heft(a, b)
           /\ \E i \in DOMAIN PerceiveRetained(b) : PerceiveRetained(b)[i].stim = id
<1>. DEFINE Of(u, i) == Percept(stims[u][i], b, mode.senses[b], where, mode.geography, Blocked(b))
            All(u) == UNION {Of(u, i) : i \in DOMAIN stims[u]}
            S == UNION {All(u) : u \in DOMAIN stims}
            rows(u) == [i \in DOMAIN stims[u] |-> SetToSeq(Of(u, i))]
            heap == [u \in 1..tick |-> Percepts(b, u)]
<1>1. b \in DOMAIN mode.senses
    BY DEF Reaches
<1>2. \A u, i : IsFiniteSet(Of(u, i))
  <2>. SUFFICES ASSUME NEW u, NEW i PROVE IsFiniteSet(Of(u, i))
      OBVIOUS
  <2>. DEFINE P == Of(u, i)
  <2>1. P = {} \/ \E p : P = {p}
      BY DEF Percept
  <2>. HIDE DEF P
  <2>2. IsFiniteSet(P)
      BY <2>1, FS_EmptySet, FS_Singleton
  <2>. QED
      BY <2>2 DEF P
<1>. HIDE DEF Of
<1>3. ASSUME NEW u \in DOMAIN stims
      PROVE  /\ rows(u) \in Seq(Seq(S)) /\ DOMAIN rows(u) = DOMAIN stims[u]
             /\ Percepts(b, u) = Flat(rows(u))
  <2>1. \E T : stims[u] \in Seq(T)
      BY <1>3 DEF RowsInv, Row
  <2>2. \A i \in DOMAIN stims[u] : SetToSeq(Of(u, i)) \in Seq(S)
    <3>. SUFFICES ASSUME NEW i \in DOMAIN stims[u] PROVE SetToSeq(Of(u, i)) \in Seq(S)
        OBVIOUS
    <3>1. SetToSeq(Of(u, i)) \in Seq(Of(u, i))
        BY <1>2, ListOfSet
    <3>2. Of(u, i) \subseteq S
        OBVIOUS
    <3>. HIDE DEF S
    <3>. QED
        BY <3>1, <3>2
  <2>. HIDE DEF S
  <2>3. rows(u) \in Seq(Seq(S))
      BY <2>1, <2>2
  <2>. QED
      BY <1>1, <1>3, <2>3 DEF Percepts, PerceiveFor, Of
<1>. HIDE DEF S, rows
<1>4. PICK k \in DOMAIN stims[t] : stims[t][k].id = id /\ Alike(stims[t][k], a)
    BY DEF OnBus
<1>5. t \in DOMAIN stims /\ t \in 1..tick
    BY DEF OnBus, RowsInv
<1>6. PICK p : Of(t, k) = {p} /\ p.stim = id /\ p.felt = Heft(a, b)
    BY <1>1, <1>4, PerceptOfSpeech DEF Of
<1>7. rows(t)[k] = SetToSeq({p})
    BY <1>4, <1>6 DEF rows
<1>8. 1 \in DOMAIN rows(t)[k] /\ rows(t)[k][1] = p
  <2>1. IsFiniteSet({p}) /\ Cardinality({p}) = 1
      BY FS_Singleton
  <2>2. Len(SetToSeq({p})) = 1 /\ SetToSeq({p}) \in Seq({p})
      BY <2>1, ListOfSet
  <2>. QED
      BY <1>7, <2>2
<1>9. PICK i \in DOMAIN Percepts(b, t) : Percepts(b, t)[i] = p
    BY <1>3, <1>4, <1>5, <1>8, FlatIs
<1>10. \A u \in 1..tick : Percepts(b, u) \in Seq(S)
  <2>. SUFFICES ASSUME NEW u \in 1..tick PROVE Percepts(b, u) \in Seq(S)
      OBVIOUS
  <2>1. CASE u \in DOMAIN stims
      BY <1>3, <2>1, FlatIs
  <2>2. CASE u \notin DOMAIN stims
      BY <2>2 DEF Percepts
  <2>. QED
      BY <2>1, <2>2
<1>11. heap \in Seq(Seq(S)) /\ DOMAIN heap = 1..tick /\ heap[t] = Percepts(b, t)
    BY <1>5, <1>10
<1>12. PerceiveRetained(b) = Flat(heap)
    BY DEF PerceiveRetained
<1>. HIDE DEF heap
<1>13. \E j \in DOMAIN Flat(heap) : Flat(heap)[j] = heap[t][i]
  <2>1. \A u \in DOMAIN heap : \A l \in DOMAIN heap[u] :
           \E j \in DOMAIN Flat(heap) : Flat(heap)[j] = heap[u][l]
      BY <1>11, FlatIs
  <2>. QED
      BY <1>5, <1>11, <2>1
<1>. QED
    BY <1>6, <1>9, <1>11, <1>12, <1>13

\* Who moves changes nothing between two others.
LEMMA NothingBetween ==
    ASSUME NEW a, NEW b, mode' = mode, DOMAIN where' = DOMAIN where,
           where'[a] = where[a], where'[b] = where[b]
    PROVE  /\ Heft(a, b)' = Heft(a, b)
           /\ Reaches(a, b)' <=> Reaches(a, b)
           /\ Loud(a, b)' <=> Loud(a, b)
<1>1. Km(a, b)' = Km(a, b)
    BY DEF Km, DistanceInfo, Placed, Sound
<1>2. Heft(a, b)' = Heft(a, b)
    BY <1>1 DEF Heft
<1>3. <<"sound", a>> \in Blocked(b)' <=> <<"sound", a>> \in Blocked(b)
    BY DEF Blocked, Walled, Label
<1>4. Felt(a, b) = Heft(a, b) /\ Felt(a, b)' = Heft(a, b)'
    BY FeltIs
<1>. QED
    BY <1>1, <1>2, <1>3, <1>4 DEF Reaches, Loud

-----------------------------------------------------------------------------
(***************************************************************************)
(* The invariant of hearing.                                               *)
(***************************************************************************)
HearingInv == RowsInv /\ SpeakersInv /\ KeptInv /\ HeardInv

LEMMA HearingStarts == Init => HearingInv
<1>. SUFFICES ASSUME Init PROVE HearingInv
    OBVIOUS
<1>1. /\ tick = 0 /\ stage = "closed" /\ stims = <<>> /\ receipts = {}
      /\ DOMAIN heard = Agents /\ \A a \in Agents : agent[a].pc = "done"
    BY FreeIs DEF Init
<1>2. DOMAIN stims = {}
    BY <1>1
<1>. QED
    BY <1>1, <1>2 DEF HearingInv, RowsInv, SpeakersInv, KeptInv, HeardInv

\* A receipt that a step adds is of its agent, and a delivery names its hearers.
LEMMA ReceiptsGrow ==
    ASSUME Inv, NEW a \in Agents, Step(a), NEW k \in receipts'
    PROVE  \/ k \in receipts
           \/ /\ k.from = a /\ k.tick = tick /\ k.id = <<a, tick>>
              /\ k.route = "perception" =>
                    agent[a].pc = "delivering" /\ k.to \subseteq agent[a].hearers
<1>1. Quiet(a) \/ Sends(a) \/ Drops(a)
    BY AgentsStep
<1>2. CASE Quiet(a)
    BY <1>2 DEF Quiet
<1>3. CASE Sends(a)
  <2>0. PICK to \in SUBSET (Agents \cup {Everyone}), stamp \in Stamps : \E route :
            /\ Send(a, to, route, stamp)
            /\ route = "perception" => agent[a].pc = "delivering" /\ to \subseteq agent[a].hearers
      BY <1>3 DEF Sends
  <2>1. PICK route :
            /\ Send(a, to, route, stamp)
            /\ route = "perception" => agent[a].pc = "delivering" /\ to \subseteq agent[a].hearers
      BY <2>0
  <2>2. receipts' = receipts \cup {Receipt(a, route, to, "none")}
      BY <2>1 DEF Send
  <2>. QED
      BY <2>1, <2>2 DEF Receipt
<1>4. CASE Drops(a)
  <2>1. PICK reason : receipts' = receipts \cup {Receipt(a, "dropped", {}, reason)}
      BY <1>4 DEF Drops, RecordDropped
  <2>. QED
      BY <2>1 DEF Receipt
<1>. QED
    BY <1>1, <1>2, <1>3, <1>4

\* Only Emit publishes a stimulus.
LEMMA StimuliGrow ==
    ASSUME NEW a \in Agents, Step(a)
    PROVE  UNCHANGED stims \/ (Emit(a) /\ a \notin mode.hushed)
<1>1. CASE Emit(a)
    BY <1>1 DEF Emit
<1>2. CASE Begin(a) \/ Observe(a) \/ AttendPercepts(a) \/ Act(a)
    BY <1>2 DEF Begin, Observe, AttendPercepts, Act, mediaVars
<1>3. CASE Deliver(a) \/ Route(a) \/ Finish(a)
    BY <1>3 DEF Deliver, Route, Finish, mediaVars
<1>. QED
    BY <1>1, <1>2, <1>3 DEF Step

\* Who publishes has just decided what to say, or has just said it.
LEMMA Speaks ==
    ASSUME Inv, NEW a \in Agents, Step(a)
    PROVE  /\ agent'[a].pc = "emitting" =>
                 /\ UNCHANGED stims /\ mode.perception
                 /\ \E answer : agent'[a].stim = SpeechOf(a, answer)
           /\ agent'[a].pc = "delivering" => Emit(a) /\ a \notin mode.hushed
<1>1. DOMAIN agent = Agents /\ DOMAIN agent[a] = Fields
    BY DEF Inv, Types, MindsOK
<1>. DEFINE freed == agent' = [agent EXCEPT ![a] = [Free EXCEPT !.pc = "receipt"]]
            routed(stamp) == agent' = [agent EXCEPT ![a] = [Free EXCEPT !.pc = "routing", !.stamp = stamp]]
<1>2. /\ freed => agent'[a].pc = "receipt"
      /\ \A stamp : routed(stamp) => agent'[a].pc = "routing"
  <2>1. freed => agent'[a] = [Free EXCEPT !.pc = "receipt"]
      BY <1>1
  <2>2. \A stamp : routed(stamp) => agent'[a] = [Free EXCEPT !.pc = "routing", !.stamp = stamp]
      BY <1>1
  <2>. HIDE DEF freed, routed
  <2>3. freed => agent'[a].pc = "receipt"
      BY <2>1, FreeIs
  <2>4. ASSUME NEW stamp, routed(stamp) PROVE agent'[a].pc = "routing"
      BY <2>2, <2>4, FreeIs
  <2>. QED
      BY <2>3, <2>4
<1>3. \A to, route, stamp : Send(a, to, route, stamp) => freed
    BY DEF Send
<1>4. \A reason : RecordDropped(a, reason) => freed
    BY DEF RecordDropped
<1>5. \A stamp : Cascade(a, stamp) => freed \/ routed(stamp)
    BY <1>3, <1>4 DEF Cascade, Fallback
<1>. HIDE DEF freed, routed
<1>6. CASE Begin(a)
  <2>1. \E pc \in {"done", "gathering"} : agent' = [agent EXCEPT ![a].pc = pc]
      BY <1>6 DEF Begin, HoldBack
  <2>. QED
      BY <1>1, <2>1 DEF Fields
<1>7. CASE Observe(a)
  <2>1. \/ agent' = [agent EXCEPT ![a].pc = "done"]
        \/ \E raw, incoming : agent' = [agent EXCEPT ![a] =
                 [@ EXCEPT !.pc = "perceiving", !.raw = raw, !.incoming = incoming]]
      BY <1>7 DEF Observe, HoldBack
  <2>. QED
      BY <1>1, <2>1 DEF Fields
<1>8. CASE AttendPercepts(a)
  <2>1. \E ranked : agent' = [agent EXCEPT ![a] =
                 [@ EXCEPT !.pc = "thinking", !.ranked = ranked, !.raw = <<>>]]
      BY <1>8 DEF AttendPercepts
  <2>. QED
      BY <1>1, <2>1 DEF Fields
<1>9. CASE Act(a)
  <2>1. CASE mode.perception
    <3>1. \E answer, stamp : agent' = [agent EXCEPT ![a] =
             [@ EXCEPT !.pc = "emitting", !.stim = SpeechOf(a, answer),
                       !.stamp = stamp, !.incoming = {}, !.ranked = <<>>]]
        BY <1>9, <2>1 DEF Act
    <3>2. \E answer : agent'[a].pc = "emitting" /\ agent'[a].stim = SpeechOf(a, answer)
        BY <1>1, <3>1 DEF Fields
    <3>. QED
        BY <1>9, <2>1, <3>2 DEF Act
  <2>2. CASE ~mode.perception
    <3>1. \E stamp : Cascade(a, stamp)
        BY <1>9, <2>2 DEF Act
    <3>. QED
        BY <1>2, <1>5, <3>1
  <2>. QED
      BY <2>1, <2>2
<1>10. CASE Emit(a)
  <2>1. CASE a \in mode.hushed
      BY <1>2, <1>4, <1>10, <2>1 DEF Emit
  <2>2. CASE a \notin mode.hushed
    <3>1. \E hearers : agent' = [agent EXCEPT ![a] =
              [@ EXCEPT !.pc = "delivering", !.hearers = hearers]]
        BY <1>10, <2>2 DEF Emit
    <3>2. agent'[a].pc = "delivering"
        BY <1>1, <3>1 DEF Fields
    <3>. QED
        BY <1>10, <2>2, <3>2
  <2>. QED
      BY <2>1, <2>2
<1>11. CASE Deliver(a)
    BY <1>2, <1>3, <1>4, <1>5, <1>11 DEF Deliver
<1>12. CASE Route(a)
    BY <1>2, <1>3, <1>4, <1>12 DEF Route, Fallback
<1>13. CASE Finish(a)
    BY <1>1, <1>13, FreeIs DEF Finish
<1>. QED
    BY <1>6, <1>7, <1>8, <1>9, <1>10, <1>11, <1>12, <1>13 DEF Step

\* Nobody unhears, and there is one way on from waiting and from gathering.
LEMMA Listens ==
    ASSUME DOMAIN heard = Agents, NEW a \in Agents, Step(a)
    PROVE  /\ DOMAIN heard' = Agents
           /\ \A b \in Agents : heard[b] \subseteq heard'[b]
           /\ held \subseteq held'
           /\ agent[a].pc = "waiting" => Begin(a)
           /\ agent[a].pc = "gathering" => Observe(a)
<1>1. /\ DOMAIN heard' = Agents /\ \A b \in Agents : heard[b] \subseteq heard'[b]
      /\ held \subseteq held'
  <2>1. CASE Observe(a)
    <3>1. /\ UNCHANGED heard \/ \E new : heard' = [heard EXCEPT ![a] = @ \cup new]
          /\ held \subseteq held'
        BY <2>1 DEF Observe, HoldBack
    <3>. QED
        BY <3>1
  <2>2. CASE Begin(a) \/ AttendPercepts(a) \/ Act(a) \/ Emit(a)
      BY <2>2 DEF Begin, HoldBack, AttendPercepts, Act, Emit, turnVars
  <2>3. CASE Deliver(a) \/ Route(a) \/ Finish(a)
      BY <2>3 DEF Deliver, Route, Finish, turnVars
  <2>. QED
      BY <2>1, <2>2, <2>3 DEF Step
<1>2. agent[a].pc \in {"waiting", "gathering"} =>
         ~AttendPercepts(a) /\ ~Act(a) /\ ~Emit(a) /\ ~Deliver(a) /\ ~Route(a) /\ ~Finish(a)
    BY DEF AttendPercepts, Act, Emit, Deliver, Route, Finish, At_
<1>3. agent[a].pc = "waiting" => ~Observe(a)
    BY DEF Observe, At_
<1>4. agent[a].pc = "gathering" => ~Begin(a)
    BY DEF Begin, At_
<1>. QED
    BY <1>1, <1>2, <1>3, <1>4 DEF Step

\* An agent that has been reached does not rest before it has looked, and looks before
\* it thinks.
LEMMA AgentsListen ==
    ASSUME Inv, HearingInv, NEW a \in Agents, Step(a)
    PROVE  HearingInv'
<1>. USE DEF HearingInv
<1>1. /\ UNCHANGED <<mode, tick, stage, where, walked>> /\ stage = "running" /\ tick \in Nat
      /\ mode \in Modes /\ DOMAIN mode.senses \subseteq Agents
      /\ \A b \in Agents \ {a} : agent'[b] = agent[b]
      /\ DOMAIN agent[a] = Fields /\ DOMAIN agent = Agents
  <2>1. Alone(a)
      BY AgentsStep
  <2>. QED
      BY <2>1, SpeechAssumption DEF Alone, worldVars, Inv, Types, MindsOK
<1>2. \A x, b : /\ Reaches(x, b)' <=> Reaches(x, b)
                /\ Loud(x, b)' <=> Loud(x, b)
                /\ Steady(x, b)' <=> Steady(x, b)
  <2>. SUFFICES ASSUME NEW x, NEW b
                PROVE  /\ Reaches(x, b)' <=> Reaches(x, b)
                       /\ Loud(x, b)' <=> Loud(x, b)
                       /\ Steady(x, b)' <=> Steady(x, b)
      OBVIOUS
  <2>1. Reaches(x, b)' <=> Reaches(x, b) /\ (Loud(x, b)' <=> Loud(x, b))
      BY <1>1, NothingBetween
  <2>. QED
      BY <1>1, <2>1, NothingBetween DEF Steady
<1>3. ASSUME Emit(a), a \notin mode.hushed
      PROVE  /\ DOMAIN stims' = DOMAIN stims /\ tick \in DOMAIN stims
             /\ \A t \in DOMAIN stims \ {tick} : stims'[t] = stims[t]
             /\ \E topic : stims'[tick] = Append(stims[tick], [agent[a].stim EXCEPT !.topic = topic])
             /\ agent'[a].stim = agent[a].stim /\ agent'[a].hearers = HearersOf(a, agent[a].stim)
             /\ agent[a].stim.id = <<a, tick>> /\ agent[a].stim.tick = tick
             /\ mode.perception /\ Alike(agent[a].stim, a)
  <2>1. /\ agent[a].pc = "emitting"
        /\ stims' = Publish([agent[a].stim EXCEPT !.topic = TopicOf(tracker', agent[a].stim)])
        /\ agent' = [agent EXCEPT ![a] =
                      [@ EXCEPT !.pc = "delivering", !.hearers = HearersOf(a, agent[a].stim)]]
      BY <1>3 DEF Emit, At_
  <2>2. /\ agent[a].stim.id = <<a, tick>> /\ agent[a].stim.tick = tick
        /\ mode.perception /\ Alike(agent[a].stim, a)
      BY <2>1 DEF SpeakersInv
  <2>3. tick \in DOMAIN stims
      BY <1>1 DEF RowsInv
  <2>. DEFINE topic == TopicOf(tracker', agent[a].stim)
              new == [agent[a].stim EXCEPT !.topic = topic]
  <2>4. new.tick = tick
      BY <2>2
  <2>5. stims' = [stims EXCEPT ![new.tick] = Append(stims[new.tick], new)]
      BY <2>1 DEF Publish
  <2>6. agent'[a].stim = agent[a].stim /\ agent'[a].hearers = HearersOf(a, agent[a].stim)
      BY <1>1, <2>1 DEF Fields
  <2>. HIDE DEF topic
  <2>. QED
      BY <2>2, <2>3, <2>4, <2>5, <2>6
<1>4. RowsInv' /\ \A id, x, t : OnBus(id, x, t) => OnBus(id, x, t)'
  <2>1. CASE UNCHANGED stims
      BY <1>1, <2>1 DEF RowsInv, OnBus, Alike
  <2>2. CASE Emit(a) /\ a \notin mode.hushed
    <3>1. /\ DOMAIN stims' = DOMAIN stims /\ tick \in DOMAIN stims
          /\ \A t \in DOMAIN stims \ {tick} : stims'[t] = stims[t]
        BY <1>3, <2>2
    <3>2. PICK new : stims'[tick] = Append(stims[tick], new)
        BY <1>3, <2>2
    <3>3. PICK T : stims[tick] \in Seq(T)
        BY <3>1 DEF RowsInv, Row
    <3>4. stims[tick] \in Seq(T \cup {new}) /\ new \in T \cup {new}
        BY <3>3
    <3>5. /\ stims'[tick] \in Seq(T \cup {new})
          /\ \A i \in DOMAIN stims[tick] : i \in DOMAIN stims'[tick] /\ stims'[tick][i] = stims[tick][i]
        BY <3>2, <3>4
    <3>6. \A t \in DOMAIN stims' : t \in 1..tick /\ \E S : stims'[t] \in Seq(S)
        BY <3>1, <3>5 DEF RowsInv, Row
    <3>7. \A t \in DOMAIN stims : t \in DOMAIN stims' /\ \A i \in DOMAIN stims[t] :
             i \in DOMAIN stims'[t] /\ stims'[t][i] = stims[t][i]
        BY <3>1, <3>5
    <3>. QED
        BY <1>1, <3>1, <3>6, <3>7 DEF RowsInv, Row, OnBus, Alike
  <2>. QED
      BY <2>1, <2>2, StimuliGrow
<1>5. SpeakersInv'
  <2>. SUFFICES ASSUME NEW x \in Agents
                PROVE  /\ agent'[x].pc \in {"emitting", "delivering"} =>
                             /\ mode.perception
                             /\ agent'[x].stim.id = <<x, tick>> /\ agent'[x].stim.tick = tick
                             /\ Alike(agent'[x].stim, x)
                       /\ agent'[x].pc = "delivering" =>
                             /\ OnBus(<<x, tick>>, x, tick)'
                             /\ \A b \in agent'[x].hearers : Steady(x, b) => Reaches(x, b)
      BY <1>1, <1>2 DEF SpeakersInv, Alike
  <2>1. CASE x # a
      BY <1>1, <1>4, <2>1 DEF SpeakersInv
  <2>2. CASE x = a /\ agent'[a].pc = "emitting"
    <3>1. mode.perception /\ \E answer : agent'[a].stim = SpeechOf(a, answer)
        BY <2>2, Speaks
    <3>2. PICK answer : agent'[a].stim = SpeechOf(a, answer)
        BY <3>1
    <3>3. /\ SpeechOf(a, answer).id = <<a, tick>> /\ SpeechOf(a, answer).tick = tick
          /\ Alike(SpeechOf(a, answer), a)
        BY DEF SpeechOf, Alike
    <3>. QED
        BY <2>2, <3>1, <3>2, <3>3
  <2>3. CASE x = a /\ agent'[a].pc = "delivering"
    <3>1. Emit(a) /\ a \notin mode.hushed
        BY <2>3, Speaks
    <3>2. PICK topic : stims'[tick] = Append(stims[tick], [agent[a].stim EXCEPT !.topic = topic])
        BY <1>3, <3>1
    <3>. DEFINE new == [agent[a].stim EXCEPT !.topic = topic]
    <3>3. /\ tick \in DOMAIN stims' /\ tick \in DOMAIN stims
          /\ agent'[a].stim = agent[a].stim /\ agent'[a].hearers = HearersOf(a, agent[a].stim)
          /\ agent[a].stim.id = <<a, tick>> /\ agent[a].stim.tick = tick
          /\ mode.perception /\ Alike(agent[a].stim, a)
        BY <1>3, <3>1
    <3>4. new.id = <<a, tick>> /\ Alike(new, a)
        BY <3>3 DEF Alike
    <3>. HIDE DEF new
    <3>5. PICK T : stims[tick] \in Seq(T)
        BY <3>3 DEF RowsInv, Row
    <3>6. stims'[tick] = Append(stims[tick], new) /\ stims[tick] \in Seq(T \cup {new})
        BY <3>2, <3>5 DEF new
    <3>7. \E i \in DOMAIN stims'[tick] : stims'[tick][i] = new
        BY <3>6
    <3>8. OnBus(<<a, tick>>, a, tick)'
        BY <1>1, <3>3, <3>4, <3>7 DEF OnBus, Alike
    <3>9. \A b \in HearersOf(a, agent[a].stim) : Reaches(a, b)
        BY <3>3, PerceptOfSpeech DEF HearersOf
    <3>10. \A b \in agent'[a].hearers : Reaches(a, b)
        BY <3>3, <3>9
    <3>11. /\ agent'[a].stim.id = <<a, tick>> /\ agent'[a].stim.tick = tick
           /\ mode.perception /\ Alike(agent'[a].stim, a)
        BY <3>3
    <3>. QED
        BY <2>3, <3>8, <3>10, <3>11
  <2>. QED
      BY <2>1, <2>2, <2>3
<1>6. KeptInv'
  <2>. SUFFICES ASSUME NEW k \in receipts', k.route = "perception"
                PROVE  /\ mode.perception
                       /\ k.to \subseteq DOMAIN mode.senses
                       /\ k.tick > tick - Retention => OnBus(k.id, k.from, k.tick)'
                       /\ \A b \in k.to : Steady(k.from, b) => Reaches(k.from, b)
      BY <1>1, <1>2 DEF KeptInv
  <2>1. CASE k \in receipts
      BY <1>4, <2>1 DEF KeptInv
  <2>2. CASE k \notin receipts
    <3>1. /\ k.from = a /\ k.tick = tick /\ k.id = <<a, tick>>
          /\ agent[a].pc = "delivering" /\ k.to \subseteq agent[a].hearers
        BY <2>2, ReceiptsGrow
    <3>2. /\ OnBus(<<a, tick>>, a, tick) /\ mode.perception
          /\ \A b \in agent[a].hearers : Steady(a, b) => Reaches(a, b)
        BY <3>1 DEF SpeakersInv
    <3>3. agent[a].hearers \subseteq DOMAIN mode.senses
        BY DEF Inv, Types, MindsOK
    <3>. QED
        BY <1>4, <3>1, <3>2, <3>3
  <2>. QED
      BY <2>1, <2>2
<1>7. HeardInv'
  <2>1. DOMAIN heard = Agents
      BY DEF HeardInv
  <2>2. /\ DOMAIN heard' = Agents /\ \A b \in Agents : heard[b] \subseteq heard'[b]
        /\ held \subseteq held'
        /\ agent[a].pc = "waiting" => Begin(a)
        /\ agent[a].pc = "gathering" => Observe(a)
      BY <2>1, Listens
  <2>3. ASSUME NEW k \in receipts', NEW b, NEW t, Due(k, b, t)'
        PROVE  k \in receipts /\ Due(k, b, t)
    <3>1. Due(k, b, t)
        BY <1>1, <2>2, <2>3 DEF Due
    <3>2. k.tick \in Nat
        BY AgentsKeep DEF Inv, ReceiptInv
    <3>3. k.tick < tick
        BY <1>1, <3>1, <3>2 DEF Due
    <3>. QED
        BY <1>1, <3>1, <3>2, <3>3, ReceiptsGrow
  <2>4. ASSUME NEW k \in receipts, NEW b \in Agents, Hearer(k, b), Due(k, b, tick)'
        PROVE  agent'[b].pc \in {"waiting", "gathering"} \/ k.id \in heard'[b]
    <3>. SUFFICES ASSUME b = a, k.id \notin heard[a]
                  PROVE  agent'[a].pc \in {"waiting", "gathering"} \/ k.id \in heard'[a]
      <4>1. Due(k, b, tick)
          BY <1>1, <2>2, <2>4 DEF Due
      <4>2. agent[b].pc \in {"waiting", "gathering"} \/ k.id \in heard[b]
          BY <1>1, <2>4, <4>1 DEF HeardInv
      <4>. QED
          BY <1>1, <2>2, <4>2
    <3>0. Due(k, a, tick) /\ <<a, tick>> \notin held' /\ k.tick \in Nat
        BY <1>1, <2>2, <2>4 DEF Due, Inv, ReceiptInv
    <3>1. k.tick > tick - Retention /\ k.tick <= tick
        BY <1>1, <3>0, SpeechAssumption DEF Due
    <3>2. OnBus(k.id, k.from, k.tick) /\ Reaches(k.from, a) /\ mode.perception
        BY <2>4, <3>1 DEF KeptInv, Hearer
    <3>3. /\ \E i \in DOMAIN Percepts(a, k.tick) :
                Percepts(a, k.tick)[i].stim = k.id /\ Percepts(a, k.tick)[i].felt = Heft(k.from, a)
          /\ \E i \in DOMAIN PerceiveRetained(a) : PerceiveRetained(a)[i].stim = k.id
        BY <1>1, <3>2, PerceivedFromTheBus
    <3>4. CASE agent[a].pc = "gathering"
      <4>1. Observe(a) /\ ~HoldBack(a)
          BY <2>2, <3>0, <3>4 DEF HoldBack
      <4>. DEFINE raw == PerceiveRetained(a)
      <4>2. heard' = [heard EXCEPT ![a] = @ \cup {raw[i].stim : i \in DOMAIN raw}]
          BY <3>2, <4>1 DEF Observe
      <4>3. k.id \in {raw[i].stim : i \in DOMAIN raw}
          BY <3>3
      <4>. HIDE DEF raw
      <4>4. k.id \in heard'[a]
          BY <2>1, <4>2, <4>3
      <4>. QED
          BY <4>4
    <3>5. CASE agent[a].pc = "waiting"
      <4>1. Begin(a) /\ ~HoldBack(a)
          BY <2>2, <3>0, <3>5 DEF HoldBack
      <4>2. ~(Heft(k.from, a) = NotANumber \/ Heft(k.from, a) < Faint)
          BY <2>4, FeltIs DEF Loud, Hearer
      <4>3. ~Idle(a)
        <5>. SUFFICES ASSUME Idle(a) PROVE FALSE
            OBVIOUS
        <5>1. k.tick \in DOMAIN stims /\ k.tick <= tick
            BY <3>1, <3>2 DEF OnBus
        <5>2. \A i \in DOMAIN Percepts(a, k.tick) :
                LET felt == Percepts(a, k.tick)[i].felt IN felt = NotANumber \/ felt < Faint
            BY <3>2, <5>1 DEF Idle
        <5>. QED
            BY <3>3, <4>2, <5>2
      <4>4. agent' = [agent EXCEPT ![a].pc = "gathering"]
          BY <4>1, <4>3 DEF Begin
      <4>5. agent'[a].pc = "gathering"
          BY <1>1, <4>4 DEF Fields
      <4>. QED
          BY <4>5
    <3>6. agent[a].pc \in {"waiting", "gathering"}
        BY <1>1, <2>4, <3>0 DEF HeardInv
    <3>. QED
        BY <3>4, <3>5, <3>6
  <2>5. \A k, b : Hearer(k, b)' <=> Hearer(k, b)
      BY <1>2 DEF Hearer
  <2>6. ASSUME NEW k \in receipts', NEW b \in Agents, Hearer(k, b)', NEW t, Due(k, b, t)', t < tick
        PROVE  k.id \in heard'[b]
    <3>1. k \in receipts /\ Due(k, b, t) /\ Hearer(k, b)
        BY <2>3, <2>5, <2>6
    <3>2. k.id \in heard[b]
        BY <2>6, <3>1 DEF HeardInv
    <3>. QED
        BY <2>2, <3>2
  <2>7. ASSUME NEW k \in receipts', NEW b \in Agents, Hearer(k, b)', Due(k, b, tick)'
        PROVE  agent'[b].pc \in {"waiting", "gathering"} \/ k.id \in heard'[b]
    <3>1. tick' = tick
        BY <1>1
    <3>2. k \in receipts /\ Hearer(k, b)
        BY <1>1, <2>3, <2>5, <2>7 DEF Due
    <3>. QED
        BY <2>4, <2>7, <3>2
  <2>. QED
      BY <1>1, <2>2, <2>6, <2>7 DEF HeardInv
<1>. QED
    BY <1>4, <1>5, <1>6, <1>7

\* The rows of the ticks that stay are the same, and nobody has been heard less.
LEMMA OpenListens ==
    ASSUME Inv, HearingInv, OpenTick
    PROVE  HearingInv'
<1>. USE DEF HearingInv
<1>1. /\ UNCHANGED <<mode, where, walked, receipts, agent, heard, held>> /\ tick \in Nat
      /\ stage = "closed" /\ stage' = "opened" /\ tick' = tick + 1 /\ Retention \in Nat \ {0}
      /\ \A a \in Agents : agent[a].pc = "done"
    BY SpeechAssumption DEF OpenTick, mindVars, turnVars, Inv, Types, StageInv
<1>2. \A x, b : /\ Reaches(x, b)' <=> Reaches(x, b)
                /\ Loud(x, b)' <=> Loud(x, b)
                /\ Steady(x, b)' <=> Steady(x, b)
    BY <1>1, NothingBetween DEF Steady
<1>3. PICK entities :
         /\ stims' = [t \in RetainedFrom(tick + 1) |-> IF t # tick + 1 THEN stims[t] ELSE entities]
         /\ \E S : entities \in Seq(S)
  <2>. DEFINE entities == IF mode.perception THEN EntityStimuli(tick') ELSE <<>>
  <2>1. stims' = [t \in RetainedFrom(tick + 1) |-> IF t # tick + 1 THEN stims[t] ELSE entities]
      BY <1>1 DEF OpenTick
  <2>2. <<>> \in Seq({})
      OBVIOUS
  <2>3. \E S : EntityStimuli(tick') \in Seq(S)
    <3>. DEFINE firing == {e \in Emitters : tick' % e.every = 0 /\ e.from \notin mode'.hushed}
                Of(e) == [id |-> <<e.from, tick'>>, from |-> e.from, tick |-> tick', kind |-> e.kind,
                   channel |-> e.channel, intensity |-> e.intensity, range |-> e.range,
                   tongue |-> "untold", topic |-> {}, cause |-> {}, words |-> {},
                   tags |-> e.tags]
                T == {Of(e) : e \in firing}
    <3>1. IsFiniteSet(firing)
        BY SpeechAssumption, FS_Subset
    <3>2. EntityStimuli(tick') = SetToSeq(T)
        BY <1>1 DEF EntityStimuli
    <3>. HIDE DEF firing, Of
    <3>3. IsFiniteSet(T)
      <4>1. [e \in firing |-> Of(e)] \in Surjection(firing, T)
          BY DEF Surjection
      <4>. HIDE DEF T
      <4>. QED
          BY <3>1, <4>1, FS_Surjection
    <3>. HIDE DEF T
    <3>4. SetToSeq(T) \in Seq(T)
        BY <3>3, ListOfSet
    <3>. QED
        BY <3>2, <3>4
  <2>. QED
      BY <2>1, <2>2, <2>3
<1>4. RowsInv' /\ \A id, x, t : t > tick' - Retention /\ OnBus(id, x, t) => OnBus(id, x, t)'
  <2>1. /\ tick + 1 \in RetainedFrom(tick + 1)
        /\ RetainedFrom(tick + 1) \subseteq DOMAIN stims \cup {tick + 1}
        /\ \A t \in DOMAIN stims : t > tick' - Retention => t \in RetainedFrom(tick + 1) /\ t # tick + 1
      BY <1>1 DEF RetainedFrom, RowsInv
  <2>2. \A t \in DOMAIN stims' : t \in 1..(tick + 1) /\ \E S : stims'[t] \in Seq(S)
    <3>. SUFFICES ASSUME NEW t \in DOMAIN stims'
                  PROVE  t \in 1..(tick + 1) /\ \E S : stims'[t] \in Seq(S)
        OBVIOUS
    <3>1. CASE t = tick + 1
        BY <1>1, <1>3, <3>1
    <3>2. CASE t # tick + 1
      <4>1. t \in DOMAIN stims /\ stims'[t] = stims[t]
          BY <1>3, <2>1, <3>2
      <4>. QED
          BY <1>1, <4>1 DEF RowsInv, Row
    <3>. QED
        BY <3>1, <3>2
  <2>3. \A t \in DOMAIN stims : t > tick' - Retention => t \in DOMAIN stims' /\ stims'[t] = stims[t]
      BY <1>3, <2>1
  <2>4. RowsInv'
      BY <1>1, <1>3, <2>1, <2>2 DEF RowsInv, Row
  <2>. QED
      BY <1>1, <2>3, <2>4 DEF OnBus, Alike
<1>5. SpeakersInv'
    BY <1>1 DEF SpeakersInv
<1>6. KeptInv'
  <2>1. ASSUME NEW k \in receipts, k.route = "perception", k.tick > tick' - Retention
        PROVE  OnBus(k.id, k.from, k.tick)'
    <3>1. k.tick \in Nat
        BY DEF Inv, ReceiptInv
    <3>2. OnBus(k.id, k.from, k.tick)
        BY <1>1, <2>1, <3>1 DEF KeptInv
    <3>. QED
        BY <1>4, <2>1, <3>2
  <2>. QED
      BY <1>1, <1>2, <2>1 DEF KeptInv
<1>7. HeardInv'
  <2>1. \A k, b : Hearer(k, b)' <=> Hearer(k, b)
      BY <1>2 DEF Hearer
  <2>2. \A k \in receipts : \A b, t : Due(k, b, t)' /\ t < tick' => Due(k, b, t)
    <3>1. \A k \in receipts : k.tick \in Nat
        BY DEF Inv, ReceiptInv
    <3>. QED
        BY <1>1, <3>1 DEF Due
  <2>. QED
      BY <1>1, <2>1, <2>2 DEF HeardInv
<1>. QED
    BY <1>4, <1>5, <1>6, <1>7

\* Whoever is reached by speech of the tick before is active.
LEMMA ActivateListens ==
    ASSUME Inv, HearingInv, Activate
    PROVE  HearingInv'
<1>. USE DEF HearingInv
<1>1. /\ UNCHANGED <<mode, tick, where, walked, stims, receipts, heard, held>> /\ tick \in Nat
      /\ stage = "opened" /\ stage' = "running"
    BY DEF Activate, mediaVars, turnVars, Inv, Types
<1>2. \A x, b : /\ Reaches(x, b)' <=> Reaches(x, b)
                /\ Loud(x, b)' <=> Loud(x, b)
                /\ Steady(x, b)' <=> Steady(x, b)
    BY <1>1, NothingBetween DEF Steady
<1>3. \A a \in Agents : /\ agent'[a].pc \in {"waiting", "done"}
                        /\ mode.perception /\ PerceiveRetained(a) # <<>> => agent'[a].pc = "waiting"
  <2>. SUFFICES ASSUME NEW a \in Agents
                PROVE  /\ agent'[a].pc \in {"waiting", "done"}
                       /\ mode.perception /\ PerceiveRetained(a) # <<>> => agent'[a].pc = "waiting"
      OBVIOUS
  <2>1. PICK drawn \in mode.drawn :
            agent' = [b \in Agents |->
               [Free EXCEPT !.pc =
                  IF \/ InboxOf(b) # {}
                     \/ mode.perception /\ PerceiveRetained(b) # <<>>
                     \/ b \in drawn
                  THEN "waiting" ELSE "done"]]
      BY DEF Activate
  <2>2. \E pc \in {"waiting", "done"} :
           /\ agent'[a] = [Free EXCEPT !.pc = pc]
           /\ mode.perception /\ PerceiveRetained(a) # <<>> => pc = "waiting"
      BY <2>1
  <2>. QED
      BY <2>2, FreeIs
<1>4. RowsInv' /\ SpeakersInv' /\ \A id, x, t : OnBus(id, x, t)' <=> OnBus(id, x, t)
    BY <1>1, <1>3 DEF RowsInv, SpeakersInv, OnBus, Alike
<1>5. KeptInv'
    BY <1>1, <1>2, <1>4 DEF KeptInv
<1>6. HeardInv'
  <2>1. \A k, b : Hearer(k, b)' <=> Hearer(k, b)
      BY <1>2 DEF Hearer
  <2>2. \A k, b, t : Due(k, b, t)' <=> Due(k, b, t)
      BY <1>1 DEF Due
  <2>3. ASSUME NEW k \in receipts, NEW b \in Agents, Hearer(k, b), Due(k, b, tick)
        PROVE  agent'[b].pc = "waiting"
    <3>1. k.tick \in Nat /\ k.tick > tick - Retention
        BY <1>1, <2>3, SpeechAssumption DEF Due, Inv, ReceiptInv
    <3>2. OnBus(k.id, k.from, k.tick) /\ Reaches(k.from, b) /\ mode.perception
        BY <2>3, <3>1 DEF KeptInv, Hearer
    <3>3. DOMAIN PerceiveRetained(b) # {}
        BY <1>1, <3>2, PerceivedFromTheBus
    <3>4. DOMAIN <<>> = {}
        OBVIOUS
    <3>5. PerceiveRetained(b) # <<>>
        BY <3>3, <3>4
    <3>. QED
        BY <1>3, <3>2, <3>5
  <2>. QED
      BY <1>1, <2>1, <2>2, <2>3 DEF HeardInv
<1>. QED
    BY <1>4, <1>5, <1>6

\* The end of a tick only fills in the topics.
LEMMA CloseListens ==
    ASSUME Inv, HearingInv, CloseTick
    PROVE  HearingInv'
<1>. USE DEF HearingInv
<1>1. /\ UNCHANGED <<mode, tick, where, walked, agent, receipts, heard, held>> /\ tick \in Nat
      /\ stage = "running" /\ stage' = "closed" /\ \A a \in Agents : agent[a].pc = "done"
    BY DEF CloseTick, mindVars, turnVars, Inv, Types
<1>2. \A x, b : /\ Reaches(x, b)' <=> Reaches(x, b)
                /\ Loud(x, b)' <=> Loud(x, b)
                /\ Steady(x, b)' <=> Steady(x, b)
    BY <1>1, NothingBetween DEF Steady
<1>3. \/ UNCHANGED stims
      \/ \E topics : stims' = [stims EXCEPT ![tick] = [i \in DOMAIN stims[tick] |->
            IF stims[tick][i].kind # "speech" THEN stims[tick][i]
            ELSE [stims[tick][i] EXCEPT !.topic = topics[i]]]]
  <2>. DEFINE topics == [i \in DOMAIN stims[tick] |-> TopicOf(tracker', stims[tick][i])]
  <2>1. CASE mode.perception
    <3>1. stims' = [stims EXCEPT ![tick] = [i \in DOMAIN stims[tick] |->
            IF stims[tick][i].kind # "speech" THEN stims[tick][i]
            ELSE [stims[tick][i] EXCEPT !.topic = TopicOf(tracker', stims[tick][i])]]]
        BY <2>1 DEF CloseTick
    <3>2. \A i \in DOMAIN stims[tick] : topics[i] = TopicOf(tracker', stims[tick][i])
        OBVIOUS
    <3>. HIDE DEF topics
    <3>3. stims' = [stims EXCEPT ![tick] = [i \in DOMAIN stims[tick] |->
            IF stims[tick][i].kind # "speech" THEN stims[tick][i]
            ELSE [stims[tick][i] EXCEPT !.topic = topics[i]]]]
        BY <3>1, <3>2
    <3>. QED
        BY <3>3
  <2>2. CASE ~mode.perception
      BY <2>2 DEF CloseTick
  <2>. QED
      BY <2>1, <2>2
<1>4. RowsInv' /\ \A id, x, t : OnBus(id, x, t) => OnBus(id, x, t)'
  <2>1. CASE UNCHANGED stims
      BY <1>1, <2>1 DEF RowsInv, OnBus, Alike
  <2>2. CASE \E topics : stims' = [stims EXCEPT ![tick] = [i \in DOMAIN stims[tick] |->
            IF stims[tick][i].kind # "speech" THEN stims[tick][i]
            ELSE [stims[tick][i] EXCEPT !.topic = topics[i]]]]
    <3>1. PICK topics : stims' = [stims EXCEPT ![tick] = [i \in DOMAIN stims[tick] |->
            IF stims[tick][i].kind # "speech" THEN stims[tick][i]
            ELSE [stims[tick][i] EXCEPT !.topic = topics[i]]]]
        BY <2>2
    <3>. DEFINE row == [i \in DOMAIN stims[tick] |->
            IF stims[tick][i].kind # "speech" THEN stims[tick][i]
            ELSE [stims[tick][i] EXCEPT !.topic = topics[i]]]
    <3>2. PICK T : stims[tick] \in Seq(T)
        BY <1>1 DEF RowsInv, Row
    <3>3. /\ DOMAIN row = DOMAIN stims[tick]
          /\ \A i \in DOMAIN row : /\ row[i].id = stims[tick][i].id /\ row[i].from = stims[tick][i].from
                                   /\ row[i].channel = stims[tick][i].channel
                                   /\ row[i].range = stims[tick][i].range
                                   /\ row[i].intensity = stims[tick][i].intensity
        OBVIOUS
    <3>4. row \in Seq({row[i] : i \in DOMAIN row})
      <4>1. row = [i \in DOMAIN row |-> row[i]] /\ DOMAIN row = 1..Len(stims[tick])
               /\ Len(stims[tick]) \in Nat
          BY <3>2
      <4>. HIDE DEF row
      <4>. QED
          BY <4>1
    <3>5. /\ DOMAIN stims' = DOMAIN stims /\ stims'[tick] = row
          /\ \A t \in DOMAIN stims \ {tick} : stims'[t] = stims[t]
        BY <1>1, <3>1 DEF RowsInv
    <3>. HIDE DEF row
    <3>6. \A t \in DOMAIN stims' : t \in 1..tick /\ \E S : stims'[t] \in Seq(S)
        BY <3>4, <3>5 DEF RowsInv, Row
    <3>7. RowsInv'
        BY <1>1, <3>5, <3>6 DEF RowsInv, Row
    <3>8. \A id, x, t : OnBus(id, x, t) => OnBus(id, x, t)'
      <4>. SUFFICES ASSUME NEW id, NEW x, NEW t, OnBus(id, x, t) PROVE OnBus(id, x, t)'
          OBVIOUS
      <4>1. t \in DOMAIN stims /\ t \in DOMAIN stims'
          BY <3>5 DEF OnBus
      <4>2. PICK i \in DOMAIN stims[t] : stims[t][i].id = id /\ Alike(stims[t][i], x)
          BY DEF OnBus
      <4>3. i \in DOMAIN stims'[t] /\ stims'[t][i].id = id /\ Alike(stims'[t][i], x)
          BY <3>3, <3>5, <4>1, <4>2 DEF Alike
      <4>. QED
          BY <1>1, <4>1, <4>3 DEF OnBus, Alike
    <3>. QED
        BY <3>7, <3>8
  <2>. QED
      BY <1>3, <2>1, <2>2
<1>5. SpeakersInv'
    BY <1>1 DEF SpeakersInv
<1>6. KeptInv'
    BY <1>1, <1>2, <1>4 DEF KeptInv
<1>7. HeardInv'
  <2>1. \A k, b : Hearer(k, b)' <=> Hearer(k, b)
      BY <1>2 DEF Hearer
  <2>2. \A k \in receipts : \A b, t : Due(k, b, t)' => Due(k, b, t) /\ (t < tick \/ t = tick)
    <3>1. \A k \in receipts : k.tick \in Nat
        BY DEF Inv, ReceiptInv
    <3>. QED
        BY <1>1, <3>1 DEF Due
  <2>. QED
      BY <1>1, <2>1, <2>2 DEF HeardInv
<1>. QED
    BY <1>4, <1>5, <1>6, <1>7

\* Who moves is out of the question from then on.
LEMMA MoveListens ==
    ASSUME Inv, HearingInv, NEW m \in Agents, Move(m)
    PROVE  HearingInv'
<1>. USE DEF HearingInv
<1>1. /\ UNCHANGED <<mode, tick, stage, stims, agent, receipts, heard, held>> /\ tick \in Nat
      /\ walked' = walked \cup {m} /\ DOMAIN where' = DOMAIN where
      /\ \A x : x # m => where'[x] = where[x]
  <2>1. \E place : where' = [where EXCEPT ![m] = place]
      BY DEF Move
  <2>2. DOMAIN where' = DOMAIN where
      BY <2>1
  <2>. QED
      BY <2>1, <2>2 DEF Move, mediaVars, mindVars, turnVars, Inv, Types
<1>2. \A x, b : Steady(x, b)' => /\ Steady(x, b)
                                 /\ Reaches(x, b)' <=> Reaches(x, b)
                                 /\ Loud(x, b)' <=> Loud(x, b)
  <2>. SUFFICES ASSUME NEW x, NEW b, Steady(x, b)'
                PROVE  /\ Steady(x, b)
                       /\ Reaches(x, b)' <=> Reaches(x, b)
                       /\ Loud(x, b)' <=> Loud(x, b)
      OBVIOUS
  <2>1. Steady(x, b) /\ x # m /\ b # m
      BY <1>1 DEF Steady
  <2>2. where'[x] = where[x] /\ where'[b] = where[b]
      BY <1>1, <2>1
  <2>. QED
      BY <1>1, <2>1, <2>2, NothingBetween
<1>3. RowsInv' /\ \A id, x, t : OnBus(id, x, t)' <=> OnBus(id, x, t)
    BY <1>1 DEF RowsInv, OnBus, Alike
<1>4. SpeakersInv'
    BY <1>1, <1>2, <1>3 DEF SpeakersInv, Alike
<1>5. KeptInv'
    BY <1>1, <1>2, <1>3 DEF KeptInv
<1>6. HeardInv'
  <2>1. \A k, b : Hearer(k, b)' => Hearer(k, b)
      BY <1>2 DEF Hearer
  <2>. QED
      BY <1>1, <2>1 DEF HeardInv, Due
<1>. QED
    BY <1>3, <1>4, <1>5, <1>6

LEMMA HearingStep ==
    ASSUME Inv, HearingInv, [Next]_vars
    PROVE  HearingInv'
<1>1. CASE OpenTick
    BY <1>1, OpenListens
<1>2. CASE Activate
    BY <1>2, ActivateListens
<1>3. CASE CloseTick
    BY <1>3, CloseListens
<1>4. ASSUME NEW a \in Agents, Step(a) PROVE HearingInv'
    BY <1>4, AgentsListen
<1>5. ASSUME NEW a \in Agents, Move(a) PROVE HearingInv'
    BY <1>5, MoveListens
<1>6. CASE UNCHANGED vars
  <2>1. UNCHANGED <<mode, tick, stage, where, walked, stims, agent, receipts, heard, held>>
      BY <1>6 DEF vars, worldVars, mediaVars, mindVars, turnVars
  <2>2. \A x, b : /\ Reaches(x, b)' <=> Reaches(x, b)
                  /\ Loud(x, b)' <=> Loud(x, b)
                  /\ Steady(x, b)' <=> Steady(x, b)
      BY <2>1, NothingBetween DEF Steady
  <2>3. RowsInv' /\ \A id, x, t : OnBus(id, x, t)' <=> OnBus(id, x, t)
      BY <2>1 DEF HearingInv, RowsInv, OnBus, Alike
  <2>4. SpeakersInv'
      BY <2>1, <2>2, <2>3 DEF HearingInv, SpeakersInv, Alike
  <2>5. KeptInv'
      BY <2>1, <2>2, <2>3 DEF HearingInv, KeptInv
  <2>6. HeardInv'
      BY <2>1, <2>2 DEF HearingInv, HeardInv, Hearer, Due
  <2>. QED
      BY <2>3, <2>4, <2>5, <2>6 DEF HearingInv
<1>. QED
    BY <1>1, <1>2, <1>3, <1>4, <1>5, <1>6 DEF Next

\* Whoever a receipt of the router says was reached has looked at the speech by the end of
\* every later tick in which the bus keeps it and the agent is not held back: for any
\* retention, senses, places and thinking delays, whoever may be held back or has the turn,
\* and whichever of the two tasks of a tick came first.
THEOREM SpeechIsHeard == Spec => []HeardWhileKept
<1>1. Inv /\ HearingInv => HeardWhileKept
  <2>. SUFFICES ASSUME Inv, HearingInv, stage = "closed", NEW k \in receipts, k.route = "perception",
                       NEW b \in (k.to \cap Agents) \ walked, NEW t \in (k.tick + 1)..tick,
                       k.from \notin walked, Loud(k.from, b),
                       t < k.tick + Retention, <<b, t>> \notin held
                PROVE  k.id \in heard[b]
      BY DEF HeardWhileKept
  <2>1. Hearer(k, b) /\ Due(k, b, t)
      BY DEF Hearer, Steady, Due
  <2>. QED
      BY <2>1 DEF HearingInv, HeardInv
<1>2. Inv /\ HearingInv /\ [Next]_vars => HearingInv'
    BY HearingStep
<1>. QED
    BY <1>1, <1>2, InvInit, InvStep, HearingStarts, PTL DEF Spec

-----------------------------------------------------------------------------
(***************************************************************************)
(* The two maps of the tracker.                                             *)
(***************************************************************************)
\* A topic lists the stimuli that are filed under it, none of them later than its last one,
\* and whatever is filed is listed.  The order of the topics does not matter here.
Listed(tr) ==
    \A id \in DOMAIN tr.topics :
        /\ tr.topics[id].last \in Nat /\ Row(tr.topics[id].stims)
        /\ \A s \in Range(tr.topics[id].stims) :
              s \in DOMAIN tr.of /\ tr.of[s] = id /\ s[2] \in Nat /\ s[2] <= tr.topics[id].last

Indexed(tr) ==
    \A s \in DOMAIN tr.of : Tracks(tr, tr.of[s]) /\ s \in Range(tr.topics[tr.of[s]].stims)

\* Whatever expires takes its stimuli along and nothing else, and nothing of the current
\* tick expires.
LEMMA ExpiredIs ==
    ASSUME NEW tr, Listed(tr), Indexed(tr), NEW now \in Nat, NEW sw, sw = ExpireStale(tr, now)
    PROVE  /\ Listed(sw) /\ Indexed(sw)
           /\ \A s \in DOMAIN sw.of : s \in DOMAIN tr.of /\ sw.of[s] = tr.of[s]
           /\ \A s \in DOMAIN tr.of : s[2] >= now => s \in DOMAIN sw.of
<1>. DEFINE kept == {id \in DOMAIN tr.topics : InWindow(tr.topics[id], now)}
            gone == UNION {Range(tr.topics[id].stims) : id \in DOMAIN tr.topics \ kept}
<1>1. /\ DOMAIN sw.topics = kept /\ \A id \in kept : sw.topics[id] = tr.topics[id]
      /\ DOMAIN sw.of = DOMAIN tr.of \ gone /\ \A s \in DOMAIN sw.of : sw.of[s] = tr.of[s]
    BY DEF ExpireStale, Restrict
<1>2. \A s \in gone : \E id \in DOMAIN tr.topics \ kept : s \in Range(tr.topics[id].stims)
    OBVIOUS
<1>3. \A id \in DOMAIN tr.topics \ kept : \A s \in Range(tr.topics[id].stims) : s \in gone
    OBVIOUS
<1>4. kept \subseteq DOMAIN tr.topics
    OBVIOUS
<1>5. ASSUME NEW id \in DOMAIN tr.topics \ kept PROVE now - tr.topics[id].last > TopicWindow
  <2>1. ~(now - tr.topics[id].last <= TopicWindow)
      BY <1>5 DEF InWindow
  <2>. QED
      BY <2>1, WindowIsThere DEF Listed
<1>. HIDE DEF kept, gone
<1>6. Listed(sw)
  <2>. SUFFICES ASSUME NEW id \in kept
                PROVE  /\ tr.topics[id].last \in Nat /\ Row(tr.topics[id].stims)
                       /\ \A s \in Range(tr.topics[id].stims) :
                             /\ s \in DOMAIN sw.of /\ tr.of[s] = id
                             /\ s[2] \in Nat /\ s[2] <= tr.topics[id].last
      BY <1>1 DEF Listed
  <2>1. ASSUME NEW s \in Range(tr.topics[id].stims), s \in gone PROVE FALSE
    <3>1. PICK other \in DOMAIN tr.topics \ kept : s \in Range(tr.topics[other].stims)
        BY <1>2, <2>1
    <3>. QED
        BY <1>4, <3>1 DEF Listed
  <2>. QED
      BY <1>1, <1>4, <2>1 DEF Listed
<1>7. Indexed(sw)
  <2>. SUFFICES ASSUME NEW s \in DOMAIN sw.of
                PROVE  tr.of[s] \in kept /\ s \in Range(tr.topics[tr.of[s]].stims)
      BY <1>1 DEF Indexed, Tracks
  <2>. QED
      BY <1>1, <1>3 DEF Indexed, Tracks
<1>8. ASSUME NEW s \in DOMAIN tr.of, s[2] >= now, s \in gone PROVE FALSE
  <2>1. PICK id \in DOMAIN tr.topics \ kept : s \in Range(tr.topics[id].stims)
      BY <1>2, <1>8
  <2>2. /\ now - tr.topics[id].last > TopicWindow /\ s[2] \in Nat /\ s[2] <= tr.topics[id].last
        /\ tr.topics[id].last \in Nat
      BY <1>5, <2>1 DEF Listed
  <2>. QED
      BY <1>8, <2>2, WindowIsThere
<1>. QED
    BY <1>1, <1>6, <1>7, <1>8

\* A stimulus that is not filed yet is filed under the given topic, and no other one moves.
LEMMA FiledIs ==
    ASSUME NEW tr, Listed(tr), Indexed(tr), NEW s, s.id \notin DOMAIN tr.of,
           s.tick \in Nat, s.id[2] = s.tick, NEW id, NEW new, new = AppendTo(tr, s, id)
    PROVE  /\ Listed(new) /\ Indexed(new)
           /\ DOMAIN new.of = DOMAIN tr.of \cup {s.id} /\ new.of[s.id] = id
           /\ \A c \in DOMAIN tr.of : new.of[c] = tr.of[c]
<1>1. /\ DOMAIN new.of = DOMAIN tr.of \cup {s.id} /\ new.of[s.id] = id
      /\ \A c \in DOMAIN tr.of : new.of[c] = tr.of[c]
  <2>1. new.of = Put(tr.of, s.id, id)
      BY DEF AppendTo, OpenTopic
  <2>. QED
      BY <2>1 DEF Put
<1>2. \E topic :
         /\ new.topics = Put(tr.topics, id, topic)
         /\ topic.last \in Nat /\ Row(topic.stims) /\ s.tick <= topic.last
         /\ IF Tracks(tr, id)
            THEN Range(topic.stims) = Range(tr.topics[id].stims) \cup {s.id} /\ tr.topics[id].last <= topic.last
            ELSE Range(topic.stims) = {s.id}
  <2>1. CASE Tracks(tr, id)
    <3>. DEFINE t == tr.topics[id]
                last == IF s.tick > t.last THEN s.tick ELSE t.last
                row == Append(t.stims, s.id)
                topic == [root |-> t.root, last |-> last, members |-> t.members \cup {s.from},
                          stims |-> row]
    <3>1. new.topics = Put(tr.topics, id, topic)
        BY <2>1 DEF AppendTo
    <3>2. t.last \in Nat /\ Row(t.stims)
        BY <2>1 DEF Listed, Tracks
    <3>3. last \in Nat /\ s.tick <= last /\ t.last <= last
        BY <3>2
    <3>4. Row(row) /\ Range(row) = Range(t.stims) \cup {s.id}
      <4>1. PICK S : t.stims \in Seq(S)
          BY <3>2 DEF Row
      <4>2. t.stims \in Seq(S \cup {s.id}) /\ s.id \in S \cup {s.id}
          BY <4>1
      <4>. HIDE DEF t
      <4>3. /\ row \in Seq(S \cup {s.id}) /\ Len(row) = Len(t.stims) + 1 /\ Len(t.stims) \in Nat
            /\ DOMAIN t.stims = 1..Len(t.stims)
            /\ DOMAIN row = 1..(Len(t.stims) + 1) /\ row[Len(t.stims) + 1] = s.id
            /\ \A i \in 1..Len(t.stims) : row[i] = t.stims[i]
          BY <4>2
      <4>4. 1..(Len(t.stims) + 1) = 1..Len(t.stims) \cup {Len(t.stims) + 1}
          BY <4>3
      <4>. HIDE DEF row
      <4>5. Range(row) = Range(t.stims) \cup {s.id}
          BY <4>3, <4>4 DEF Range
      <4>. QED
          BY <4>3, <4>5 DEF Row
    <3>5. topic.last = last /\ topic.stims = row
        OBVIOUS
    <3>. HIDE DEF topic, last, row
    <3>. QED
        BY <2>1, <3>1, <3>3, <3>4, <3>5
  <2>2. CASE ~Tracks(tr, id)
    <3>. DEFINE topic == [root |-> s.id, last |-> s.tick, members |-> {s.from}, stims |-> <<s.id>>]
    <3>1. new.topics = Put(tr.topics, id, topic)
        BY <2>2 DEF AppendTo, OpenTopic
    <3>2. topic.last = s.tick /\ topic.stims = <<s.id>>
        OBVIOUS
    <3>3. <<s.id>> \in Seq({s.id}) /\ DOMAIN <<s.id>> = {1} /\ <<s.id>>[1] = s.id
        OBVIOUS
    <3>4. Row(<<s.id>>) /\ Range(<<s.id>>) = {s.id}
        BY <3>3 DEF Row, Range
    <3>. HIDE DEF topic
    <3>. QED
        BY <2>2, <3>1, <3>2, <3>4
  <2>. QED
      BY <2>1, <2>2
<1>3. PICK topic :
         /\ new.topics = Put(tr.topics, id, topic)
         /\ topic.last \in Nat /\ Row(topic.stims) /\ s.tick <= topic.last
         /\ IF Tracks(tr, id)
            THEN Range(topic.stims) = Range(tr.topics[id].stims) \cup {s.id} /\ tr.topics[id].last <= topic.last
            ELSE Range(topic.stims) = {s.id}
    BY <1>2
<1>4. /\ DOMAIN new.topics = DOMAIN tr.topics \cup {id} /\ new.topics[id] = topic
      /\ \A k \in DOMAIN tr.topics : k # id => new.topics[k] = tr.topics[k]
    BY <1>3 DEF Put
<1>5. Listed(new)
  <2>1. ASSUME NEW c \in Range(topic.stims)
        PROVE  /\ c \in DOMAIN new.of /\ new.of[c] = id /\ c[2] \in Nat /\ c[2] <= topic.last
    <3>1. CASE c = s.id
        BY <1>1, <1>3, <3>1
    <3>2. CASE c # s.id
      <4>1. Tracks(tr, id) /\ c \in Range(tr.topics[id].stims)
          BY <1>3, <2>1, <3>2
      <4>2. c \in DOMAIN tr.of /\ tr.of[c] = id /\ c[2] \in Nat /\ c[2] <= tr.topics[id].last
            /\ tr.topics[id].last \in Nat /\ tr.topics[id].last <= topic.last
          BY <1>3, <4>1 DEF Listed, Tracks
      <4>. QED
          BY <1>1, <1>3, <4>2
    <3>. QED
        BY <3>1, <3>2
  <2>2. ASSUME NEW k \in DOMAIN tr.topics, k # id
        PROVE  /\ tr.topics[k].last \in Nat /\ Row(tr.topics[k].stims)
               /\ \A c \in Range(tr.topics[k].stims) :
                     c \in DOMAIN new.of /\ new.of[c] = k /\ c[2] \in Nat /\ c[2] <= tr.topics[k].last
      BY <1>1, <2>2 DEF Listed
  <2>. QED
      BY <1>3, <1>4, <2>1, <2>2 DEF Listed
<1>6. Indexed(new)
  <2>. SUFFICES ASSUME NEW c \in DOMAIN new.of
                PROVE  new.of[c] \in DOMAIN new.topics /\ c \in Range(new.topics[new.of[c]].stims)
      BY DEF Indexed, Tracks
  <2>1. CASE c = s.id
      BY <1>1, <1>3, <1>4, <2>1
  <2>2. CASE c # s.id
    <3>1. c \in DOMAIN tr.of /\ new.of[c] = tr.of[c]
        BY <1>1, <2>2
    <3>2. tr.of[c] \in DOMAIN tr.topics /\ c \in Range(tr.topics[tr.of[c]].stims)
        BY <3>1 DEF Indexed, Tracks
    <3>3. CASE tr.of[c] = id
        BY <1>3, <1>4, <3>1, <3>2, <3>3 DEF Tracks
    <3>4. CASE tr.of[c] # id
        BY <1>4, <3>1, <3>2, <3>4
    <3>. QED
        BY <3>3, <3>4
  <2>. QED
      BY <2>1, <2>2
<1>. QED
    BY <1>1, <1>5, <1>6

\* What an ingested stimulus changes: nothing of what has been filed in the same tick, and
\* who names its topic gets it.
LEMMA IngestedIs ==
    ASSUME NEW tr, Listed(tr), Indexed(tr), NEW s, s.tick \in Nat, s.id[2] = s.tick,
           NEW fresh, NEW new, new = Ingest(tr, s, fresh)
    PROVE  /\ Listed(new) /\ Indexed(new)
           /\ s.id \in DOMAIN new.of
           /\ \A c \in DOMAIN new.of : c # s.id => c \in DOMAIN tr.of /\ new.of[c] = tr.of[c]
           /\ \A c \in DOMAIN tr.of : c[2] >= s.tick => c \in DOMAIN new.of /\ new.of[c] = tr.of[c]
           /\ s.id \in DOMAIN tr.of => new.of[s.id] = tr.of[s.id]
           /\ s.id \notin DOMAIN tr.of /\ s.topic # {} => new.of[s.id] \in s.topic
<1>1. CASE s.id \in DOMAIN tr.of
    BY <1>1 DEF Ingest
<1>2. CASE s.id \notin DOMAIN tr.of
  <2>. DEFINE swept == ExpireStale(tr, s.tick)
              id == TopicFor(swept, s, fresh)
  <2>1. new = AppendTo(swept, s, id)
      BY <1>2 DEF Ingest
  <2>2. s.topic # {} => id \in s.topic
      BY DEF TopicFor
  <2>. HIDE DEF id
  <2>3. /\ Listed(swept) /\ Indexed(swept)
        /\ \A c \in DOMAIN swept.of : c \in DOMAIN tr.of /\ swept.of[c] = tr.of[c]
        /\ \A c \in DOMAIN tr.of : c[2] >= s.tick => c \in DOMAIN swept.of
      BY ExpiredIs
  <2>. HIDE DEF swept
  <2>4. s.id \notin DOMAIN swept.of
      BY <1>2, <2>3
  <2>5. /\ Listed(new) /\ Indexed(new)
        /\ DOMAIN new.of = DOMAIN swept.of \cup {s.id} /\ new.of[s.id] = id
        /\ \A c \in DOMAIN swept.of : new.of[c] = swept.of[c]
      BY <2>1, <2>3, <2>4, FiledIs
  <2>. QED
      BY <1>2, <2>2, <2>3, <2>5
<1>. QED
    BY <1>1, <1>2

\* The end of a tick files the speech of a row one by one.
Files(f, tr, said, n) ==
    /\ DOMAIN f = 0..n
    /\ f = [m \in 0..n |-> IF m = 0 THEN tr
                           ELSE IF said[m].kind = "speech" THEN Ingest(f[m - 1], said[m], said[m].id)
                           ELSE f[m - 1]]

LEMMA FilesExist ==
    ASSUME NEW tr, NEW said, NEW k \in Nat
    PROVE  \E f : Files(f, tr, said, k)
<1>. DEFINE bad == {n \in Nat : ~\E f : Files(f, tr, said, n)}
<1>. SUFFICES ASSUME bad # {} PROVE FALSE
    OBVIOUS
<1>1. bad \in SUBSET Nat
    OBVIOUS
<1>. HIDE DEF bad
<1>2. PICK n \in bad : \A m \in bad : n <= m
    BY <1>1, LeastNumber
<1>3. n \in Nat /\ ~\E f : Files(f, tr, said, n)
    BY <1>2 DEF bad
<1>4. CASE n = 0
  <2>. DEFINE f == [m \in 0..0 |-> tr]
  <2>1. Files(f, tr, said, 0)
      BY DEF Files
  <2>. QED
      BY <1>3, <1>4, <2>1
<1>5. CASE n # 0
  <2>1. n - 1 \in Nat /\ ~(n <= n - 1)
      BY <1>3, <1>5
  <2>2. n - 1 \notin bad
      BY <1>2, <2>1
  <2>3. PICK f : Files(f, tr, said, n - 1)
      BY <2>1, <2>2 DEF bad
  <2>. DEFINE next(m, before) == IF said[m].kind = "speech" THEN Ingest(before, said[m], said[m].id)
                                                           ELSE before
              g == [m \in 0..n |-> IF m = n THEN next(n, f[n - 1]) ELSE f[m]]
  <2>4. ASSUME NEW m \in 0..n
        PROVE  g[m] = IF m = 0 THEN tr ELSE next(m, g[m - 1])
    <3>1. CASE m = n
      <4>0. n - 1 \in 0..n /\ n - 1 # n /\ m # 0
          BY <1>3, <1>5, <3>1
      <4>1. g[m] = next(n, f[n - 1])
          BY <3>1
      <4>2. g[n - 1] = f[n - 1]
          BY <4>0
      <4>. HIDE DEF g, next
      <4>. QED
          BY <3>1, <4>0, <4>1, <4>2
    <3>2. CASE m # n
      <4>1. m \in 0..(n - 1) /\ g[m] = f[m]
          BY <1>3, <1>5, <3>2
      <4>2. f[m] = IF m = 0 THEN tr ELSE next(m, f[m - 1])
          BY <2>3, <4>1 DEF Files
      <4>3. m # 0 => m - 1 \in 0..n /\ m - 1 # n
          BY <1>3, <4>1
      <4>4. m # 0 => g[m - 1] = f[m - 1]
          BY <4>3
      <4>. HIDE DEF g, next
      <4>. QED
          BY <4>1, <4>2, <4>4
    <3>. QED
        BY <3>1, <3>2
  <2>5. DOMAIN g = 0..n
      OBVIOUS
  <2>6. g = [m \in 0..n |-> g[m]]
      OBVIOUS
  <2>. HIDE DEF g
  <2>7. Files(g, tr, said, n)
      BY <2>4, <2>5, <2>6 DEF Files
  <2>. QED
      BY <1>3, <2>7
<1>. QED
    BY <1>4, <1>5

\* Nothing that was filed is filed anew, and all speech of the row is.
Completed(tr, new, now, said, k) ==
    /\ Listed(new) /\ Indexed(new)
    /\ \A c \in DOMAIN new.of : IF c \in DOMAIN tr.of THEN new.of[c] = tr.of[c]
                                ELSE \E i \in 1..k : c = said[i].id
    /\ \A c \in DOMAIN tr.of : c[2] >= now => c \in DOMAIN new.of
    /\ \A i \in 1..k : said[i].kind = "speech" => said[i].id \in DOMAIN new.of

LEMMA AllFiledIs ==
    ASSUME NEW tr, Listed(tr), Indexed(tr), NEW now \in Nat, NEW k \in Nat, NEW said,
           \A i \in 1..k : said[i].tick = now /\ said[i].id[2] = now,
           NEW f, Files(f, tr, said, k)
    PROVE  Completed(tr, f[k], now, said, k)
<1>. DEFINE has(n) ==
              /\ Listed(f[n]) /\ Indexed(f[n])
              /\ \A c \in DOMAIN f[n].of : IF c \in DOMAIN tr.of THEN f[n].of[c] = tr.of[c]
                                           ELSE \E i \in 1..k : c = said[i].id
              /\ \A c \in DOMAIN tr.of : c[2] >= now => c \in DOMAIN f[n].of
              /\ \A i \in 1..n : said[i].kind = "speech" => said[i].id \in DOMAIN f[n].of
            bad == {n \in 0..k : ~has(n)}
<1>1. \A n \in 0..k : f[n] = IF n = 0 THEN tr
                             ELSE IF said[n].kind = "speech" THEN Ingest(f[n - 1], said[n], said[n].id)
                             ELSE f[n - 1]
    BY DEF Files
<1>2. bad = {}
  <2>. SUFFICES ASSUME bad # {} PROVE FALSE
      OBVIOUS
  <2>1. bad \in SUBSET Nat
      OBVIOUS
  <2>. HIDE DEF bad
  <2>2. PICK n \in bad : \A m \in bad : n <= m
      BY <2>1, LeastNumber
  <2>3. n \in 0..k /\ ~has(n)
      BY <2>2 DEF bad
  <2>4. CASE n = 0
    <3>1. f[0] = tr /\ 1..0 = {}
        BY <1>1
    <3>2. has(0)
        BY <3>1
    <3>. QED
        BY <2>3, <2>4, <3>2
  <2>5. CASE n # 0
    <3>1. n - 1 \in 0..k /\ ~(n <= n - 1) /\ n \in 1..k
        BY <2>3, <2>5
    <3>2. n - 1 \notin bad
        BY <2>2, <3>1
    <3>3. has(n - 1)
        BY <3>1, <3>2 DEF bad
    <3>4. \A i \in 1..n : i \in 1..(n - 1) \/ i = n
        BY <2>3
    <3>. DEFINE old == f[n - 1]
                new == f[n]
                s == said[n]
    <3>5. CASE s.kind # "speech"
      <4>1. new = old
          BY <1>1, <2>3, <2>5, <3>5
      <4>. HIDE DEF old, new
      <4>2. has(n)
          BY <3>3, <3>4, <3>5, <4>1 DEF old, new
      <4>. QED
          BY <2>3, <4>2
    <3>6. CASE s.kind = "speech"
      <4>1. new = Ingest(old, s, s.id)
          BY <1>1, <2>3, <2>5, <3>6
      <4>2. s.tick = now /\ s.id[2] = now
          BY <3>1
      <4>3. Listed(old) /\ Indexed(old)
          BY <3>3
      <4>4. /\ \A c \in DOMAIN old.of : IF c \in DOMAIN tr.of THEN old.of[c] = tr.of[c]
                                        ELSE \E i \in 1..k : c = said[i].id
            /\ \A c \in DOMAIN tr.of : c[2] >= now => c \in DOMAIN old.of
            /\ \A i \in 1..(n - 1) : said[i].kind = "speech" => said[i].id \in DOMAIN old.of
          BY <3>3
      <4>. HIDE DEF old, new, has
      <4>5. /\ Listed(new) /\ Indexed(new)
            /\ s.id \in DOMAIN new.of
            /\ \A c \in DOMAIN new.of : c # s.id => c \in DOMAIN old.of /\ new.of[c] = old.of[c]
            /\ \A c \in DOMAIN old.of : c[2] >= s.tick => c \in DOMAIN new.of /\ new.of[c] = old.of[c]
        <5>. HIDE DEF s
        <5>1. s.tick \in Nat /\ s.id[2] = s.tick
            BY <4>2
        <5>. DEFINE fresh == s.id
        <5>2. new = Ingest(old, s, fresh)
            BY <4>1
        <5>. HIDE DEF fresh
        <5>. QED
            BY <4>3, <5>1, <5>2, IngestedIs
      <4>6. \A c \in DOMAIN new.of : IF c \in DOMAIN tr.of THEN new.of[c] = tr.of[c]
                                     ELSE \E i \in 1..k : c = said[i].id
        <5>. SUFFICES ASSUME NEW c \in DOMAIN new.of
                      PROVE  IF c \in DOMAIN tr.of THEN new.of[c] = tr.of[c]
                             ELSE \E i \in 1..k : c = said[i].id
            OBVIOUS
        <5>1. CASE c # s.id
            BY <4>4, <4>5, <5>1
        <5>2. CASE c = s.id /\ c \in DOMAIN tr.of
          <6>1. now >= now /\ s.tick = now /\ c[2] = now
              BY <4>2, <5>2
          <6>2. c \in DOMAIN old.of
              BY <4>4, <5>2, <6>1
          <6>3. new.of[c] = old.of[c]
              BY <4>5, <6>1, <6>2
          <6>. QED
              BY <4>4, <5>2, <6>2, <6>3
        <5>3. CASE c = s.id /\ c \notin DOMAIN tr.of
            BY <3>1, <5>3
        <5>. QED
            BY <5>1, <5>2, <5>3
      <4>7. \A c \in DOMAIN tr.of : c[2] >= now => c \in DOMAIN new.of
          BY <4>2, <4>4, <4>5
      <4>8. ASSUME NEW i \in 1..n, said[i].kind = "speech" PROVE said[i].id \in DOMAIN new.of
        <5>1. CASE i = n
            BY <4>5, <5>1
        <5>2. CASE i \in 1..(n - 1)
          <6>1. said[i].id \in DOMAIN old.of /\ i \in 1..k
              BY <3>1, <4>4, <4>8, <5>2
          <6>2. said[i].id[2] >= s.tick
              BY <4>2, <6>1
          <6>. QED
              BY <4>5, <6>1, <6>2
        <5>. QED
            BY <3>4, <5>1, <5>2
      <4>9. has(n)
          BY <4>5, <4>6, <4>7, <4>8 DEF has, new
      <4>. QED
          BY <2>3, <4>9
    <3>. QED
        BY <3>5, <3>6
  <2>. QED
      BY <2>4, <2>5
<1>3. has(k)
  <2>1. k \in 0..k
      OBVIOUS
  <2>. QED
      BY <1>2, <2>1
<1>. QED
    BY <1>3 DEF Completed

-----------------------------------------------------------------------------
(***************************************************************************)
(* Attention: what is sorted and sifted is what was perceived.              *)
(***************************************************************************)
\* In a line, for each number that is not too large somebody has as many in front of it.
LEMMA PlacesInLine ==
    ASSUME NEW S, IsFiniteSet(S), NEW front \in [S -> SUBSET S],
           \A x \in S : x \notin front[x],
           \A x, y \in S : x # y => \/ x \in front[y] /\ front[x] \subseteq front[y]
                                    \/ y \in front[x] /\ front[y] \subseteq front[x]
    PROVE  /\ Cardinality(S) \in Nat
           /\ \A x \in S : IsFiniteSet(front[x]) /\ Cardinality(front[x]) \in 0..(Cardinality(S) - 1)
           /\ \A k \in 0..(Cardinality(S) - 1) : \E x \in S : Cardinality(front[x]) = k
<1>. DEFINE n == Cardinality(S)
            count == [x \in S |-> Cardinality(front[x])]
            T == 0..(n - 1)
<1>1. n \in Nat
    BY FS_CardinalityType
<1>2. ASSUME NEW x \in S PROVE IsFiniteSet(front[x]) /\ count[x] \in T
  <2>1. /\ IsFiniteSet(front[x]) /\ Cardinality(front[x]) \in Nat /\ Cardinality(front[x]) <= n
        /\ Cardinality(S) = Cardinality(front[x]) => S = front[x]
      BY FS_Subset, FS_CardinalityType
  <2>2. Cardinality(front[x]) # n
      BY <2>1
  <2>. QED
      BY <1>1, <2>1, <2>2
<1>3. ASSUME NEW x \in S, NEW y \in S, x \in front[y], front[x] \subseteq front[y]
      PROVE  count[x] # count[y]
  <2>1. IsFiniteSet(front[y]) /\ front[x] \in SUBSET front[y] /\ front[x] # front[y]
      BY <1>2, <1>3
  <2>2. Cardinality(front[y]) # Cardinality(front[x])
      BY <2>1, FS_Subset
  <2>. QED
      BY <2>2
<1>4. IsFiniteSet(T) /\ Cardinality(T) = n
  <2>. DEFINE b == n - 1
  <2>1. 0 \in Int /\ b \in Int
      BY <1>1
  <2>. HIDE DEF b
  <2>2. IsFiniteSet(0..b) /\ Cardinality(0..b) = IF 0 > b THEN 0 ELSE b - 0 + 1
      BY <2>1, FS_Interval
  <2>3. IsFiniteSet(T) /\ Cardinality(T) = IF 0 > b THEN 0 ELSE b - 0 + 1
      BY <2>2 DEF b
  <2>. HIDE DEF n
  <2>4. (IF 0 > b THEN 0 ELSE b - 0 + 1) = n
      BY <1>1 DEF b
  <2>. QED
      BY <2>3, <2>4
<1>5. count \in Injection(S, T)
  <2>1. count \in [S -> T]
      BY <1>2
  <2>2. \A x, y \in S : x # y => count[x] # count[y]
      BY <1>3
  <2>. HIDE DEF count
  <2>. QED
      BY <2>1, <2>2 DEF Injection, IsInjective
<1>. HIDE DEF T
<1>6. count \in Surjection(S, T)
  <2>. HIDE DEF count
  <2>. QED
      BY <1>4, <1>5, FS_Injection
<1>7. \A k \in T : \E x \in S : count[x] = k
    BY <1>6 DEF Surjection
<1>. QED
    BY <1>1, <1>2, <1>7 DEF T

\* What is sifted was there.
LEMMA SiftedFrom ==
    ASSUME NEW m \in Nat, NEW s, NEW places \in SUBSET (1..m)
    PROVE  /\ Cardinality(places) \in Nat
           /\ DOMAIN Sifted(s, places) = 1..Cardinality(places)
           /\ \A n \in 1..Cardinality(places) : \E i \in places : s[i] = Sifted(s, places)[n]
<1>. DEFINE front == [i \in places |-> {j \in places : j < i}]
<1>0. \A i \in places : i \in Int /\ front[i] = {j \in places : j < i}
    OBVIOUS
<1>1. IsFiniteSet(places)
  <2>1. IsFiniteSet(1..m)
      BY FS_Interval
  <2>. QED
      BY <2>1, FS_Subset
<1>2. front \in [places -> SUBSET places] /\ \A i \in places : i \notin front[i]
    OBVIOUS
<1>. HIDE DEF front
<1>3. ASSUME NEW x \in places, NEW y \in places, x # y
      PROVE  \/ x \in front[y] /\ front[x] \subseteq front[y]
             \/ y \in front[x] /\ front[y] \subseteq front[x]
  <2>1. x \in Int /\ y \in Int /\ \A j \in places : j \in Int
      BY <1>0
  <2>2. CASE x < y
    <3>1. \A j \in places : j < x => j < y
        BY <2>1, <2>2
    <3>. QED
        BY <1>0, <2>2, <3>1
  <2>3. CASE y < x
    <3>1. \A j \in places : j < y => j < x
        BY <2>1, <2>3
    <3>. QED
        BY <1>0, <2>3, <3>1
  <2>. QED
      BY <1>3, <2>1, <2>2, <2>3
<1>4. ASSUME NEW i \in places
      PROVE  {j \in places : j <= i} = front[i] \cup {i} /\ i \notin front[i]
  <2>1. \A j \in places : j <= i <=> j < i \/ j = i
      BY <1>0
  <2>. QED
      BY <1>0, <1>2, <2>1
<1>5. /\ Cardinality(places) \in Nat
      /\ \A x \in places : IsFiniteSet(front[x]) /\ Cardinality(front[x]) \in 0..(Cardinality(places) - 1)
      /\ \A k \in 0..(Cardinality(places) - 1) : \E x \in places : Cardinality(front[x]) = k
    BY <1>1, <1>2, <1>3, PlacesInLine
<1>6. ASSUME NEW n \in 1..Cardinality(places)
      PROVE  Nth(places, n) \in places
  <2>1. n - 1 \in 0..(Cardinality(places) - 1)
      BY <1>5
  <2>2. PICK i \in places : Cardinality(front[i]) = n - 1
      BY <1>5, <2>1
  <2>3. Cardinality(front[i] \cup {i}) = (n - 1) + 1
      BY <1>4, <1>5, <2>2, FS_AddElement
  <2>4. Cardinality({j \in places : j <= i}) = n
      BY <1>4, <2>3
  <2>. QED
      BY <2>4 DEF Nth
<1>. QED
    BY <1>5, <1>6 DEF Sifted

\* What is ranked was there, and each of it is ranked.
LEMMA RankedFrom ==
    ASSUME NEW m \in Nat, NEW percepts, DOMAIN percepts = 1..m, NEW seen, NEW cares, NEW now,
           \A i \in 1..m : Score(percepts[i], seen, cares, now) \in Int
    PROVE  /\ DOMAIN Rank(percepts, seen, cares, now) = 1..m
           /\ \A n \in 1..m : \E i \in 1..m :
                 Rank(percepts, seen, cares, now)[n].percept = percepts[i]
<1>. DEFINE entry(i) == [place |-> i, percept |-> percepts[i],
                         score |-> Score(percepts[i], seen, cares, now)]
            scored == {entry(i) : i \in 1..m}
            ahead(r) == {q \in scored : \/ q.score > r.score
                                        \/ q.score = r.score /\ q.place < r.place}
            front == [r \in scored |-> ahead(r)]
<1>1. Rank(percepts, seen, cares, now)
        = [n \in 1..m |-> CHOOSE r \in scored : Cardinality(ahead(r)) = n - 1]
    BY DEF Rank
<1>2. \A r \in scored : /\ r.place \in 1..m /\ r.percept = percepts[r.place] /\ r.score \in Int
                        /\ r = entry(r.place)
    OBVIOUS
<1>3. IsFiniteSet(scored) /\ Cardinality(scored) = m
  <2>. DEFINE list == [i \in 1..m |-> entry(i)]
  <2>1. list \in [1..m -> scored] /\ \A r \in scored : \E i \in 1..m : list[i] = r
      OBVIOUS
  <2>2. \A i, j \in 1..m : list[i] = list[j] => i = j
    <3>1. \A i \in 1..m : list[i].place = i
        OBVIOUS
    <3>. HIDE DEF list
    <3>. QED
        BY <3>1
  <2>. HIDE DEF list, scored
  <2>3. list \in Bijection(1..m, scored)
      BY <2>1, <2>2 DEF Bijection, Injection, Surjection, IsInjective
  <2>4. IsFiniteSet(1..m) /\ Cardinality(1..m) = m
      BY FS_Interval
  <2>5. ExistsBijection(1..m, scored)
      BY <2>3 DEF ExistsBijection
  <2>. QED
      BY <2>4, <2>5, FS_Bijection
<1>4. \A r \in scored : front[r] = ahead(r)
    OBVIOUS
<1>. HIDE DEF entry
<1>5. front \in [scored -> SUBSET scored] /\ \A r \in scored : r \notin front[r]
    BY <1>2
<1>6. ASSUME NEW x \in scored, NEW y \in scored, x # y
      PROVE  \/ x \in front[y] /\ front[x] \subseteq front[y]
             \/ y \in front[x] /\ front[y] \subseteq front[x]
  <2>1. x.place # y.place
      BY <1>2, <1>6
  <2>. HIDE DEF scored
  <2>2. /\ x.place \in Int /\ y.place \in Int /\ x.score \in Int /\ y.score \in Int
        /\ \A q \in scored : q.place \in Int /\ q.score \in Int
      BY <1>2
  <2>. QED
      BY <2>1, <2>2
<1>. HIDE DEF scored, ahead, front
<1>7. \A k \in 0..(m - 1) : \E r \in scored : Cardinality(front[r]) = k
    BY <1>3, <1>5, <1>6, PlacesInLine
<1>8. ASSUME NEW n \in 1..m PROVE \E i \in 1..m : Rank(percepts, seen, cares, now)[n].percept = percepts[i]
  <2>1. n - 1 \in 0..(m - 1)
      OBVIOUS
  <2>2. \E r \in scored : Cardinality(ahead(r)) = n - 1
      BY <1>4, <1>7, <2>1
  <2>3. Rank(percepts, seen, cares, now)[n] \in scored
      BY <1>1, <2>2
  <2>. QED
      BY <1>2, <2>3
<1>. QED
    BY <1>1, <1>8

\* The percept that an agent attends to first is one of those that were ranked.
LEMMA AttendedFrom ==
    ASSUME NEW m \in Nat, NEW ranked, DOMAIN ranked = 1..m, NEW cares, cares.budget \in Int,
           Attend(ranked, cares) # <<>>
    PROVE  \E i \in 1..m : Attend(ranked, cares)[1] = ranked[i]
<1>. DEFINE threshold == (cares.threshold * (100 - Clamp01(cares.distractibility))) \div 100
            high == {i \in DOMAIN ranked : ranked[i].score >= threshold}
            above == Sifted(ranked, high)
            card == Cardinality(high)
            budget == Max({0, cares.budget})
            cut == Min({Len(above), budget})
<1>1. Attend(ranked, cares) = SubSeq(above, 1, cut)
    BY DEF Attend
<1>2. high \in SUBSET (1..m)
    OBVIOUS
<1>. HIDE DEF high
<1>3. /\ card \in Nat /\ DOMAIN above = 1..card
      /\ \A n \in 1..card : \E i \in high : above[n] = ranked[i]
  <2>1. /\ Cardinality(high) \in Nat
        /\ DOMAIN Sifted(ranked, high) = 1..Cardinality(high)
        /\ \A n \in 1..Cardinality(high) : \E i \in high : Sifted(ranked, high)[n] = ranked[i]
    <3>1. \A P \in SUBSET (1..m) :
             /\ Cardinality(P) \in Nat
             /\ DOMAIN Sifted(ranked, P) = 1..Cardinality(P)
             /\ \A n \in 1..Cardinality(P) : \E i \in P : Sifted(ranked, P)[n] = ranked[i]
        BY SiftedFrom
    <3>. QED
        BY <1>2, <3>1
  <2>. QED
      BY <2>1
<1>4. above \in Seq({ranked[i] : i \in 1..m}) /\ Len(above) = card
  <2>1. above = [n \in 1..card |-> above[n]]
      BY DEF Sifted
  <2>. HIDE DEF above, card
  <2>2. above \in [1..card -> {ranked[i] : i \in 1..m}]
      BY <1>2, <1>3, <2>1
  <2>. QED
      BY <1>3, <2>2
<1>5. budget \in Int
  <2>1. \E x \in {0, cares.budget} : \A y \in {0, cares.budget} : x >= y
      BY SMT
  <2>. QED
      BY <2>1 DEF Max
<1>. HIDE DEF above, budget, card
<1>6. cut \in Int /\ cut <= card
  <2>1. \E x \in {Len(above), budget} : \A y \in {Len(above), budget} : x <= y
      BY <1>3, <1>4, <1>5
  <2>. QED
      BY <1>3, <1>4, <1>5, <2>1 DEF Min
<1>. HIDE DEF cut
<1>7. cut >= 1 /\ SubSeq(above, 1, cut)[1] = above[1]
  <2>1. cut < 1 => SubSeq(above, 1, cut) = <<>>
      BY <1>4, <1>6
  <2>2. cut >= 1
      BY <1>1, <1>6, <2>1
  <2>. QED
      BY <1>3, <1>4, <1>6, <2>2
<1>8. 1 \in 1..card
    BY <1>3, <1>6, <1>7
<1>. QED
    BY <1>1, <1>2, <1>3, <1>7, <1>8

\* The greatest of some percentages.
LEMMA AtMostHundred ==
    ASSUME NEW S \in SUBSET (0..100), S # {}
    PROVE  Max(S) \in 0..100
<1>. DEFINE T == {n \in 0..100 : 100 - n \in S}
<1>1. T \in SUBSET Nat /\ \A x \in S : 100 - x \in T
    OBVIOUS
<1>2. T # {}
    BY <1>1
<1>3. \A n \in T : n \in 0..100 /\ 100 - n \in S
    OBVIOUS
<1>. HIDE DEF T
<1>4. PICK n \in T : \A k \in T : n <= k
    BY <1>1, <1>2, LeastNumber
<1>5. 100 - n \in S /\ \A x \in S : 100 - n >= x
  <2>1. \A x \in S : n <= 100 - x /\ x \in Int
      BY <1>1, <1>4
  <2>. QED
      BY <1>3, <1>4, <2>1
<1>6. Max(S) \in S
    BY <1>5 DEF Max
<1>. QED
    BY <1>6

\* The clamp yields a percentage.
LEMMA ClampedIs == \A n \in Int : Clamp01(n) \in 0..100
BY DEF Clamp01

\* With numbers for what it cares about an agent scores with numbers.
Caring(cares) ==
    /\ {cares.needWeight, cares.relationshipWeight, cares.budget} \subseteq Int
    /\ \A n \in cares.needs : {n.value, n.activation} \subseteq Int
    /\ \A t \in cares.ties : t.strength \in Int

LEMMA ScoreIsNumber ==
    ASSUME NEW p, {p.felt, p.tick} \subseteq Int, NEW seen, NEW cares, Caring(cares), NEW now \in Int
    PROVE  Score(p, seen, cares, now) \in Int
<1>. DEFINE felt == IF p.felt = NotANumber THEN 0 ELSE Clamp01(p.felt)
            novelty == IF p.stim \in seen THEN 0 ELSE 100
            need == NeedRelevance(p, cares.needs)
            goal == GoalRelevance(p, cares.goals)
            interest == InterestMatch(p, cares.interests)
            tie == RelationshipBoost(p, cares.ties)
            recency == Recency(p, now)
<1>1. felt \in Int /\ novelty \in Int /\ goal \in Int /\ interest \in Int /\ recency \in Int
    BY ClampedIs DEF GoalRelevance, InterestMatch, Recency
<1>2. need \in Int
  <2>. DEFINE felts == {m \in cares.needs : m.value >= m.activation /\ m.tags \cap p.tags # {}}
              of(n) == Clamp01(((n.value - n.activation) * 100) \div Max({100 - n.activation, 1}))
              S == {0} \cup {of(n) : n \in felts}
  <2>1. ASSUME NEW n \in felts PROVE of(n) \in 0..100
    <3>. DEFINE room == Max({100 - n.activation, 1})
                excess == (n.value - n.activation) * 100
    <3>1. n.value \in Int /\ n.activation \in Int
        BY DEF Caring
    <3>2. room \in Int /\ room > 0
      <4>1. \E x \in {100 - n.activation, 1} : \A y \in {100 - n.activation, 1} : x >= y
          BY <3>1
      <4>2. /\ room \in {100 - n.activation, 1}
            /\ \A y \in {100 - n.activation, 1} : room >= y
          BY <4>1 DEF Max
      <4>. HIDE DEF room
      <4>. QED
          BY <3>1, <4>2
    <3>3. excess \in Int
        BY <3>1
    <3>. HIDE DEF room, excess
    <3>4. excess \div room \in Int
        BY <3>2, <3>3
    <3>5. Clamp01(excess \div room) \in 0..100
        BY <3>4, ClampedIs
    <3>. QED
        BY <3>5 DEF room, excess
  <2>. HIDE DEF of, felts
  <2>2. S \in SUBSET (0..100) /\ S # {}
      BY <2>1
  <2>3. need = Max(S)
      BY DEF NeedRelevance, of, felts
  <2>. HIDE DEF S, need
  <2>. QED
      BY <2>2, <2>3, AtMostHundred
<1>3. tie \in Int
  <2>. DEFINE S == {0} \cup {Clamp01(t.strength) : t \in {u \in cares.ties : u.to = p.from}}
  <2>1. S \in SUBSET (0..100) /\ S # {}
      BY ClampedIs DEF Caring
  <2>2. tie = Max(S)
      BY DEF RelationshipBoost
  <2>. HIDE DEF S, tie
  <2>. QED
      BY <2>1, <2>2, AtMostHundred
<1>4. Score(p, seen, cares, now)
        = Clamp01((  25 * felt + 10 * novelty + 20 * need * cares.needWeight + 15 * goal
                   + 20 * interest + 5 * Clamp01(tie * cares.relationshipWeight) + 5 * recency) \div 100)
    BY DEF Score
<1>. HIDE DEF felt, novelty, need, goal, interest, tie, recency
<1>5. need * cares.needWeight \in Int /\ tie * cares.relationshipWeight \in Int
    BY <1>2, <1>3 DEF Caring
<1>. DEFINE wanted == 20 * need * cares.needWeight
            tied == Clamp01(tie * cares.relationshipWeight)
<1>6. wanted \in Int /\ tied \in Int
  <2>1. 20 * need \in Int /\ cares.needWeight \in Int
      BY <1>2 DEF Caring
  <2>. QED
      BY <1>5, <2>1, ClampedIs
<1>. HIDE DEF wanted, tied
<1>. DEFINE total == 25 * felt + 10 * novelty + wanted + 15 * goal + 20 * interest + 5 * tied + 5 * recency
<1>7. total \in Int
    BY <1>1, <1>6
<1>8. Score(p, seen, cares, now) = Clamp01(total \div 100)
    BY <1>4 DEF wanted, tied
<1>. HIDE DEF total
<1>9. total \div 100 \in Int
    BY <1>7
<1>. QED
    BY <1>8, <1>9, ClampedIs

\* How something feels is a number.
LEMMA FeltIsNumber ==
    ASSUME NEW s, {s.intensity, s.range} \subseteq Int, NEW sense, {sense.range, sense.sensitivity} \subseteq Int,
           NEW km \in Int, km >= 0
    PROVE  PerceivedIntensity(s, sense, km) \in Int
<1>. DEFINE range == EffectiveRange(s, sense)
            a == IF BypassesPhysics(s.channel) THEN 100 ELSE Attenuation(km, range)
<1>1. range \in Int
    BY DEF EffectiveRange
<1>. HIDE DEF range
<1>2. Attenuation(km, range) \in Int
  <2>1. CASE km = Unlimited \/ range = Unlimited \/ km = 0 \/ km > range
      BY <2>1 DEF Attenuation, NotANumber
  <2>2. CASE ~(km = Unlimited \/ range = Unlimited \/ km = 0 \/ km > range)
    <3>. DEFINE rest == (range - km) * 100
    <3>1. Attenuation(km, range) = rest \div range
        BY <2>2 DEF Attenuation
    <3>2. rest \in Int /\ range > 0
        BY <1>1, <2>2
    <3>. HIDE DEF rest
    <3>3. rest \div range \in Int
        BY <1>1, <3>2
    <3>. QED
        BY <3>1, <3>3
  <2>. QED
      BY <2>1, <2>2
<1>3. a \in Int
    BY <1>2
<1>. DEFINE x == s.intensity * sense.sensitivity
            y == x * a
<1>4. PerceivedIntensity(s, sense, km) = IF a = NotANumber THEN NotANumber ELSE Clamp01(y \div 10000)
    BY DEF PerceivedIntensity, range
<1>. HIDE DEF a
<1>5. x \in Int
    OBVIOUS
<1>. HIDE DEF x
<1>6. y \in Int
    BY <1>3, <1>5
<1>. HIDE DEF y
<1>7. y \div 10000 \in Int
    BY <1>6
<1>. QED
    BY <1>4, <1>7, ClampedIs DEF NotANumber

-----------------------------------------------------------------------------
(***************************************************************************)
(* The invariant of the threads.                                            *)
(***************************************************************************)
\* The speech of an agent that will not be filed any more.
Said(c) ==
    /\ c[1] \in Agents /\ c[2] \in Nat
    /\ \/ c[2] < tick
       \/ /\ c[2] = tick /\ stage # "opened"
          /\ agent[c[1]].pc \in {"delivering", "routing", "receipt", "done"}

\* The topic that somebody knows of it is the one the tracker knows, if any.
Filed(c, topic) ==
    Said(c) /\ \E T \in topic : topic = {T} /\ (c \in DOMAIN tracker.of => tracker.of[c] = T)

Follows(s, c) ==
    {s, c} \subseteq DOMAIN tracker.of /\ tracker.of[s] \notin Nameable("topic") =>
        tracker.of[s] = tracker.of[c]

FreshInv == \A s \in DOMAIN tracker.of : s[1] \in Agents => Said(s)

StimulusOK(s, t) ==
    /\ s.id = <<s.from, t>> /\ s.tick = t /\ "topic" \in DOMAIN s /\ {s.intensity, s.range} \subseteq Int
    /\ IF s.from \in Agents THEN s.kind = "speech" /\ Filed(s.id, s.topic) ELSE s.cause = {}
    /\ s.from \in Agents /\ t = tick => s.id \in DOMAIN tracker.of
    /\ \A c \in s.cause \ Nameable("cause") : c[1] \in Agents => Said(c) /\ Follows(s.id, c)

StimuliInv ==
    /\ \A t \in DOMAIN stims : /\ t \in 1..tick /\ Row(stims[t])
                               /\ \A i \in DOMAIN stims[t] : StimulusOK(stims[t][i], t)
    /\ stage # "closed" => tick \in DOMAIN stims

\* What an agent holds of a percept, and what it is about to say.
Held(p) == {p.felt, p.tick} \subseteq Int /\ (p.stim[1] \in Agents => Filed(p.stim, p.topic))

Meant(s, a) ==
    /\ s.id = <<a, tick>> /\ s.from = a /\ s.tick = tick /\ s.kind = "speech" /\ "topic" \in DOMAIN s
    /\ {s.intensity, s.range} \subseteq Int
    /\ \A c \in s.cause \ Nameable("cause") : c[1] \in Agents =>
          \/ Filed(c, s.topic)
          \/ Said(c) /\ s.topic # {} /\ s.topic \subseteq Nameable("topic")

MindInv(a) ==
    /\ agent[a].pc = "perceiving" =>
          Row(agent[a].raw) /\ \A i \in DOMAIN agent[a].raw : Held(agent[a].raw[i])
    /\ agent[a].pc = "thinking" /\ agent[a].ranked # <<>> => Held(agent[a].ranked[1].percept)
    /\ agent[a].pc = "emitting" => Meant(agent[a].stim, a)

HeldInv == \A a \in Agents : MindInv(a)

SpotsInv == \A x \in DOMAIN where : where[x] \in Int

ThreadInv ==
    Listed(tracker) /\ Indexed(tracker) /\ FreshInv /\ StimuliInv /\ HeldInv /\ SpotsInv

-----------------------------------------------------------------------------
(***************************************************************************)
(* What is perceived is on the bus.                                        *)
(***************************************************************************)
LEMMA PerceivedOfTheBus ==
    ASSUME tick \in Nat, \A t \in DOMAIN stims : Row(stims[t]), NEW b
    PROVE  /\ Row(PerceiveRetained(b))
           /\ \A j \in DOMAIN PerceiveRetained(b) :
                 /\ b \in DOMAIN mode.senses
                 /\ \E u \in DOMAIN stims : \E i \in DOMAIN stims[u] :
                       PerceiveRetained(b)[j]
                         \in Percept(stims[u][i], b, mode.senses[b], where, mode.geography, Blocked(b))
<1>. DEFINE Of(u, i) == Percept(stims[u][i], b, mode.senses[b], where, mode.geography, Blocked(b))
            All(u) == UNION {Of(u, i) : i \in DOMAIN stims[u]}
            S == IF b \in DOMAIN mode.senses THEN UNION {All(u) : u \in DOMAIN stims} ELSE {}
            rows(u) == [i \in DOMAIN stims[u] |-> SetToSeq(Of(u, i))]
            heap == [u \in 1..tick |-> Percepts(b, u)]
<1>1. \A u, i : IsFiniteSet(Of(u, i))
  <2>. SUFFICES ASSUME NEW u, NEW i PROVE IsFiniteSet(Of(u, i))
      OBVIOUS
  <2>. DEFINE P == Of(u, i)
  <2>1. P = {} \/ \E p : P = {p}
      BY DEF Percept
  <2>. HIDE DEF P
  <2>2. IsFiniteSet(P)
      BY <2>1, FS_EmptySet, FS_Singleton
  <2>. QED
      BY <2>2 DEF P
<1>. HIDE DEF Of
<1>2. \A p \in S : /\ b \in DOMAIN mode.senses
                   /\ \E u \in DOMAIN stims : \E i \in DOMAIN stims[u] : p \in Of(u, i)
    OBVIOUS
<1>3. ASSUME NEW u \in DOMAIN stims, b \in DOMAIN mode.senses
      PROVE  Percepts(b, u) \in Seq(S)
  <2>1. \E T : stims[u] \in Seq(T)
      BY <1>3 DEF Row
  <2>2. \A i \in DOMAIN stims[u] : SetToSeq(Of(u, i)) \in Seq(S)
    <3>. SUFFICES ASSUME NEW i \in DOMAIN stims[u] PROVE SetToSeq(Of(u, i)) \in Seq(S)
        OBVIOUS
    <3>1. SetToSeq(Of(u, i)) \in Seq(Of(u, i))
        BY <1>1, ListOfSet
    <3>2. Of(u, i) \subseteq S
        BY <1>3
    <3>. HIDE DEF S
    <3>. QED
        BY <3>1, <3>2
  <2>. HIDE DEF S
  <2>3. rows(u) \in Seq(Seq(S))
      BY <2>1, <2>2
  <2>4. Percepts(b, u) = Flat(rows(u))
      BY <1>3 DEF Percepts, PerceiveFor, Of
  <2>. HIDE DEF rows
  <2>. QED
      BY <2>3, <2>4, FlatIs
<1>. HIDE DEF S, rows
<1>4. \A u \in 1..tick : Percepts(b, u) \in Seq(S)
  <2>. SUFFICES ASSUME NEW u \in 1..tick PROVE Percepts(b, u) \in Seq(S)
      OBVIOUS
  <2>1. CASE u \in DOMAIN stims /\ b \in DOMAIN mode.senses
      BY <1>3, <2>1
  <2>2. CASE ~(u \in DOMAIN stims /\ b \in DOMAIN mode.senses)
      BY <2>2 DEF Percepts
  <2>. QED
      BY <2>1, <2>2
<1>5. heap \in Seq(Seq(S))
    BY <1>4
<1>6. PerceiveRetained(b) = Flat(heap)
    BY DEF PerceiveRetained
<1>. HIDE DEF heap
<1>7. PerceiveRetained(b) \in Seq(S)
    BY <1>5, <1>6, FlatIs
<1>8. \A j \in DOMAIN PerceiveRetained(b) : PerceiveRetained(b)[j] \in S
    BY <1>7
<1>. QED
    BY <1>2, <1>7, <1>8 DEF Row, Of

\* A percept says what its stimulus is and in which topic.
LEMMA PerceivedIsHeld ==
    ASSUME tick \in Nat, mode \in Modes, StimuliInv, SpotsInv, NEW b
    PROVE  /\ Row(PerceiveRetained(b))
           /\ \A j \in DOMAIN PerceiveRetained(b) : Held(PerceiveRetained(b)[j])
<1>1. Row(PerceiveRetained(b))
    BY PerceivedOfTheBus DEF StimuliInv
<1>2. ASSUME NEW j \in DOMAIN PerceiveRetained(b) PROVE Held(PerceiveRetained(b)[j])
  <2>. DEFINE p == PerceiveRetained(b)[j]
  <2>1. b \in DOMAIN mode.senses
      BY PerceivedOfTheBus DEF StimuliInv
  <2>2. PICK u \in DOMAIN stims : \E i \in DOMAIN stims[u] :
            p \in Percept(stims[u][i], b, mode.senses[b], where, mode.geography, Blocked(b))
      BY PerceivedOfTheBus DEF StimuliInv
  <2>3. PICK i \in DOMAIN stims[u] :
            p \in Percept(stims[u][i], b, mode.senses[b], where, mode.geography, Blocked(b))
      BY <2>2
  <2>. DEFINE s == stims[u][i]
              km == DistanceInfo(s, b, where, mode.geography).km
              sense == mode.senses[b][s.channel]
              felt == PerceivedIntensity(s, sense, km)
  <2>. HIDE DEF p
  <2>4. /\ s.channel \in DOMAIN mode.senses[b]
        /\ p.stim = s.id /\ p.tick = s.tick /\ p.topic = s.topic /\ p.felt = felt
      BY <2>3 DEF Percept
  <2>5. StimulusOK(s, u) /\ u \in Nat
      BY DEF StimuliInv
  <2>. HIDE DEF s
  <2>6. km \in Int /\ km >= 0
      BY DEF DistanceInfo, SpotsInv, Placed, Unlimited
  <2>7. {sense.range, sense.sensitivity} \subseteq Int
      BY <2>1, <2>4, NumbersAssumption
  <2>. HIDE DEF km, sense
  <2>8. felt \in Int
      BY <2>5, <2>6, <2>7, FeltIsNumber DEF StimulusOK
  <2>. HIDE DEF felt
  <2>9. p.stim[1] = s.from
      BY <2>4, <2>5 DEF StimulusOK
  <2>10. Held(p)
      BY <2>4, <2>5, <2>8, <2>9 DEF StimulusOK, Held
  <2>. QED
      BY <2>10 DEF p
<1>. QED
    BY <1>1, <1>2

-----------------------------------------------------------------------------
(***************************************************************************)
(* Threads across the steps.                                               *)
(***************************************************************************)
\* What has been said stays said, and is never filed anew.
Keeps ==
    /\ UNCHANGED mode
    /\ \A c : Said(c) => Said(c)'
    /\ \A c \in DOMAIN tracker'.of : Said(c) => c \in DOMAIN tracker.of /\ tracker'.of[c] = tracker.of[c]

LEMMA FilingStays ==
    ASSUME Keeps
    PROVE  /\ \A key : Nameable(key)' = Nameable(key)
           /\ \A c, topic : Filed(c, topic) => Filed(c, topic)'
           /\ \A s, c : Said(s) /\ Said(c) /\ Follows(s, c) => Follows(s, c)'
           /\ \A p : Held(p) => Held(p)'
<1>1. \A key : Nameable(key)' = Nameable(key)
    BY DEF Keeps, Nameable, Named, Useful
<1>2. \A c, topic : Filed(c, topic) => Filed(c, topic)'
    BY DEF Keeps, Filed
<1>3. ASSUME NEW s, NEW c, Said(s), Said(c), Follows(s, c) PROVE Follows(s, c)'
    BY <1>1, <1>3 DEF Keeps, Follows
<1>4. ASSUME NEW p, Held(p) PROVE Held(p)'
    BY <1>2, <1>4 DEF Held
<1>. QED
    BY <1>1, <1>2, <1>3, <1>4

\* A stimulus of an earlier tick, or of this one while it stays filed.
LEMMA StimulusStays ==
    ASSUME Keeps, NEW s, NEW t \in Nat, StimulusOK(s, t), t # tick' \/ s.from \notin Agents \/ s.id \in DOMAIN tracker'.of
    PROVE  StimulusOK(s, t)'
<1>1. s.from \in Agents => Filed(s.id, s.topic)'
    BY FilingStays DEF StimulusOK
<1>2. ASSUME NEW c \in s.cause \ Nameable("cause")', c[1] \in Agents
      PROVE  Said(c)' /\ Follows(s.id, c)'
  <2>1. c \in s.cause \ Nameable("cause") /\ s.from \in Agents
      BY <1>2, FilingStays DEF StimulusOK
  <2>2. Said(s.id) /\ Said(c) /\ Follows(s.id, c)
      BY <1>2, <2>1 DEF StimulusOK, Filed
  <2>. QED
      BY <2>2, FilingStays DEF Keeps
<1>. QED
    BY <1>1, <1>2 DEF StimulusOK

\* The steps of an agent, by what it holds after them.
LEMMA Ways ==
    ASSUME Inv, NEW a \in Agents, Step(a)
    PROVE  \/ /\ UNCHANGED <<tracker, stims>> /\ agent[a].pc = "gathering" /\ agent'[a].pc = "perceiving"
              /\ agent'[a].raw \in {PerceiveRetained(a), <<>>}
           \/ /\ UNCHANGED <<tracker, stims>> /\ agent[a].pc = "perceiving" /\ agent'[a].pc = "thinking"
              /\ agent'[a].ranked = Attend(Rank(Delivered(a, agent[a].raw), Range(recent[a]),
                                                mode.cares[a], tick), mode.cares[a])
           \/ /\ UNCHANGED <<tracker, stims>> /\ agent[a].pc = "thinking" /\ agent'[a].pc = "emitting"
              /\ \E answer \in mode.answers : agent'[a].stim = SpeechOf(a, answer)
           \/ /\ agent[a].pc = "emitting" /\ agent'[a].pc = "delivering"
              /\ tracker' = Ingest(tracker, agent[a].stim, agent[a].stim.id)
              /\ stims' = Publish([agent[a].stim EXCEPT !.topic = TopicOf(tracker', agent[a].stim)])
           \/ /\ UNCHANGED <<tracker, stims>>
              /\ \/ agent[a].pc = "waiting" /\ agent'[a].pc \in {"gathering", "done"}
                 \/ agent'[a].pc \in {"routing", "receipt", "done"}
<1>1. DOMAIN agent = Agents /\ DOMAIN agent[a] = Fields
    BY DEF Inv, Types, MindsOK
<1>. DEFINE freed == agent' = [agent EXCEPT ![a] = [Free EXCEPT !.pc = "receipt"]]
            routed(stamp) == agent' = [agent EXCEPT ![a] = [Free EXCEPT !.pc = "routing", !.stamp = stamp]]
            leaves == agent'[a].pc \in {"routing", "receipt", "done"}
<1>2. (freed => leaves) /\ \A stamp : routed(stamp) => leaves
  <2>1. freed => agent'[a] = [Free EXCEPT !.pc = "receipt"]
      BY <1>1
  <2>2. \A stamp : routed(stamp) => agent'[a] = [Free EXCEPT !.pc = "routing", !.stamp = stamp]
      BY <1>1
  <2>. HIDE DEF freed, routed
  <2>3. freed => agent'[a].pc = "receipt"
      BY <2>1, FreeIs
  <2>4. ASSUME NEW stamp, routed(stamp) PROVE agent'[a].pc = "routing"
      BY <2>2, <2>4, FreeIs
  <2>. QED
      BY <2>3, <2>4
<1>3. \A to, route, stamp : Send(a, to, route, stamp) => freed
    BY DEF Send
<1>4. \A reason : RecordDropped(a, reason) => freed
    BY DEF RecordDropped
<1>5. \A stamp : Cascade(a, stamp) => freed \/ routed(stamp)
    BY <1>3, <1>4 DEF Cascade, Fallback
<1>. HIDE DEF freed, routed
<1>6. CASE Begin(a)
  <2>1. \E pc \in {"done", "gathering"} : agent' = [agent EXCEPT ![a].pc = pc]
      BY <1>6 DEF Begin, HoldBack
  <2>2. agent[a].pc = "waiting" /\ UNCHANGED <<tracker, stims>>
      BY <1>6 DEF Begin, At_
  <2>. QED
      BY <1>1, <2>1, <2>2 DEF Fields
<1>7. CASE Observe(a)
  <2>1. \/ agent' = [agent EXCEPT ![a].pc = "done"]
        \/ \E incoming : agent' = [agent EXCEPT ![a] =
                 [@ EXCEPT !.pc = "perceiving", !.raw = IF mode.perception THEN PerceiveRetained(a) ELSE <<>>,
                           !.incoming = incoming]]
      BY <1>7 DEF Observe, HoldBack
  <2>2. agent[a].pc = "gathering" /\ UNCHANGED <<tracker, stims>>
      BY <1>7 DEF Observe, At_, mediaVars
  <2>. QED
      BY <1>1, <2>1, <2>2 DEF Fields
<1>8. CASE AttendPercepts(a)
  <2>. DEFINE ranked == Attend(Rank(Delivered(a, agent[a].raw), Range(recent[a]),
                                    mode.cares[a], tick), mode.cares[a])
  <2>1. agent' = [agent EXCEPT ![a] = [@ EXCEPT !.pc = "thinking", !.ranked = ranked, !.raw = <<>>]]
      BY <1>8 DEF AttendPercepts
  <2>2. agent[a].pc = "perceiving" /\ UNCHANGED <<tracker, stims>>
      BY <1>8 DEF AttendPercepts, At_, mediaVars
  <2>. HIDE DEF ranked
  <2>3. agent'[a].pc = "thinking" /\ agent'[a].ranked = ranked
      BY <1>1, <2>1 DEF Fields
  <2>. QED
      BY <2>2, <2>3 DEF ranked
<1>9. CASE Act(a)
  <2>0. agent[a].pc = "thinking" /\ UNCHANGED <<tracker, stims>>
      BY <1>9 DEF Act, At_
  <2>1. CASE mode.perception
    <3>1. \E answer \in mode.answers : \E stamp : agent' = [agent EXCEPT ![a] =
             [@ EXCEPT !.pc = "emitting", !.stim = SpeechOf(a, answer),
                       !.stamp = stamp, !.incoming = {}, !.ranked = <<>>]]
        BY <1>9, <2>1 DEF Act
    <3>2. \E answer \in mode.answers : agent'[a].pc = "emitting" /\ agent'[a].stim = SpeechOf(a, answer)
        BY <1>1, <3>1 DEF Fields
    <3>. QED
        BY <2>0, <3>2
  <2>2. CASE ~mode.perception
    <3>1. \E stamp : Cascade(a, stamp)
        BY <1>9, <2>2 DEF Act
    <3>. QED
        BY <1>2, <1>5, <2>0, <3>1
  <2>. QED
      BY <2>1, <2>2
<1>10. CASE Emit(a)
  <2>1. CASE a \in mode.hushed
      BY <1>2, <1>4, <1>10, <2>1 DEF Emit
  <2>2. CASE a \notin mode.hushed
    <3>1. \E hearers : agent' = [agent EXCEPT ![a] =
              [@ EXCEPT !.pc = "delivering", !.hearers = hearers]]
        BY <1>10, <2>2 DEF Emit
    <3>2. agent'[a].pc = "delivering"
        BY <1>1, <3>1 DEF Fields
    <3>3. /\ agent[a].pc = "emitting"
          /\ tracker' = Ingest(tracker, agent[a].stim, agent[a].stim.id)
          /\ stims' = Publish([agent[a].stim EXCEPT !.topic = TopicOf(tracker', agent[a].stim)])
        BY <1>10, <2>2 DEF Emit, At_
    <3>. QED
        BY <3>2, <3>3
  <2>. QED
      BY <2>1, <2>2
<1>11. CASE Deliver(a)
    BY <1>2, <1>3, <1>4, <1>5, <1>11 DEF Deliver
<1>12. CASE Route(a)
    BY <1>2, <1>3, <1>4, <1>12 DEF Route, Fallback
<1>13. CASE Finish(a)
    BY <1>1, <1>13, FreeIs DEF Finish, mediaVars
<1>. HIDE DEF leaves
<1>. QED
    BY <1>6, <1>7, <1>8, <1>9, <1>10, <1>11, <1>12, <1>13 DEF Step

\* Whoever attends to something attends first to something it perceived.
LEMMA TopIsHeld ==
    ASSUME tick \in Nat, mode \in Modes, NEW a \in Agents, NEW raw, Row(raw),
           \A i \in DOMAIN raw : Held(raw[i]), NEW seen, NEW ranked,
           ranked = Attend(Rank(Delivered(a, raw), seen, mode.cares[a], tick), mode.cares[a]),
           ranked # <<>>
    PROVE  Held(ranked[1].percept)
<1>. DEFINE kept == {i \in DOMAIN raw : <<a, raw[i].from>> \notin mode.deaf}
            given == Sifted(raw, kept)
            cares == mode.cares[a]
            sorted == Rank(given, seen, cares, tick)
            m == Cardinality(kept)
<1>1. Len(raw) \in Nat /\ DOMAIN raw = 1..Len(raw) /\ kept \in SUBSET (1..Len(raw))
    BY DEF Row
<1>2. given = Delivered(a, raw)
    BY DEF Delivered
<1>. HIDE DEF kept
<1>3. /\ m \in Nat /\ DOMAIN given = 1..m
      /\ \A n \in 1..m : \E i \in kept : raw[i] = given[n]
  <2>. DEFINE len == Len(raw)
  <2>1. len \in Nat /\ kept \in SUBSET (1..len)
      BY <1>1
  <2>. HIDE DEF len
  <2>. QED
      BY <2>1, SiftedFrom
<1>. HIDE DEF given, m
<1>4. \A n \in 1..m : Held(given[n])
    BY <1>1, <1>3
<1>5. Caring(cares)
    BY NumbersAssumption DEF Caring
<1>. HIDE DEF cares
<1>6. \A n \in 1..m : Score(given[n], seen, cares, tick) \in Int
  <2>. SUFFICES ASSUME NEW n \in 1..m PROVE Score(given[n], seen, cares, tick) \in Int
      OBVIOUS
  <2>1. {given[n].felt, given[n].tick} \subseteq Int
      BY <1>4 DEF Held
  <2>2. tick \in Int
      OBVIOUS
  <2>. QED
      BY <1>5, <2>1, <2>2, ScoreIsNumber
<1>7. /\ DOMAIN sorted = 1..m
      /\ \A n \in 1..m : \E i \in 1..m : sorted[n].percept = given[i]
    BY <1>3, <1>6, RankedFrom
<1>8. ranked = Attend(sorted, cares)
    BY <1>2 DEF cares
<1>. HIDE DEF sorted
<1>9. \E i \in 1..m : ranked[1] = sorted[i]
  <2>1. cares.budget \in Int /\ Attend(sorted, cares) # <<>>
      BY <1>5, <1>8 DEF Caring
  <2>2. \E i \in 1..m : Attend(sorted, cares)[1] = sorted[i]
      BY <1>3, <1>7, <2>1, AttendedFrom
  <2>. QED
      BY <1>8, <2>2
<1>. QED
    BY <1>4, <1>7, <1>9

\* What an agent says of itself, and what comes from what it attends to.
LEMMA SpeechIsMeant ==
    ASSUME tick \in Nat, mode \in Modes, NEW a \in Agents, NEW answer \in mode.answers,
           agent[a].ranked # <<>> => Held(agent[a].ranked[1].percept)
    PROVE  Meant(SpeechOf(a, answer), a)
<1>. DEFINE s == SpeechOf(a, answer)
<1>1. /\ s.id = <<a, tick>> /\ s.from = a /\ s.tick = tick /\ s.kind = "speech" /\ "topic" \in DOMAIN s
      /\ s.intensity = mode.voice[a] /\ s.range = Unlimited
      /\ s.topic = TopicNamed(a, answer) /\ s.cause = Cause(a, answer)
    BY DEF SpeechOf
<1>2. {s.intensity, s.range} \subseteq Int
    BY <1>1, NumbersAssumption DEF Unlimited
<1>. HIDE DEF s
<1>3. \A key : Named(answer, key) \subseteq Nameable(key)
    BY DEF Nameable
<1>4. ASSUME NEW c \in s.cause \ Nameable("cause"), c[1] \in Agents
      PROVE  \/ Filed(c, s.topic)
             \/ Said(c) /\ s.topic # {} /\ s.topic \subseteq Nameable("topic")
  <2>. DEFINE p == agent[a].ranked[1].percept
  <2>1. /\ Named(answer, "cause") = {} /\ agent[a].ranked # <<>>
        /\ c = p.stim
      BY <1>1, <1>3, <1>4 DEF Cause
  <2>2. Filed(p.stim, p.topic)
      BY <1>4, <2>1 DEF Held
  <2>3. CASE Named(answer, "topic") = {}
    <3>1. s.topic = p.topic
        BY <1>1, <2>1, <2>3 DEF TopicNamed
    <3>. HIDE DEF p
    <3>. QED
        BY <2>1, <2>2, <3>1
  <2>4. CASE Named(answer, "topic") # {}
    <3>1. s.topic = Named(answer, "topic")
        BY <1>1, <2>4 DEF TopicNamed
    <3>2. Said(p.stim)
        BY <2>2 DEF Filed
    <3>. HIDE DEF p
    <3>. QED
        BY <1>3, <2>1, <2>4, <3>1, <3>2
  <2>. QED
      BY <2>3, <2>4
<1>5. Meant(s, a)
    BY <1>1, <1>2, <1>4 DEF Meant
<1>. QED
    BY <1>5 DEF s

\* A mind that does not change holds what it held.
LEMMA MindStays ==
    ASSUME Keeps, UNCHANGED tick, NEW b, agent'[b] = agent[b], MindInv(b)
    PROVE  MindInv(b)'
<1>1. agent'[b].pc = "perceiving" =>
         (Row(agent[b].raw) /\ \A i \in DOMAIN agent[b].raw : Held(agent[b].raw[i]))'
  <2>. SUFFICES ASSUME agent[b].pc = "perceiving"
                PROVE  /\ Row(agent'[b].raw)
                       /\ \A i \in DOMAIN agent'[b].raw : \A p : p = agent'[b].raw[i] => Held(p)'
      BY DEF Held, Filed, Said
  <2>1. Row(agent[b].raw) /\ \A i \in DOMAIN agent[b].raw : Held(agent[b].raw[i])
      BY DEF MindInv
  <2>. QED
      BY <2>1, FilingStays
<1>2. agent'[b].pc = "thinking" /\ agent'[b].ranked # <<>> => Held(agent[b].ranked[1].percept)'
    BY FilingStays DEF MindInv
<1>3. agent'[b].pc = "emitting" => Meant(agent[b].stim, b)'
  <2>. SUFFICES ASSUME agent[b].pc = "emitting", NEW s, s = agent[b].stim
                PROVE  Meant(s, b)'
      BY DEF Meant, Filed, Said
  <2>1. Meant(s, b)
      BY DEF MindInv
  <2>. QED
      BY <2>1, FilingStays DEF Meant, Keeps
<1>. QED
    BY <1>1, <1>2, <1>3 DEF MindInv

\* Nothing is filed yet.
LEMMA ThreadsStart == Init => ThreadInv
<1>. SUFFICES ASSUME Init PROVE ThreadInv
    OBVIOUS
<1>1. /\ mode \in Modes /\ stage = "closed" /\ stims = <<>> /\ tracker = NoTopics /\ where = mode.places
      /\ \A a \in Agents : agent[a].pc = "done"
    BY FreeIs DEF Init
<1>2. DOMAIN stims = {} /\ DOMAIN tracker.topics = {} /\ DOMAIN tracker.of = {}
    BY <1>1 DEF NoTopics
<1>3. SpotsInv
    BY <1>1, NumbersAssumption DEF SpotsInv
<1>. QED
    BY <1>1, <1>2, <1>3 DEF ThreadInv, Listed, Indexed, FreshInv, StimuliInv, HeldInv, MindInv

\* An agent files its own speech only, under the topic of what it answers.
LEMMA AgentsFollow ==
    ASSUME Inv, ThreadInv, NEW a \in Agents, Step(a)
    PROVE  ThreadInv'
<1>. USE DEF ThreadInv
<1>1. /\ UNCHANGED <<mode, tick, stage, where, walked>> /\ stage = "running" /\ tick \in Nat
      /\ mode \in Modes /\ agent[a].pc # "done"
      /\ \A b \in Agents \ {a} : agent'[b] = agent[b]
  <2>1. Alone(a)
      BY AgentsStep
  <2>. QED
      BY <2>1 DEF Alone, worldVars, Inv, Types
<1>. DEFINE gone == {"delivering", "routing", "receipt", "done"}
<1>2. agent[a].pc \in gone => agent'[a].pc \in gone
    BY <1>1, Ways
<1>3. \A c : Said(c) => Said(c)'
  <2>. SUFFICES ASSUME NEW c, Said(c) PROVE Said(c)'
      OBVIOUS
  <2>1. c[1] \in Agents /\ (agent[c[1]].pc \in gone => agent'[c[1]].pc \in gone)
      BY <1>1, <1>2 DEF Said
  <2>. QED
      BY <1>1, <2>1 DEF Said
<1>4. SpotsInv'
    BY <1>1 DEF SpotsInv
<1>5. CASE UNCHANGED <<tracker, stims>>
  <2>1. Keeps
      BY <1>1, <1>3, <1>5 DEF Keeps
  <2>2. (Listed(tracker) /\ Indexed(tracker))' /\ FreshInv'
      BY <1>3, <1>5 DEF FreshInv, Listed, Indexed, Tracks
  <2>3. StimuliInv'
    <3>1. ASSUME NEW t \in DOMAIN stims, NEW i \in DOMAIN stims[t] PROVE StimulusOK(stims[t][i], t)'
      <4>. DEFINE s == stims[t][i]
      <4>1. StimulusOK(s, t) /\ t \in Nat
          BY <1>1 DEF StimuliInv
      <4>2. t # tick' \/ s.from \notin Agents \/ s.id \in DOMAIN tracker'.of
          BY <1>1, <1>5, <4>1 DEF StimulusOK
      <4>3. s' = s
          BY <1>5
      <4>. HIDE DEF s
      <4>4. StimulusOK(s, t)'
          BY <2>1, <4>1, <4>2, <4>3, StimulusStays
      <4>. QED
          BY <4>4 DEF s
    <3>. QED
        BY <1>1, <1>5, <3>1 DEF StimuliInv
  <2>4. \A b \in Agents \ {a} : MindInv(b)'
      BY <1>1, <2>1, MindStays DEF HeldInv
  <2>5. MindInv(a)'
    <3>1. agent'[a].pc = "perceiving" =>
             (Row(agent[a].raw) /\ \A i \in DOMAIN agent[a].raw : Held(agent[a].raw[i]))'
      <4>. SUFFICES ASSUME agent'[a].pc = "perceiving"
                    PROVE  /\ Row(agent'[a].raw)
                           /\ \A i \in DOMAIN agent'[a].raw : \A p : p = agent'[a].raw[i] => Held(p)'
          BY DEF Held, Filed, Said
      <4>1. agent'[a].raw \in {PerceiveRetained(a), <<>>}
          BY Ways
      <4>2. CASE agent'[a].raw = <<>>
        <5>1. <<>> \in Seq({}) /\ DOMAIN <<>> = {}
            OBVIOUS
        <5>. QED
            BY <4>2, <5>1 DEF Row
      <4>3. CASE agent'[a].raw = PerceiveRetained(a)
        <5>1. Row(PerceiveRetained(a)) /\ \A j \in DOMAIN PerceiveRetained(a) : Held(PerceiveRetained(a)[j])
            BY <1>1, PerceivedIsHeld
        <5>. QED
            BY <2>1, <4>3, <5>1, FilingStays
      <4>. QED
          BY <4>1, <4>2, <4>3
    <3>2. agent'[a].pc = "thinking" /\ agent'[a].ranked # <<>> => Held(agent[a].ranked[1].percept)'
      <4>. SUFFICES ASSUME agent'[a].pc = "thinking", NEW ranked, ranked = agent'[a].ranked,
                           ranked # <<>>, NEW p, p = ranked[1].percept
                    PROVE  Held(p)'
          BY DEF Held, Filed, Said
      <4>1. /\ agent[a].pc = "perceiving"
            /\ ranked = Attend(Rank(Delivered(a, agent[a].raw), Range(recent[a]),
                                    mode.cares[a], tick), mode.cares[a])
          BY Ways
      <4>2. Row(agent[a].raw) /\ \A i \in DOMAIN agent[a].raw : Held(agent[a].raw[i])
          BY <4>1 DEF HeldInv, MindInv
      <4>. DEFINE seen == Range(recent[a])
                  raw == agent[a].raw
      <4>3. /\ ranked = Attend(Rank(Delivered(a, raw), seen, mode.cares[a], tick), mode.cares[a])
            /\ Row(raw) /\ \A i \in DOMAIN raw : Held(raw[i])
          BY <4>1, <4>2
      <4>. HIDE DEF seen, raw
      <4>4. Held(p)
          BY <1>1, <4>3, TopIsHeld
      <4>. QED
          BY <2>1, <4>4, FilingStays
    <3>3. agent'[a].pc = "emitting" => Meant(agent[a].stim, a)'
      <4>. SUFFICES ASSUME agent'[a].pc = "emitting", NEW s, s = agent'[a].stim
                    PROVE  Meant(s, a)'
          BY DEF Meant, Filed, Said
      <4>1. agent[a].pc = "thinking" /\ \E answer \in mode.answers : s = SpeechOf(a, answer)
          BY Ways
      <4>2. agent[a].ranked # <<>> => Held(agent[a].ranked[1].percept)
          BY <4>1 DEF HeldInv, MindInv
      <4>3. Meant(s, a)
          BY <1>1, <4>1, <4>2, SpeechIsMeant
      <4>. QED
          BY <1>1, <2>1, <4>3, FilingStays DEF Meant, Keeps
    <3>. QED
        BY <3>1, <3>2, <3>3 DEF MindInv
  <2>. QED
      BY <1>4, <2>2, <2>3, <2>4, <2>5 DEF HeldInv
<1>6. CASE ~UNCHANGED <<tracker, stims>>
  <2>0. PICK s, topic, new : /\ s = agent[a].stim /\ topic = TopicOf(tracker', s)
                             /\ new = [s EXCEPT !.topic = topic]
      OBVIOUS
  <2>1. /\ agent[a].pc = "emitting" /\ agent'[a].pc = "delivering"
        /\ tracker' = Ingest(tracker, s, s.id)
        /\ stims' = Publish(new)
      BY <1>6, <2>0, Ways
  <2>2. Meant(s, a)
      BY <2>0, <2>1 DEF HeldInv, MindInv
  <2>3. /\ s.id = <<a, tick>> /\ s.from = a /\ s.tick = tick /\ s.kind = "speech" /\ s.id[2] = tick
        /\ s.id[1] = a /\ {s.intensity, s.range} \subseteq Int
      BY <2>2 DEF Meant
  <2>4. ~Said(s.id)
      BY <1>1, <2>1, <2>3 DEF Said
  <2>5. s.id \notin DOMAIN tracker.of
      BY <2>3, <2>4 DEF FreshInv
  <2>6. Said(s.id)'
      BY <1>1, <2>1, <2>3 DEF Said
  <2>7. /\ new.id = s.id /\ new.from = s.from /\ new.tick = s.tick /\ new.kind = s.kind
        /\ new.intensity = s.intensity /\ new.range = s.range /\ new.cause = s.cause
      BY <2>0
  <2>8. PICK result : result = tracker'
      OBVIOUS
  <2>9. /\ Listed(result) /\ Indexed(result)
        /\ s.id \in DOMAIN result.of
        /\ \A c \in DOMAIN result.of : c # s.id => c \in DOMAIN tracker.of /\ result.of[c] = tracker.of[c]
        /\ \A c \in DOMAIN tracker.of : c[2] >= s.tick => c \in DOMAIN result.of
        /\ s.topic # {} => result.of[s.id] \in s.topic
    <3>. DEFINE fresh == s.id
    <3>1. result = Ingest(tracker, s, fresh) /\ s.tick \in Nat /\ s.id[2] = s.tick
        BY <1>1, <2>1, <2>3, <2>8
    <3>. HIDE DEF fresh
    <3>. QED
        BY <2>5, <3>1, IngestedIs
  <2>10. Keeps
      BY <1>1, <1>3, <2>4, <2>8, <2>9 DEF Keeps
  <2>11. (Listed(tracker) /\ Indexed(tracker))' /\ FreshInv'
      BY <1>3, <2>6, <2>8, <2>9 DEF FreshInv, Listed, Indexed, Tracks
  <2>12. topic = {result.of[s.id]}
      BY <2>0, <2>8, <2>9 DEF TopicOf
  <2>13. /\ DOMAIN stims' = DOMAIN stims /\ tick \in DOMAIN stims
         /\ \A t \in DOMAIN stims \ {tick} : stims'[t] = stims[t]
         /\ stims'[tick] = Append(stims[tick], new)
    <3>1. tick \in DOMAIN stims /\ new.tick = tick
        BY <1>1, <2>3, <2>7 DEF StimuliInv
    <3>. QED
        BY <2>1, <3>1 DEF Publish
  <2>14. ASSUME NEW now, now = tick PROVE StimulusOK(new, now)'
    <3>1. new.topic = topic /\ "topic" \in DOMAIN new
        BY <2>0, <2>2 DEF Meant
    <3>2. Filed(new.id, new.topic)'
        BY <2>6, <2>7, <2>8, <2>12, <3>1 DEF Filed
    <3>3. ASSUME NEW c \in new.cause \ Nameable("cause")', c[1] \in Agents
          PROVE  Said(c)' /\ Follows(new.id, c)'
      <4>1. /\ Nameable("cause")' = Nameable("cause") /\ Nameable("topic")' = Nameable("topic")
            /\ c \in s.cause \ Nameable("cause")
          BY <2>7, <2>10, <3>3, FilingStays
      <4>2. \/ Filed(c, s.topic)
            \/ Said(c) /\ s.topic # {} /\ s.topic \subseteq Nameable("topic")
          BY <2>2, <3>3, <4>1 DEF Meant
      <4>3. Said(c) /\ c # s.id
          BY <2>4, <4>2 DEF Filed
      <4>4. s.topic # {} /\ result.of[s.id] \in s.topic
          BY <2>9, <4>2 DEF Filed
      <4>5. c \in DOMAIN result.of /\ result.of[s.id] \notin Nameable("topic")
              => result.of[s.id] = result.of[c]
        <5>1. CASE s.topic \subseteq Nameable("topic")
            BY <4>4, <5>1
        <5>2. CASE Filed(c, s.topic)
          <6>1. PICK T \in s.topic : s.topic = {T} /\ (c \in DOMAIN tracker.of => tracker.of[c] = T)
              BY <5>2 DEF Filed
          <6>. QED
              BY <2>9, <4>3, <4>4, <6>1
        <5>. QED
            BY <4>2, <5>1, <5>2
      <4>6. Follows(s.id, c)'
          BY <2>8, <4>1, <4>5 DEF Follows
      <4>. QED
          BY <1>3, <2>7, <4>3, <4>6
    <3>. QED
        BY <1>1, <2>3, <2>7, <2>8, <2>9, <2>14, <3>1, <3>2, <3>3 DEF StimulusOK
  <2>15. StimuliInv'
    <3>1. ASSUME NEW t \in DOMAIN stims, NEW i \in DOMAIN stims[t], NEW old, old = stims[t][i]
          PROVE  StimulusOK(old, t)'
      <4>0. old = stims[t][i]
          BY <3>1
      <4>1. StimulusOK(old, t) /\ t \in Nat /\ tick' = tick
          BY <1>1, <4>0 DEF StimuliInv
      <4>2. t # tick' \/ old.from \notin Agents \/ old.id \in DOMAIN tracker'.of
        <5>1. CASE t = tick /\ old.from \in Agents
          <6>1. old.id \in DOMAIN tracker.of /\ old.id[2] = tick
              BY <4>1, <5>1 DEF StimulusOK
          <6>2. old.id[2] >= s.tick
              BY <1>1, <2>3, <6>1
          <6>. QED
              BY <2>8, <2>9, <6>1, <6>2
        <5>. QED
            BY <1>1, <5>1
      <4>3. StimulusOK(old, t)'
          BY <2>10, <4>1, <4>2, StimulusStays
      <4>. QED
          BY <4>3
    <3>2. ASSUME NEW t \in DOMAIN stims
          PROVE  /\ Row(stims'[t])
                 /\ \A j \in DOMAIN stims'[t] : \A x : x = stims'[t][j] => StimulusOK(x, t)'
      <4>1. CASE t # tick
          BY <2>13, <3>1, <4>1 DEF StimuliInv
      <4>2. CASE t = tick
        <5>. DEFINE row == stims[tick]
                    longer == Append(row, new)
        <5>1. PICK S : row \in Seq(S)
            BY <2>13 DEF StimuliInv, Row
        <5>. HIDE DEF row
        <5>2. row \in Seq(S \cup {new}) /\ new \in S \cup {new}
            BY <5>1
        <5>3. /\ longer \in Seq(S \cup {new}) /\ Len(row) \in Nat /\ DOMAIN row = 1..Len(row)
              /\ DOMAIN longer = 1..(Len(row) + 1) /\ longer[Len(row) + 1] = new
              /\ \A j \in 1..Len(row) : longer[j] = row[j]
            BY <5>2
        <5>. HIDE DEF longer
        <5>4. stims'[t] = longer
            BY <2>13, <4>2 DEF longer, row
        <5>5. \A j \in DOMAIN longer : \A x : x = longer[j] => StimulusOK(x, t)'
          <6>. SUFFICES ASSUME NEW j \in DOMAIN longer, NEW x, x = longer[j] PROVE StimulusOK(x, t)'
              OBVIOUS
          <6>1. CASE j = Len(row) + 1
            <7>1. x = new
                BY <5>3, <6>1
            <7>. QED
                BY <2>14, <4>2, <7>1
          <6>2. CASE j \in 1..Len(row)
            <7>1. j \in DOMAIN stims[t] /\ x = stims[t][j]
                BY <4>2, <5>3, <6>2 DEF row
            <7>. QED
                BY <3>1, <7>1
          <6>. QED
              BY <5>3, <6>1, <6>2
        <5>. QED
            BY <5>3, <5>4, <5>5 DEF Row
      <4>. QED
          BY <4>1, <4>2
    <3>3. (\A t \in DOMAIN stims : /\ Row(stims[t])
                                   /\ \A j \in DOMAIN stims[t] : StimulusOK(stims[t][j], t))'
      <4>. SUFFICES ASSUME NEW t \in DOMAIN stims'
                    PROVE  /\ Row(stims'[t])
                           /\ \A j \in DOMAIN stims'[t] : \A x : x = stims'[t][j] => StimulusOK(x, t)'
          BY DEF StimulusOK, Filed, Follows, Said
      <4>. QED
          BY <2>13, <3>2
    <3>4. /\ \A t \in DOMAIN stims' : t \in 1..tick'
          /\ stage' # "closed" => tick' \in DOMAIN stims'
        BY <1>1, <2>13 DEF StimuliInv
    <3>. QED
        BY <3>3, <3>4 DEF StimuliInv
  <2>16. HeldInv'
    <3>1. \A b \in Agents \ {a} : MindInv(b)'
        BY <1>1, <2>10, MindStays DEF HeldInv
    <3>2. MindInv(a)'
        BY <2>1 DEF MindInv
    <3>. QED
        BY <3>1, <3>2 DEF HeldInv
  <2>. QED
      BY <1>4, <2>11, <2>15, <2>16
<1>. QED
    BY <1>5, <1>6

\* The row of the new tick holds what the entities emit.
LEMMA EntitiesEmit ==
    ASSUME NEW now, NEW row, row = EntityStimuli(now)
    PROVE  /\ Row(row)
           /\ \A i \in DOMAIN row :
                 /\ row[i].id = <<row[i].from, now>> /\ row[i].tick = now /\ "topic" \in DOMAIN row[i]
                 /\ {row[i].intensity, row[i].range} \subseteq Int
                 /\ row[i].from \notin Agents /\ row[i].cause = {}
<1>. DEFINE firing == {e \in Emitters : now % e.every = 0 /\ e.from \notin mode.hushed}
            Of(e) == [id |-> <<e.from, now>>, from |-> e.from, tick |-> now, kind |-> e.kind,
               channel |-> e.channel, intensity |-> e.intensity, range |-> e.range,
               tongue |-> "untold", topic |-> {}, cause |-> {}, words |-> {},
               tags |-> e.tags]
            T == {Of(e) : e \in firing}
            fine(x) == /\ x.id = <<x.from, now>> /\ x.tick = now /\ "topic" \in DOMAIN x
                       /\ {x.intensity, x.range} \subseteq Int
                       /\ x.from \notin Agents /\ x.cause = {}
<1>1. IsFiniteSet(firing)
    BY SpeechAssumption, FS_Subset
<1>2. row = SetToSeq(T)
    BY DEF EntityStimuli
<1>3. \A e \in firing : fine(Of(e))
    BY NumbersAssumption
<1>. HIDE DEF firing, Of, fine
<1>4. IsFiniteSet(T) /\ \A x \in T : fine(x)
  <2>1. [e \in firing |-> Of(e)] \in Surjection(firing, T)
      BY DEF Surjection
  <2>2. \A x \in T : fine(x)
      BY <1>3
  <2>. HIDE DEF T
  <2>. QED
      BY <1>1, <2>1, <2>2, FS_Surjection
<1>. HIDE DEF T
<1>5. row \in Seq(T)
    BY <1>2, <1>4, ListOfSet
<1>6. \A i \in DOMAIN row : fine(row[i])
    BY <1>4, <1>5
<1>. QED
    BY <1>5, <1>6 DEF Row, fine

\* The entities answer nobody, and what has been said is of an earlier tick from now on.
LEMMA OpenFollows ==
    ASSUME Inv, ThreadInv, OpenTick
    PROVE  ThreadInv'
<1>. USE DEF ThreadInv
<1>1. /\ UNCHANGED <<mode, where, tracker, agent>> /\ tick \in Nat
      /\ stage' = "opened" /\ tick' = tick + 1 /\ Retention \in Nat \ {0}
      /\ \A a \in Agents : agent[a].pc = "done"
    BY SpeechAssumption DEF OpenTick, mindVars, Inv, Types, StageInv
<1>2. PICK now : now = tick + 1
    OBVIOUS
<1>3. \A c : Said(c) => Said(c)'
    BY <1>1 DEF Said
<1>4. Keeps
    BY <1>1, <1>3 DEF Keeps
<1>5. PICK row :
         /\ stims' = [t \in RetainedFrom(now) |-> IF t # now THEN stims[t] ELSE row]
         /\ Row(row)
         /\ \A i \in DOMAIN row :
               /\ row[i].id = <<row[i].from, now>> /\ row[i].tick = now /\ "topic" \in DOMAIN row[i]
               /\ {row[i].intensity, row[i].range} \subseteq Int
               /\ row[i].from \notin Agents /\ row[i].cause = {}
  <2>. DEFINE row == IF mode.perception THEN EntityStimuli(now) ELSE <<>>
  <2>1. stims' = [t \in RetainedFrom(now) |-> IF t # now THEN stims[t] ELSE row]
      BY <1>1, <1>2 DEF OpenTick
  <2>2. <<>> \in Seq({}) /\ DOMAIN <<>> = {}
      OBVIOUS
  <2>3. row = EntityStimuli(now) \/ row = <<>>
      OBVIOUS
  <2>. HIDE DEF row
  <2>4. CASE row = <<>>
      BY <2>1, <2>2, <2>4 DEF Row
  <2>5. CASE row = EntityStimuli(now)
      BY <2>1, <2>5, EntitiesEmit
  <2>. QED
      BY <2>3, <2>4, <2>5
<1>6. /\ DOMAIN stims' = RetainedFrom(now) /\ now \in RetainedFrom(now)
      /\ RetainedFrom(now) \subseteq DOMAIN stims \cup {now}
      /\ stims'[now] = row
      /\ \A t \in DOMAIN stims' \ {now} : t \in DOMAIN stims /\ stims'[t] = stims[t]
    BY <1>1, <1>2, <1>5 DEF RetainedFrom
<1>7. ASSUME NEW t \in DOMAIN stims'
      PROVE  /\ t \in 1..now /\ Row(stims'[t])
             /\ \A j \in DOMAIN stims'[t] : \A x : x = stims'[t][j] => StimulusOK(x, t)'
  <2>1. CASE t = now
    <3>1. ASSUME NEW j \in DOMAIN row, NEW x, x = row[j] PROVE StimulusOK(x, t)'
        BY <1>5, <2>1, <3>1 DEF StimulusOK
    <3>. QED
        BY <1>1, <1>2, <1>5, <1>6, <2>1, <3>1
  <2>2. CASE t # now
    <3>1. t \in DOMAIN stims /\ stims'[t] = stims[t] /\ t \in 1..tick
        BY <1>6, <2>2 DEF StimuliInv
    <3>2. ASSUME NEW j \in DOMAIN stims[t], NEW x, x = stims[t][j] PROVE StimulusOK(x, t)'
      <4>1. StimulusOK(x, t) /\ t \in Nat /\ t # tick'
          BY <1>1, <3>1, <3>2 DEF StimuliInv
      <4>. QED
          BY <1>4, <4>1, StimulusStays
    <3>. QED
        BY <1>1, <1>2, <3>1, <3>2 DEF StimuliInv
  <2>. QED
      BY <2>1, <2>2
<1>8. (\A t \in DOMAIN stims : /\ t \in 1..tick /\ Row(stims[t])
                               /\ \A j \in DOMAIN stims[t] : StimulusOK(stims[t][j], t))'
  <2>. SUFFICES ASSUME NEW t \in DOMAIN stims'
                PROVE  /\ t \in 1..tick' /\ Row(stims'[t])
                       /\ \A j \in DOMAIN stims'[t] : \A x : x = stims'[t][j] => StimulusOK(x, t)'
      BY DEF StimulusOK, Filed, Follows, Said
  <2>. QED
      BY <1>1, <1>2, <1>7
<1>9. StimuliInv'
    BY <1>1, <1>2, <1>6, <1>8 DEF StimuliInv
<1>10. (Listed(tracker) /\ Indexed(tracker))' /\ FreshInv'
    BY <1>1, <1>3 DEF FreshInv, Listed, Indexed, Tracks
<1>11. HeldInv' /\ SpotsInv'
    BY <1>1 DEF HeldInv, MindInv, SpotsInv
<1>. QED
    BY <1>9, <1>10, <1>11

\* Nobody has said anything in this tick.
LEMMA ActivateFollows ==
    ASSUME Inv, ThreadInv, Activate
    PROVE  ThreadInv'
<1>. USE DEF ThreadInv
<1>1. /\ UNCHANGED <<mode, tick, where, tracker, stims>> /\ stage = "opened" /\ stage' = "running"
      /\ tick \in Nat
    BY DEF Activate, mediaVars, Inv, Types
<1>2. \A a \in Agents : agent'[a].pc \in {"waiting", "done"}
  <2>1. \E pc : /\ agent' = [a \in Agents |-> [Free EXCEPT !.pc = pc[a]]]
                /\ \A a \in Agents : pc[a] \in {"waiting", "done"}
    <3>. DEFINE called(a, drawn) == \/ InboxOf(a) # {}
                                    \/ mode.perception /\ PerceiveRetained(a) # <<>>
                                    \/ a \in drawn
    <3>1. PICK drawn : agent' = [a \in Agents |->
             [Free EXCEPT !.pc = IF called(a, drawn) THEN "waiting" ELSE "done"]]
        BY DEF Activate
    <3>. HIDE DEF called
    <3>. DEFINE pc == [a \in Agents |-> IF called(a, drawn) THEN "waiting" ELSE "done"]
    <3>2. \A a \in Agents : pc[a] = IF called(a, drawn) THEN "waiting" ELSE "done"
        OBVIOUS
    <3>. HIDE DEF pc
    <3>. QED
        BY <3>1, <3>2
  <2>2. PICK pc : /\ agent' = [a \in Agents |-> [Free EXCEPT !.pc = pc[a]]]
                  /\ \A a \in Agents : pc[a] \in {"waiting", "done"}
      BY <2>1
  <2>3. \A a \in Agents : agent'[a] = [Free EXCEPT !.pc = pc[a]]
      BY <2>2
  <2>. QED
      BY <2>2, <2>3 DEF Free
<1>3. \A c : Said(c) => Said(c)'
    BY <1>1 DEF Said
<1>4. Keeps
    BY <1>1, <1>3 DEF Keeps
<1>5. ASSUME NEW t \in DOMAIN stims, NEW j \in DOMAIN stims[t], NEW x, x = stims[t][j]
      PROVE  StimulusOK(x, t)'
  <2>1. StimulusOK(x, t) /\ t \in Nat
      BY <1>1, <1>5 DEF StimuliInv
  <2>2. t # tick' \/ x.from \notin Agents \/ x.id \in DOMAIN tracker'.of
      BY <1>1, <2>1 DEF StimulusOK
  <2>. QED
      BY <1>4, <2>1, <2>2, StimulusStays
<1>6. (\A t \in DOMAIN stims : \A j \in DOMAIN stims[t] : StimulusOK(stims[t][j], t))'
  <2>. SUFFICES ASSUME NEW t \in DOMAIN stims', NEW j \in DOMAIN stims'[t], NEW x, x = stims'[t][j]
                PROVE  StimulusOK(x, t)'
      BY DEF StimulusOK, Filed, Follows, Said
  <2>. QED
      BY <1>1, <1>5
<1>7. StimuliInv'
  <2>1. (\A t \in DOMAIN stims : t \in 1..tick /\ Row(stims[t]))' /\ (tick \in DOMAIN stims)'
      BY <1>1 DEF StimuliInv
  <2>. QED
      BY <1>6, <2>1 DEF StimuliInv
<1>8. (Listed(tracker) /\ Indexed(tracker))' /\ FreshInv'
    BY <1>1, <1>3 DEF FreshInv, Listed, Indexed, Tracks
<1>9. HeldInv' /\ SpotsInv'
    BY <1>1, <1>2 DEF HeldInv, MindInv, SpotsInv
<1>. QED
    BY <1>7, <1>8, <1>9

\* The speech of entities is filed now, that of agents has been.
LEMMA CloseFollows ==
    ASSUME Inv, ThreadInv, CloseTick
    PROVE  ThreadInv'
<1>. USE DEF ThreadInv
<1>1. /\ UNCHANGED <<mode, tick, where, agent>> /\ tick \in Nat
      /\ stage = "running" /\ stage' = "closed" /\ \A a \in Agents : agent[a].pc = "done"
    BY DEF CloseTick, mindVars, Inv, Types
<1>2. \A c : Said(c) => Said(c)'
    BY <1>1 DEF Said
<1>3. HeldInv' /\ SpotsInv'
    BY <1>1 DEF HeldInv, MindInv, SpotsInv
<1>4. PICK said : said = stims[tick]
    OBVIOUS
<1>5. /\ tick \in DOMAIN stims /\ Row(said)
      /\ \A i \in DOMAIN said : StimulusOK(said[i], tick)
    BY <1>1, <1>4 DEF StimuliInv
<1>6. Len(said) \in Nat /\ DOMAIN said = 1..Len(said)
    BY <1>5 DEF Row
<1>7. CASE UNCHANGED <<tracker, stims>>
  <2>1. Keeps
      BY <1>1, <1>2, <1>7 DEF Keeps
  <2>2. ASSUME NEW t \in DOMAIN stims, NEW j \in DOMAIN stims[t], NEW x, x = stims[t][j]
        PROVE  StimulusOK(x, t)'
    <3>1. StimulusOK(x, t) /\ t \in Nat
        BY <1>1, <2>2 DEF StimuliInv
    <3>2. t # tick' \/ x.from \notin Agents \/ x.id \in DOMAIN tracker'.of
        BY <1>1, <1>7, <3>1 DEF StimulusOK
    <3>. QED
        BY <2>1, <3>1, <3>2, StimulusStays
  <2>3. (\A t \in DOMAIN stims : \A j \in DOMAIN stims[t] : StimulusOK(stims[t][j], t))'
    <3>. SUFFICES ASSUME NEW t \in DOMAIN stims', NEW j \in DOMAIN stims'[t], NEW x, x = stims'[t][j]
                  PROVE  StimulusOK(x, t)'
        BY DEF StimulusOK, Filed, Follows, Said
    <3>. QED
        BY <1>7, <2>2
  <2>4. StimuliInv'
    <3>1. (\A t \in DOMAIN stims : t \in 1..tick /\ Row(stims[t]))'
        BY <1>1, <1>7 DEF StimuliInv
    <3>. QED
        BY <1>1, <2>3, <3>1 DEF StimuliInv
  <2>5. (Listed(tracker) /\ Indexed(tracker))' /\ FreshInv'
      BY <1>2, <1>7 DEF FreshInv, Listed, Indexed, Tracks
  <2>. QED
      BY <1>3, <2>4, <2>5
<1>8. CASE ~UNCHANGED <<tracker, stims>>
  <2>. DEFINE upto[n \in 0..Len(said)] ==
                 IF n = 0 THEN tracker
                 ELSE IF said[n].kind = "speech" THEN Ingest(upto[n - 1], said[n], said[n].id)
                 ELSE upto[n - 1]
  <2>1. /\ tracker' = upto[Len(said)]
        /\ stims' = [stims EXCEPT ![tick] = [i \in DOMAIN said |->
              IF said[i].kind # "speech" THEN said[i]
              ELSE [said[i] EXCEPT !.topic = TopicOf(tracker', said[i])]]]
      BY <1>4, <1>8 DEF CloseTick
  <2>2. Files(upto, tracker, said, Len(said))
    <3>1. PICK f : Files(f, tracker, said, Len(said))
        BY <1>6, FilesExist
    <3>2. \E g : g = [n \in 0..Len(said) |->
                 IF n = 0 THEN tracker
                 ELSE IF said[n].kind = "speech" THEN Ingest(g[n - 1], said[n], said[n].id)
                 ELSE g[n - 1]]
        BY <3>1 DEF Files
    <3>3. upto = [n \in 0..Len(said) |->
                 IF n = 0 THEN tracker
                 ELSE IF said[n].kind = "speech" THEN Ingest(upto[n - 1], said[n], said[n].id)
                 ELSE upto[n - 1]]
        BY <3>2
    <3>. HIDE DEF upto
    <3>4. DOMAIN upto = 0..Len(said)
        BY <3>3
    <3>. QED
        BY <3>3, <3>4 DEF Files
  <2>. HIDE DEF upto
  <2>3. PICK result : result = tracker'
      OBVIOUS
  <2>4. \A i \in DOMAIN said : said[i].tick = tick /\ said[i].id[2] = tick
                               /\ said[i].id[1] = said[i].from
      BY <1>5 DEF StimulusOK
  <2>5. /\ Listed(result) /\ Indexed(result)
        /\ \A c \in DOMAIN result.of : IF c \in DOMAIN tracker.of THEN result.of[c] = tracker.of[c]
                                       ELSE \E i \in DOMAIN said : c = said[i].id
        /\ \A c \in DOMAIN tracker.of : c[2] >= tick => c \in DOMAIN result.of
    <3>1. PICK f, len, tr, now :
             f = upto /\ len = Len(said) /\ tr = tracker /\ now = tick
        OBVIOUS
    <3>2. /\ len \in Nat /\ now \in Nat /\ Listed(tr) /\ Indexed(tr) /\ Files(f, tr, said, len)
          /\ \A i \in 1..len : said[i].tick = now /\ said[i].id[2] = now
        BY <1>1, <1>6, <2>2, <2>4, <3>1
    <3>3. Completed(tr, f[len], now, said, len)
        BY <3>2, AllFiledIs
    <3>4. Completed(tracker, result, tick, said, len)
        BY <2>1, <2>3, <3>1, <3>3
    <3>. QED
        BY <1>6, <3>1, <3>4 DEF Completed
  <2>6. ASSUME NEW i \in DOMAIN said, said[i].from \in Agents
        PROVE  said[i].id \in DOMAIN tracker.of /\ said[i].id \in DOMAIN result.of
    <3>1. said[i].id \in DOMAIN tracker.of
        BY <1>5, <2>6 DEF StimulusOK
    <3>2. said[i].id[2] >= tick
        BY <1>1, <2>4
    <3>. QED
        BY <2>5, <3>1, <3>2
  <2>7. Keeps
    <3>1. ASSUME NEW c \in DOMAIN result.of, Said(c)
          PROVE  c \in DOMAIN tracker.of /\ result.of[c] = tracker.of[c]
      <4>1. c \notin DOMAIN tracker.of => \E i \in DOMAIN said : c = said[i].id
          BY <2>5
      <4>2. c \in DOMAIN tracker.of
        <5>. SUFFICES ASSUME c \notin DOMAIN tracker.of PROVE FALSE
            OBVIOUS
        <5>1. PICK i \in DOMAIN said : c = said[i].id
            BY <4>1
        <5>2. said[i].from \in Agents
            BY <2>4, <3>1, <5>1 DEF Said
        <5>. QED
            BY <2>6, <5>1, <5>2
      <4>. QED
          BY <2>5, <4>2
    <3>. QED
        BY <1>1, <1>2, <2>3, <3>1 DEF Keeps
  <2>8. FreshInv'
    <3>1. ASSUME NEW c \in DOMAIN result.of, c[1] \in Agents PROVE Said(c)'
      <4>1. CASE c \in DOMAIN tracker.of
          BY <1>2, <3>1, <4>1 DEF FreshInv
      <4>2. CASE c \notin DOMAIN tracker.of
        <5>1. PICK i \in DOMAIN said : c = said[i].id
            BY <2>5, <4>2
        <5>. QED
            BY <2>4, <2>6, <3>1, <4>2, <5>1
      <4>. QED
          BY <4>1, <4>2
    <3>. QED
        BY <2>3, <3>1 DEF FreshInv
  <2>9. PICK row : /\ DOMAIN row = DOMAIN said /\ row = [i \in DOMAIN said |-> row[i]]
                   /\ \A i \in DOMAIN said :
                         row[i] = IF said[i].kind # "speech" THEN said[i]
                                  ELSE [said[i] EXCEPT !.topic = TopicOf(result, said[i])]
                   /\ DOMAIN stims' = DOMAIN stims /\ stims'[tick] = row
                   /\ \A t \in DOMAIN stims \ {tick} : stims'[t] = stims[t]
    <3>. DEFINE row == [i \in DOMAIN said |->
                  IF said[i].kind # "speech" THEN said[i]
                  ELSE [said[i] EXCEPT !.topic = TopicOf(result, said[i])]]
    <3>1. stims' = [stims EXCEPT ![tick] = row]
        BY <2>1, <2>3
    <3>2. /\ DOMAIN row = DOMAIN said
          /\ \A i \in DOMAIN said :
                row[i] = IF said[i].kind # "speech" THEN said[i]
                         ELSE [said[i] EXCEPT !.topic = TopicOf(result, said[i])]
          /\ row = [i \in DOMAIN said |-> row[i]]
        OBVIOUS
    <3>. HIDE DEF row
    <3>. QED
        BY <1>5, <3>1, <3>2
  <2>10. ASSUME NEW i \in DOMAIN said, NEW x, x = row[i] PROVE \A now : now = tick => StimulusOK(x, now)'
    <3>. SUFFICES ASSUME NEW now, now = tick PROVE StimulusOK(x, now)'
        OBVIOUS
    <3>1. PICK old : old = said[i]
        OBVIOUS
    <3>2. StimulusOK(old, now)'
      <4>1. StimulusOK(old, now) /\ now \in Nat
          BY <1>1, <1>5, <3>1
      <4>2. now # tick' \/ old.from \notin Agents \/ old.id \in DOMAIN tracker'.of
          BY <2>3, <2>6, <3>1
      <4>. QED
          BY <2>7, <4>1, <4>2, StimulusStays
    <3>3. CASE old.kind # "speech"
        BY <2>9, <2>10, <3>1, <3>2, <3>3
    <3>4. CASE old.kind = "speech"
      <4>. DEFINE topic == TopicOf(result, old)
      <4>1. x = [old EXCEPT !.topic = topic]
          BY <2>9, <2>10, <3>1, <3>4
      <4>. HIDE DEF topic
      <4>2. "topic" \in DOMAIN old
          BY <3>2 DEF StimulusOK
      <4>3. /\ x.id = old.id /\ x.from = old.from /\ x.tick = old.tick /\ x.kind = old.kind
            /\ x.intensity = old.intensity /\ x.range = old.range /\ x.cause = old.cause
            /\ "topic" \in DOMAIN x /\ x.topic = topic
          BY <4>1, <4>2
      <4>4. x.from \in Agents => Filed(x.id, x.topic)'
        <5>. SUFFICES ASSUME x.from \in Agents PROVE Filed(x.id, x.topic)'
            OBVIOUS
        <5>1. old.id \in DOMAIN result.of
            BY <2>6, <3>1, <4>3
        <5>2. topic = {result.of[old.id]}
            BY <5>1 DEF TopicOf, topic
        <5>3. Said(old.id)'
            BY <3>2, <4>3 DEF StimulusOK, Filed
        <5>. QED
            BY <2>3, <4>3, <5>2, <5>3 DEF Filed
      <4>. QED
          BY <3>2, <4>3, <4>4 DEF StimulusOK
    <3>. QED
        BY <3>3, <3>4
  <2>11. Row(row)
    <3>. DEFINE S == {row[i] : i \in DOMAIN row}
    <3>1. row = [i \in 1..Len(said) |-> row[i]] /\ \A i \in 1..Len(said) : row[i] \in S
        BY <1>6, <2>9
    <3>. HIDE DEF S
    <3>2. row \in Seq(S)
        BY <1>6, <3>1
    <3>. QED
        BY <3>2 DEF Row
  <2>12. ASSUME NEW t \in DOMAIN stims
         PROVE  /\ Row(stims'[t])
                /\ \A j \in DOMAIN stims'[t] : \A x : x = stims'[t][j] => StimulusOK(x, t)'
    <3>1. CASE t = tick
        BY <2>9, <2>10, <2>11, <3>1
    <3>2. CASE t # tick
      <4>1. ASSUME NEW j \in DOMAIN stims[t], NEW x, x = stims[t][j] PROVE StimulusOK(x, t)'
        <5>1. StimulusOK(x, t) /\ t \in Nat /\ t # tick'
            BY <1>1, <3>2, <4>1 DEF StimuliInv
        <5>. QED
            BY <2>7, <5>1, StimulusStays
      <4>. QED
          BY <2>9, <3>2, <4>1 DEF StimuliInv
    <3>. QED
        BY <3>1, <3>2
  <2>13. (\A t \in DOMAIN stims : /\ t \in 1..tick /\ Row(stims[t])
                                  /\ \A j \in DOMAIN stims[t] : StimulusOK(stims[t][j], t))'
    <3>. SUFFICES ASSUME NEW t \in DOMAIN stims'
                  PROVE  /\ t \in 1..tick' /\ Row(stims'[t])
                         /\ \A j \in DOMAIN stims'[t] : \A x : x = stims'[t][j] => StimulusOK(x, t)'
        BY DEF StimulusOK, Filed, Follows, Said
    <3>. QED
        BY <1>1, <2>9, <2>12 DEF StimuliInv
  <2>14. StimuliInv'
      BY <1>1, <2>13 DEF StimuliInv
  <2>15. (Listed(tracker) /\ Indexed(tracker))'
      BY <2>3, <2>5 DEF Listed, Indexed, Tracks
  <2>. QED
      BY <1>3, <2>8, <2>14, <2>15
<1>. QED
    BY <1>7, <1>8

\* Whatever leaves the tracker, the bus and the minds alone keeps the threads.
LEMMA StillFollows ==
    ASSUME ThreadInv, tick \in Nat, UNCHANGED <<mode, tick, stage, tracker, stims, agent>>, SpotsInv'
    PROVE  ThreadInv'
<1>. USE DEF ThreadInv
<1>1. \A c : Said(c) => Said(c)'
    BY DEF Said
<1>2. Keeps
    BY <1>1 DEF Keeps
<1>3. HeldInv'
    BY <1>2, MindStays DEF HeldInv
<1>4. ASSUME NEW t \in DOMAIN stims, NEW j \in DOMAIN stims[t], NEW x, x = stims[t][j]
      PROVE  StimulusOK(x, t)'
  <2>1. StimulusOK(x, t) /\ t \in Nat
      BY <1>4 DEF StimuliInv
  <2>2. t # tick' \/ x.from \notin Agents \/ x.id \in DOMAIN tracker'.of
      BY <2>1 DEF StimulusOK
  <2>. QED
      BY <1>2, <2>1, <2>2, StimulusStays
<1>5. (\A t \in DOMAIN stims : \A j \in DOMAIN stims[t] : StimulusOK(stims[t][j], t))'
  <2>. SUFFICES ASSUME NEW t \in DOMAIN stims', NEW j \in DOMAIN stims'[t], NEW x, x = stims'[t][j]
                PROVE  StimulusOK(x, t)'
      BY DEF StimulusOK, Filed, Follows, Said
  <2>. QED
      BY <1>4
<1>6. StimuliInv'
  <2>1. (\A t \in DOMAIN stims : t \in 1..tick /\ Row(stims[t]))'
        /\ (stage # "closed" => tick \in DOMAIN stims)'
      BY DEF StimuliInv
  <2>. QED
      BY <1>5, <2>1 DEF StimuliInv
<1>7. (Listed(tracker) /\ Indexed(tracker))' /\ FreshInv'
    BY <1>1 DEF FreshInv, Listed, Indexed, Tracks
<1>. QED
    BY <1>3, <1>6, <1>7

\* Every step keeps the threads.
LEMMA ThreadStep ==
    ASSUME Inv, ThreadInv, [Next]_vars
    PROVE  ThreadInv'
<1>0. tick \in Nat
    BY DEF Inv, Types
<1>1. CASE OpenTick
    BY <1>1, OpenFollows
<1>2. CASE Activate
    BY <1>2, ActivateFollows
<1>3. CASE CloseTick
    BY <1>3, CloseFollows
<1>4. ASSUME NEW a \in Agents, Step(a) PROVE ThreadInv'
    BY <1>4, AgentsFollow
<1>5. ASSUME NEW a \in Agents, Move(a) PROVE ThreadInv'
  <2>1. PICK place \in mode.reach : where' = [where EXCEPT ![a] = place]
      BY <1>5 DEF Move
  <2>2. place \in Int
      BY NumbersAssumption DEF Inv, Types
  <2>3. DOMAIN where' = DOMAIN where /\ \A x \in DOMAIN where : where'[x] = where[x] \/ where'[x] = place
      BY <2>1
  <2>4. SpotsInv'
      BY <2>2, <2>3 DEF ThreadInv, SpotsInv
  <2>5. UNCHANGED <<mode, tick, stage, tracker, stims, agent>>
      BY <1>5 DEF Move, mediaVars, mindVars
  <2>. QED
      BY <1>0, <2>4, <2>5, StillFollows
<1>6. CASE UNCHANGED vars
  <2>1. UNCHANGED <<mode, tick, stage, where, tracker, stims, agent>>
      BY <1>6 DEF vars, worldVars, mediaVars, mindVars
  <2>2. SpotsInv'
      BY <2>1 DEF ThreadInv, SpotsInv
  <2>. QED
      BY <1>0, <2>1, <2>2, StillFollows
<1>. QED
    BY <1>1, <1>2, <1>3, <1>4, <1>5, <1>6 DEF Next

\* The two maps of the tracker always agree, and an answer stays in the topic of the words that
\* it answers as long as that is tracked, however topics expire and are reopened and however the
\* agents of a tick interleave, unless the model named a topic or the words itself.
THEOREM AnswersKeepTheirThread == Spec => []AnswersStayInTheThread
<1>1. ThreadInv => AnswersStayInTheThread
  <2>. SUFFICES ASSUME ThreadInv PROVE AnswersStayInTheThread
      OBVIOUS
  <2>1. \A id \in DOMAIN tracker.topics : \A s \in Range(tracker.topics[id].stims) :
           s \in DOMAIN tracker.of /\ tracker.of[s] = id
      BY DEF ThreadInv, Listed
  <2>2. \A s \in DOMAIN tracker.of :
           Tracks(tracker, tracker.of[s]) /\ s \in Range(tracker.topics[tracker.of[s]].stims)
      BY DEF ThreadInv, Indexed
  <2>3. ASSUME NEW t \in DOMAIN stims, NEW i \in DOMAIN stims[t],
               NEW c \in stims[t][i].cause \ Nameable("cause"),
               {stims[t][i].id, c} \subseteq DOMAIN tracker.of, c[1] \in Agents,
               tracker.of[stims[t][i].id] \notin Nameable("topic")
        PROVE  tracker.of[stims[t][i].id] = tracker.of[c]
    <3>1. StimulusOK(stims[t][i], t)
        BY DEF ThreadInv, StimuliInv
    <3>. QED
        BY <2>3, <3>1 DEF StimulusOK, Follows
  <2>. QED
      BY <2>1, <2>2, <2>3 DEF AnswersStayInTheThread
<1>2. Inv /\ ThreadInv /\ [Next]_vars => ThreadInv'
    BY ThreadStep
<1>. QED
    BY <1>1, <1>2, InvInit, InvStep, ThreadsStart, PTL DEF Spec
=============================================================================
