------------------------- MODULE Conversations_proof -------------------------
(***************************************************************************)
(* Theorems about Conversations, for every set of agents, every participant   *)
(* list, threshold and limit, and any number of ticks and conversations.     *)
(***************************************************************************)
EXTENDS Conversations, WellFoundedInduction, TLAPS

Before == {ss \in Nat \X Nat : ss[1] < ss[2]}

\* A participant has a first place in the list.
LEMMA FirstIndexType ==
    ASSUME NEW people \in Seq(Agents), NEW a, NEW k \in DOMAIN people, people[k] = a
    PROVE  /\ FirstIndex(people, a) \in DOMAIN people
           /\ people[FirstIndex(people, a)] = a
<1>. DEFINE Places == {i \in DOMAIN people : people[i] = a}
<1>1. IsWellFoundedOn(Before, Nat)
    BY NatLessThanWellFounded DEF OpToRel, Before
<1>2. Places \subseteq Nat /\ k \in Places
    OBVIOUS
<1>3. PICK i \in Places : \A j \in Places : ~(<<j, i>> \in Before)
    BY <1>1, <1>2, WFMin
<1>4. \A j \in Places : ~(j < i)
    BY <1>2, <1>3 DEF Before
<1>5. i \in DOMAIN people /\ people[i] = a /\ \A j \in 1..(i - 1) : people[j] # a
    BY <1>4
<1>. QED
    BY <1>5 DEF FirstIndex

LEMMA NextSpeakerTakesPart ==
    ASSUME NEW people \in Seq(Agents), NEW a, NEW k \in DOMAIN people, people[k] = a
    PROVE  \E i \in DOMAIN people : people[i] = NextSpeaker(people, a)
<1>. DEFINE f == FirstIndex(people, a)
<1>1. f \in DOMAIN people
    BY FirstIndexType
<1>2. f \in Nat /\ Len(people) \in Nat /\ Len(people) > 0
    BY <1>1
<1>3. (f % Len(people)) \in 0..(Len(people) - 1)
    BY <1>2
<1>4. (f % Len(people)) + 1 \in DOMAIN people
    BY <1>2, <1>3
<1>. QED
    BY <1>4 DEF NextSpeaker

-----------------------------------------------------------------------------
(***************************************************************************)
(* Type correctness needs to know that the speaker is a participant, else the *)
(* next index of the round robin is that of nobody; MembershipIsLive is needed *)
(* because an agent's entry is the id with which its turns are passed on.     *)
(***************************************************************************)
SpeakerTakesPart == \A c \in Active : conv[c].speaker \in People(c)

ManagerOK ==
    /\ conv \in [Ids -> Conversation]
    /\ member \in [Agents -> Ids \cup {None}]

ManagerInv == ManagerOK /\ SpeakerTakesPart /\ MembershipIsLive

\* What every step leaves as it is that starts no conversation.
Shrinks ==
    /\ Active' \subseteq Active
    /\ \A d \in Active' : /\ conv'[d].people = conv[d].people
                          /\ conv'[d].kind = conv[d].kind
                          /\ conv'[d].start = conv[d].start
                          /\ conv'[d].turn >= conv[d].turn
    /\ \A b \in Agents : member[b] \in Active' => member'[b] = member[b]

LEMMA Started ==
    ASSUME ManagerOK, NEW c \in Ids, NEW people, NEW kind, NEW limit,
           StartConversation(c, people, kind, limit)
    PROVE  /\ Active' = Active \cup {c} /\ c \notin Active
           /\ \A d \in Ids \ {c} : conv'[d] = conv[d]
           /\ conv'[c] = [status |-> "active", people |-> people, speaker |-> people[1],
                          turn |-> 0, start |-> tick, kind |-> kind, limit |-> limit]
           /\ conv'[c].people = people /\ conv'[c].kind = kind
           /\ conv'[c].start = tick /\ conv'[c].turn = 0
<1>1. /\ \A d \in Ids \ {c} : conv'[d] = conv[d]
      /\ conv'[c] = [status |-> "active", people |-> people, speaker |-> people[1],
                     turn |-> 0, start |-> tick, kind |-> kind, limit |-> limit]
    BY DEF StartConversation, ManagerOK
<1>2. conv'[c].status = "active" /\ conv[c].status # "active"
    BY <1>1 DEF StartConversation, Fresh
<1>3. /\ conv'[c].people = people /\ conv'[c].kind = kind
      /\ conv'[c].start = tick /\ conv'[c].turn = 0
    BY <1>1
<1>. QED
    BY <1>1, <1>2, <1>3 DEF Active

LEMMA StartKeeps ==
    ASSUME ManagerInv, tick \in Nat, NEW c \in Ids, NEW people \in Seq(Agents),
           people # <<>>, NEW kind \in {"call", "talk"}, NEW limit \in Nat,
           StartConversation(c, people, kind, limit)
    PROVE  ManagerInv'
<1>. DEFINE new == [status |-> "active", people |-> people, speaker |-> people[1],
                    turn |-> 0, start |-> tick, kind |-> kind, limit |-> limit]
<1>1. 1 \in DOMAIN people /\ people[1] \in Agents
    OBVIOUS
<1>2. new \in Conversation
    BY <1>1 DEF Conversation, Status
<1>3. conv' = [conv EXCEPT ![c] = new]
    BY DEF StartConversation
<1>4. ManagerOK'
    BY <1>2, <1>3 DEF StartConversation, ManagerInv, ManagerOK
<1>5. Active' = Active \cup {c} /\ c \notin Active
    BY Started DEF ManagerInv
<1>6. \A d \in Ids \ {c} : conv'[d] = conv[d]
    BY Started DEF ManagerInv
<1>7. conv'[c] = new
    BY Started DEF ManagerInv
<1>8. SpeakerTakesPart'
  <2>1. people[1] \in {people[i] : i \in DOMAIN people}
      BY <1>1
  <2>2. conv'[c].speaker \in People(c)'
      BY <2>1, <1>7 DEF People
  <2>3. \A d \in Active : conv'[d].speaker \in People(d)'
      BY <1>5, <1>6 DEF SpeakerTakesPart, People, Active, ManagerInv
  <2>. QED
      BY <2>2, <2>3, <1>5 DEF SpeakerTakesPart
<1>9. MembershipIsLive'
  <2>. SUFFICES ASSUME NEW a \in Agents, member'[a] # None
                PROVE  (member[a] \in Active /\ a \in People(member[a]))'
      BY DEF MembershipIsLive
  <2>1. CASE \E i \in DOMAIN people : people[i] = a
    <3>1. member'[a] = c
        BY <2>1 DEF StartConversation
    <3>. QED
        BY <2>1, <3>1, <1>5, <1>7 DEF People
  <2>2. CASE ~\E i \in DOMAIN people : people[i] = a
    <3>1. member'[a] = member[a]
        BY <2>2 DEF StartConversation
    <3>2. member[a] \in Active /\ a \in People(member[a])
        BY <3>1 DEF ManagerInv, MembershipIsLive
    <3>. QED
        BY <3>1, <3>2, <1>5, <1>6 DEF People, Active
  <2>. QED
      BY <2>1, <2>2
<1>. QED
    BY <1>4, <1>8, <1>9 DEF ManagerInv

\* The status of c becomes "ended" or "gone" and its people are freed; the other
\* conversations are not touched.
LEMMA ClosingKeeps ==
    ASSUME ManagerInv, NEW old \in SUBSET Ids,
           conv' \in [Ids -> Conversation],
           \A c \in Ids \ old : conv'[c] = conv[c],
           \A c \in old : conv'[c].status \in {"ended", "gone"},
           member' = [a \in Agents |-> IF member[a] \in old /\ a \in People(member[a])
                                       THEN None ELSE member[a]]
    PROVE  ManagerInv' /\ Active' = Active \ old /\ Shrinks
<1>1. member' \in [Agents -> Ids \cup {None}]
    BY DEF ManagerInv, ManagerOK
<1>2. Active' = Active \ old
    BY DEF Active
<1>3. SpeakerTakesPart'
    BY <1>2 DEF SpeakerTakesPart, People, Active, ManagerInv
<1>4. MembershipIsLive'
  <2>. SUFFICES ASSUME NEW a \in Agents, member'[a] # None
                PROVE  (member[a] \in Active /\ a \in People(member[a]))'
      BY DEF MembershipIsLive
  <2>1. member'[a] = member[a] /\ member[a] \in Active /\ a \in People(member[a])
      BY DEF ManagerInv, MembershipIsLive
  <2>2. member[a] \notin old
      BY <2>1
  <2>. QED
      BY <2>1, <2>2, <1>2 DEF People, Active
<1>5. ManagerInv'
    BY <1>1, <1>3, <1>4 DEF ManagerInv, ManagerOK
<1>6. \A d \in Active' : conv'[d] = conv[d] /\ conv[d].turn \in Nat
    BY <1>2 DEF Active, ManagerInv, ManagerOK, Conversation
<1>7. \A b \in Agents : member[b] \in Active' => member'[b] = member[b]
    BY <1>2
<1>8. \A n \in Nat : n >= n
    OBVIOUS
<1>. QED
    BY <1>2, <1>5, <1>6, <1>7, <1>8 DEF Shrinks

LEMMA EndKeeps ==
    ASSUME ManagerInv, NEW c \in Active, EndConversation(c)
    PROVE  ManagerInv' /\ Shrinks
<1>1. c \in Ids /\ conv' = [conv EXCEPT ![c].status = "ended"]
    BY DEF EndConversation, Active
<1>2. conv' \in [Ids -> Conversation] /\ conv'[c].status = "ended"
    BY <1>1 DEF ManagerInv, ManagerOK, Conversation, Status
<1>3. member' = [a \in Agents |-> IF member[a] \in {c} /\ a \in People(member[a])
                                 THEN None ELSE member[a]]
    BY DEF EndConversation, Freed
<1>4. \A d \in Ids \ {c} : conv'[d] = conv[d]
    BY <1>1 DEF ManagerInv, ManagerOK
<1>5. {c} \in SUBSET Ids /\ \A d \in {c} : conv'[d].status \in {"ended", "gone"}
    BY <1>1, <1>2
<1>. HIDE DEF ManagerInv
<1>. QED
    BY <1>2, <1>3, <1>4, <1>5, ClosingKeeps

LEMMA CleanupKeeps ==
    ASSUME ManagerInv, NEW now \in Nat, TickCleanup(now)
    PROVE  ManagerInv' /\ Shrinks /\ \A c \in Active' : ~Stale(c, now)
<1>. DEFINE old == {c \in Ids : conv[c].status = "ended"} \cup {c \in Active : Stale(c, now)}
<1>1. old \in SUBSET Ids
    BY DEF Active
<1>2. conv' = [c \in Ids |-> IF c \in old THEN [conv[c] EXCEPT !.status = "gone"] ELSE conv[c]]
    BY DEF TickCleanup
<1>3. conv' \in [Ids -> Conversation]
  <2>1. \A c \in Ids : [conv[c] EXCEPT !.status = "gone"] \in Conversation
      BY DEF ManagerInv, ManagerOK, Conversation, Status
  <2>. QED
      BY <1>2, <2>1 DEF ManagerInv, ManagerOK
<1>4. \A c \in old : conv'[c].status = "gone"
    BY <1>1, <1>2 DEF ManagerInv, ManagerOK, Conversation
<1>5. member' = [a \in Agents |-> IF member[a] \in old /\ a \in People(member[a])
                                  THEN None ELSE member[a]]
    BY DEF TickCleanup
<1>6. ManagerInv' /\ Shrinks /\ Active' = Active \ old
    BY <1>1, <1>2, <1>3, <1>4, <1>5, ClosingKeeps
<1>. QED
    BY <1>6 DEF Active

\* A turn is passed on, or the last one taken, by its holder; nobody else moves
\* anything.
LEMMA AdvanceKeeps ==
    ASSUME ManagerInv, tick \in Nat, NEW c \in Ids \cup {None}, NEW a,
           AdvanceTurn(c, a)
    PROVE  ManagerInv' /\ Shrinks
<1>1. CASE ~MayAdvance(c, a)
  <2>1. UNCHANGED managerVars
      BY <1>1 DEF AdvanceTurn
  <2>2. ManagerInv' /\ Active' = Active
      BY <2>1 DEF managerVars, ManagerInv, ManagerOK, SpeakerTakesPart,
                  MembershipIsLive, Active, People
  <2>3. \A d \in Active : conv[d].turn \in Nat
      BY DEF Active, ManagerInv, ManagerOK, Conversation
  <2>. QED
      BY <2>1, <2>2, <2>3 DEF managerVars, Active, Shrinks
<1>2. CASE MayAdvance(c, a)
  <2>1. c \in Active /\ c \in Ids /\ conv[c].speaker = a /\ conv[c] \in Conversation
      BY <1>2 DEF MayAdvance, Active, ManagerInv, ManagerOK
  <2>2. PICK k \in DOMAIN conv[c].people : conv[c].people[k] = a
      BY <2>1 DEF SpeakerTakesPart, People, ManagerInv
  <2>3. CASE ~LastTurn(c)
    <3>. DEFINE next == NextSpeaker(conv[c].people, a)
    <3>. DEFINE new == [conv[c] EXCEPT !.turn = conv[c].turn + 1, !.speaker = next]
    <3>1. conv' = [conv EXCEPT ![c] = new] /\ member' = member
        BY <1>2, <2>3 DEF AdvanceTurn
    <3>2. conv[c].people \in Seq(Agents)
        BY <2>1 DEF Conversation
    <3>3. PICK i \in DOMAIN conv[c].people : conv[c].people[i] = next
        BY <2>2, <3>2, NextSpeakerTakesPart
    <3>4. next \in Agents
        BY <3>2, <3>3
    <3>. HIDE DEF next
    <3>5. new \in Conversation
      <4>1. conv[c].turn + 1 \in Nat
          BY <2>1 DEF Conversation
      <4>. QED
          BY <2>1, <3>4, <4>1 DEF Conversation
    <3>6. /\ new.speaker = next /\ new.people = conv[c].people
          /\ new.status = conv[c].status /\ new.kind = conv[c].kind
          /\ new.start = conv[c].start /\ new.turn = conv[c].turn + 1
        BY <2>1 DEF Conversation
    <3>. HIDE DEF new
    <3>7. /\ conv'[c] = new
          /\ \A d \in Ids \ {c} : conv'[d] = conv[d]
          /\ conv' \in [Ids -> Conversation]
        BY <2>1, <3>1, <3>5 DEF ManagerInv, ManagerOK
    <3>8. Active' = Active
        BY <2>1, <3>6, <3>7 DEF Active
    <3>9. \A d \in Ids : conv'[d].people = conv[d].people
        BY <3>6, <3>7
    <3>10. ManagerOK'
        BY <3>1, <3>7 DEF ManagerInv, ManagerOK
    <3>11. SpeakerTakesPart'
      <4>1. conv'[c].speaker \in People(c)'
          BY <3>3, <3>6, <3>7 DEF People
      <4>2. \A d \in Active \ {c} : conv'[d].speaker \in People(d)'
          BY <3>7 DEF SpeakerTakesPart, People, Active, ManagerInv
      <4>. QED
          BY <3>8, <4>1, <4>2 DEF SpeakerTakesPart
    <3>12. MembershipIsLive'
        BY <3>1, <3>8, <3>9 DEF MembershipIsLive, ManagerInv, ManagerOK, People, Active
    <3>13. conv[c].turn \in Nat /\ \A d \in Ids : conv[d].turn \in Nat
        BY <2>1 DEF ManagerInv, ManagerOK, Conversation
    <3>14. \A d \in Active : conv'[d].turn >= conv[d].turn
        BY <3>6, <3>7, <3>13 DEF Active
    <3>15. \A d \in Active : conv'[d].kind = conv[d].kind /\ conv'[d].start = conv[d].start
        BY <3>6, <3>7 DEF Active
    <3>. QED
        BY <3>1, <3>8, <3>9, <3>10, <3>11, <3>12, <3>14, <3>15 DEF ManagerInv, Active, Shrinks
  <2>4. CASE LastTurn(c)
    <3>. DEFINE new == [conv[c] EXCEPT !.turn = conv[c].turn + 1, !.status = "ended"]
    <3>1. conv' = [conv EXCEPT ![c] = new] /\ member' = Freed(c)
        BY <1>2, <2>4 DEF AdvanceTurn
    <3>2. new \in Conversation
      <4>1. conv[c].turn + 1 \in Nat
          BY <2>1 DEF Conversation
      <4>. QED
          BY <2>1, <4>1 DEF Conversation, Status
    <3>3. /\ new.people = conv[c].people /\ new.kind = conv[c].kind
          /\ new.status = "ended"
          /\ new.start = conv[c].start /\ new.turn = conv[c].turn + 1
        BY <2>1 DEF Conversation
    <3>. HIDE DEF new
    <3>4. /\ conv'[c] = new
          /\ \A d \in Ids \ {c} : conv'[d] = conv[d]
          /\ conv' \in [Ids -> Conversation]
        BY <2>1, <3>1, <3>2 DEF ManagerInv, ManagerOK
    <3>5. member' = [b \in Agents |-> IF member[b] \in {c} /\ b \in People(member[b])
                                     THEN None ELSE member[b]]
        BY <3>1 DEF Freed
    <3>. QED
        BY <2>1, <3>3, <3>4, <3>5, ClosingKeeps
  <2>. QED
      BY <2>3, <2>4
<1>. QED
    BY <1>1, <1>2

-----------------------------------------------------------------------------
(***************************************************************************)
(* What a step of the system does to the conversations.                      *)
(***************************************************************************)
Inv == TypeOK /\ SpeakerTakesPart /\ MembershipIsLive

HostStarts ==
    \E c \in Ids, people \in Groups : StartConversation(c, people, "talk", 0)
CallStarts ==
    \E c \in Ids, a, b \in Agents, limit \in Nat : a # b /\ StartCall(c, a, b, limit)
Ends == \E c \in Active : EndConversation(c)
Advances == \E c \in Ids \cup {None}, a \in Agents : AdvanceTurn(c, a)

LEMMA KindsOfStep ==
    ASSUME Inv, Next
    PROVE  \/ tick' = tick /\ (HostStarts \/ CallStarts \/ Ends \/ Advances
                                \/ UNCHANGED managerVars)
           \/ tick' = tick + 1 /\ TickCleanup(tick + 1)
<1>. USE DEF Inv
<1>1. \A a \in Agents : Looked(a) = member
    BY DEF Looked, InConversation, MembershipIsLive, TypeOK
<1>2. CASE TickStart
    BY <1>2 DEF TickStart
<1>3. CASE HostConverses
    BY <1>3 DEF HostConverses, HostStarts
<1>4. CASE HostCalls
    BY <1>4, ConversationAssumption DEF HostCalls, CallStarts
<1>5. CASE HostEnds
    BY <1>5 DEF HostEnds, Ends
<1>6. ASSUME NEW a \in Agents, AgentStep(a)
      PROVE  tick' = tick /\ (CallStarts \/ Ends \/ Advances \/ UNCHANGED managerVars)
  <2>1. CASE BeginIteration(a) \/ Route(a)
      BY <1>1, <2>1 DEF BeginIteration, Route, managerVars
  <2>2. CASE EndIterations(a) \/ AgentFails(a) \/ SpeakBegin(a) \/ SpeakFails(a)
      BY <2>2 DEF EndIterations, AgentFails, SpeakBegin, SpeakFails
  <2>3. CASE \E b \in Agents : Dial(a, b)
      BY <2>3 DEF Dial, CallStarts
  <2>4. CASE SpeakEnd(a)
      BY <2>4 DEF SpeakEnd, Advances, TypeOK
  <2>5. CASE HangUp(a)
      BY <2>5 DEF HangUp, Ends, ActiveCalls
  <2>6. CASE AfterRoute(a)
      BY <1>1, <2>6 DEF AfterRoute, Advances, TypeOK, managerVars
  <2>. QED
      BY <1>6, <2>1, <2>2, <2>3, <2>4, <2>5, <2>6 DEF AgentStep
<1>. QED
    BY <1>2, <1>3, <1>4, <1>5, <1>6 DEF Next

LEMMA ManagerStep ==
    ASSUME Inv, [Next]_vars
    PROVE  /\ ManagerInv'
           /\ \/ tick' = tick /\ (HostStarts \/ CallStarts \/ Shrinks)
              \/ tick' = tick + 1 /\ Shrinks /\ \A c \in Active' : ~Stale(c, tick + 1)
<1>. USE DEF Inv
<1>1. ManagerInv /\ tick \in Nat
    BY DEF ManagerInv, ManagerOK, TypeOK
<1>2. CASE tick' = tick /\ UNCHANGED managerVars
  <2>1. ManagerInv'
      BY <1>1, <1>2 DEF managerVars, ManagerInv, ManagerOK, SpeakerTakesPart,
                        MembershipIsLive, Active, People
  <2>2. \A d \in Active : conv[d].turn \in Nat
      BY <1>1 DEF Active, ManagerInv, ManagerOK, Conversation
  <2>3. Shrinks
      BY <1>2, <2>2 DEF managerVars, Active, Shrinks
  <2>. QED
      BY <1>2, <2>1, <2>3
<1>3. CASE tick' = tick /\ HostStarts
    BY <1>1, <1>3, StartKeeps, ConversationAssumption DEF HostStarts
<1>4. CASE tick' = tick /\ CallStarts
  <2>1. PICK c \in Ids, a \in Agents, b \in Agents, limit \in Nat :
            StartConversation(c, <<a, b>>, "call", limit)
      BY <1>4 DEF CallStarts, StartCall
  <2>2. <<a, b>> \in Seq(Agents) /\ <<a, b>> # <<>>
      OBVIOUS
  <2>. QED
      BY <1>1, <1>4, <2>1, <2>2, StartKeeps
<1>5. CASE tick' = tick /\ Ends
    BY <1>1, <1>5, EndKeeps DEF Ends
<1>6. CASE tick' = tick /\ Advances
    BY <1>1, <1>6, AdvanceKeeps DEF Advances
<1>7. CASE tick' = tick + 1 /\ TickCleanup(tick + 1)
    BY <1>1, <1>7, CleanupKeeps
<1>8. CASE UNCHANGED vars
    BY <1>2, <1>8 DEF vars
<1>. QED
    BY <1>2, <1>3, <1>4, <1>5, <1>6, <1>7, <1>8, KindsOfStep

-----------------------------------------------------------------------------
LEMMA InvInit == Init => Inv
<1>. SUFFICES ASSUME Init PROVE Inv
    OBVIOUS
<1>. USE DEF Init
<1>1. Unused \in Conversation
    BY DEF Unused, Conversation, Status
<1>2. TypeOK
    BY <1>1, ConversationAssumption DEF TypeOK, AgentPc
<1>3. Active = {}
    BY DEF Active, Unused
<1>4. SpeakerTakesPart /\ MembershipIsLive
    BY <1>3 DEF SpeakerTakesPart, MembershipIsLive
<1>. QED
    BY <1>2, <1>4 DEF Inv

\* The variables outside the manager.
LEMMA AgentsTyped ==
    ASSUME TypeOK, [Next]_vars
    PROVE  /\ tick' \in Nat
           /\ pc' \in [Agents -> AgentPc]
           /\ step' \in [Agents -> 0..Iterations]
           /\ spoken' \in [Agents -> 0..Lines]
           /\ held' \in [Agents -> Ids \cup {None}]
<1>. USE ConversationAssumption DEF TypeOK, AgentPc
<1>0. 0 \in 0..Iterations /\ 0 \in 0..Lines
    OBVIOUS
<1>1. CASE TickStart
    BY <1>1 DEF TickStart
<1>2. CASE HostConverses \/ HostCalls \/ HostEnds
    BY <1>2 DEF HostConverses, HostCalls, HostEnds, agentVars
<1>3. ASSUME NEW a \in Agents, AgentStep(a)
      PROVE  /\ tick' \in Nat
               /\ pc' \in [Agents -> AgentPc]
             /\ step' \in [Agents -> 0..Iterations]
             /\ spoken' \in [Agents -> 0..Lines]
             /\ held' \in [Agents -> Ids \cup {None}]
  <2>1. CASE BeginIteration(a)
      BY <2>1 DEF BeginIteration, MayBegin
  <2>2. CASE EndIterations(a) \/ AgentFails(a)
    <3>1. Leave(a) /\ UNCHANGED <<tick, held>>
        BY <2>2 DEF EndIterations, AgentFails
    <3>. QED
        BY <1>0, <3>1 DEF Leave
  <2>3. CASE \E b \in Agents : Dial(a, b)
      BY <2>3 DEF Dial, agentVars
  <2>4. CASE SpeakBegin(a)
      BY <2>4 DEF SpeakBegin
  <2>5. CASE SpeakEnd(a) \/ SpeakFails(a)
      BY <2>5 DEF SpeakEnd, SpeakFails
  <2>6. CASE HangUp(a)
      BY <2>6 DEF HangUp, agentVars
  <2>7. CASE Route(a) \/ AfterRoute(a)
      BY <1>0, <2>7 DEF Route, AfterRoute
  <2>. QED
      BY <1>3, <2>1, <2>2, <2>3, <2>4, <2>5, <2>6, <2>7 DEF AgentStep
<1>4. CASE UNCHANGED vars
    BY <1>4 DEF vars, agentVars
<1>. QED
    BY <1>1, <1>2, <1>3, <1>4 DEF Next

\* The inductive invariant; the theorems below build on it.
THEOREM Invariance == Spec => []Inv
<1>1. Inv /\ [Next]_vars => Inv'
  <2>. SUFFICES ASSUME Inv, [Next]_vars PROVE Inv'
      OBVIOUS
  <2>1. ManagerInv'
      BY ManagerStep
  <2>. QED
      BY <2>1, AgentsTyped DEF Inv, ManagerInv, ManagerOK, TypeOK
<1>. QED
    BY <1>1, InvInit, PTL DEF Spec

\* Type correctness: the round robin never leaves the list of participants.
THEOREM TypeCorrect == Spec => []TypeOK
BY Invariance, PTL DEF Inv

\* Nobody is silenced, or kept busy, by a conversation that is over: the entry of
\* agentConversations is deleted together with the conversation it leads to.
THEOREM MembershipHolds == Spec => []MembershipIsLive
BY Invariance, PTL DEF Inv

\* A conversation is never older than its turns and the threshold allow.
THEOREM StaleBounded == Spec => []StaleBound
<1>1. Init => StaleBound
    BY DEF Init, StaleBound, Active, Unused
<1>2. Inv /\ StaleBound /\ [Next]_vars => StaleBound'
  <2>. SUFFICES ASSUME Inv, StaleBound, [Next]_vars, NEW c \in Active'
                PROVE  tick' - conv'[c].start <= conv'[c].turn + StaleThreshold
      BY DEF StaleBound
  <2>1. /\ tick \in Nat /\ StaleThreshold \in Nat
        /\ \A d \in Active : conv[d].turn \in Nat /\ conv[d].start \in Nat
      BY ConversationAssumption DEF Inv, TypeOK, Conversation, Active
  <2>2. /\ conv'[c].turn \in Nat /\ conv'[c].start \in Nat
      BY ManagerStep DEF ManagerInv, ManagerOK, Conversation, Active
  <2>3. CASE tick' = tick /\ (HostStarts \/ CallStarts)
    <3>1. PICK d, people, kind, limit : d \in Ids /\ StartConversation(d, people, kind, limit)
        BY <2>3 DEF HostStarts, CallStarts, StartCall
    <3>2. /\ Active' = Active \cup {d}
          /\ \A e \in Ids \ {d} : conv'[e] = conv[e]
          /\ conv'[d].start = tick /\ conv'[d].turn = 0
      <4>1. ManagerOK
          BY DEF Inv, TypeOK, ManagerOK
      <4>. QED
          BY <3>1, <4>1, Started
    <3>3. CASE c = d
        BY <2>1, <2>3, <3>2, <3>3
    <3>4. CASE c # d
        BY <2>3, <3>2, <3>4 DEF StaleBound, Active
    <3>. QED
        BY <3>3, <3>4
  <2>4. CASE tick' = tick /\ Shrinks
    <3>1. /\ tick - conv[c].start <= conv[c].turn + StaleThreshold
          /\ conv'[c].start = conv[c].start /\ conv'[c].turn >= conv[c].turn
          /\ conv[c].turn \in Nat
        BY <2>1, <2>4 DEF Shrinks, StaleBound
    <3>. QED
        BY <2>1, <2>2, <2>4, <3>1
  <2>5. CASE tick' = tick + 1 /\ Shrinks /\ \A d \in Active' : ~Stale(d, tick + 1)
    <3>1. /\ ~(tick + 1 - conv[c].start - conv[c].turn > StaleThreshold)
          /\ conv'[c].start = conv[c].start /\ conv'[c].turn >= conv[c].turn
          /\ conv[c].turn \in Nat /\ conv[c].start \in Nat
        BY <2>1, <2>5 DEF Shrinks, Stale
    <3>. QED
        BY <2>1, <2>2, <2>5, <3>1
  <2>. QED
      BY <2>3, <2>4, <2>5, ManagerStep
<1>. QED
    BY <1>1, <1>2, Invariance, PTL DEF Spec

-----------------------------------------------------------------------------
(***************************************************************************)
(* The exchange.  As long as the host starts no conversation between more     *)
(* than two agents of its own, every conversation is a call, and whoever is    *)
(* in an active one has it as its entry: that is why the two look-ups of       *)
(* startCall find every agent that is on a line.                             *)
(***************************************************************************)
IsCall(c) ==
    /\ conv[c].kind = "call"
    /\ \E a, b \in Agents : a # b /\ conv[c].people = <<a, b>>
    /\ \A b \in People(c) \cap Agents : member[b] = c

CallsOnly == \A c \in Active : IsCall(c)

\* The two ends of a line.
LEMMA PeopleOfCall ==
    ASSUME NEW c, NEW a, NEW b, conv[c].people = <<a, b>>
    PROVE  People(c) = {a, b}
<1>1. DOMAIN <<a, b>> = {1, 2}
    OBVIOUS
<1>. QED
    BY <1>1 DEF People

LEMMA CallsOnlyStep ==
    ASSUME Groups = {}, Inv, CallsOnly, [Next]_vars
    PROVE  CallsOnly' /\ [Exchange!Next]_({People(c) : c \in ActiveCalls})
<1>. DEFINE lines == {People(c) : c \in ActiveCalls}
<1>0. ManagerOK
    BY DEF Inv, TypeOK, ManagerOK
<1>1. ActiveCalls = Active
    BY DEF ActiveCalls, CallsOnly, IsCall
<1>2. CASE CallStarts
  <2>1. PICK c \in Ids, a \in Agents, b \in Agents, limit \in Nat :
            a # b /\ StartCall(c, a, b, limit)
      BY <1>2 DEF CallStarts
  <2>2. /\ member[a] = None /\ member[b] = None
        /\ StartConversation(c, <<a, b>>, "call", limit)
      BY <2>1 DEF StartCall, Busy
  <2>3. /\ Active' = Active \cup {c} /\ c \notin Active
        /\ \A d \in Ids \ {c} : conv'[d] = conv[d]
        /\ conv'[c].people = <<a, b>> /\ conv'[c].kind = "call"
      BY <1>0, <2>2, Started
  <2>4. People(c)' = {a, b}
    <3>1. DOMAIN <<a, b>> = {1, 2}
        OBVIOUS
    <3>. QED
        BY <2>3, <3>1 DEF People
  <2>5. \A d \in Active : d \in Ids /\ d # None /\ d # c /\ conv'[d] = conv[d]
                           /\ People(d)' = People(d)
      BY <2>3, ConversationAssumption DEF Active, People, None
  <2>6. \A d \in Active : a \notin People(d) /\ b \notin People(d)
      BY <2>2, <2>5 DEF CallsOnly, IsCall
  <2>7. member'[a] = c /\ member'[b] = c
    <3>1. DOMAIN <<a, b>> = {1, 2} /\ <<a, b>>[1] = a /\ <<a, b>>[2] = b
        OBVIOUS
    <3>. QED
        BY <2>2, <3>1 DEF StartConversation
  <2>8. \A e \in Agents \ {a, b} : member'[e] = member[e]
    <3>1. \A i \in DOMAIN <<a, b>> : <<a, b>>[i] \in {a, b}
        OBVIOUS
    <3>. QED
        BY <2>2, <3>1 DEF StartConversation
  <2>9. \A d \in Active : IsCall(d)'
      BY <2>5, <2>6, <2>8 DEF CallsOnly, IsCall
  <2>10. IsCall(c)'
      BY <2>1, <2>3, <2>4, <2>7 DEF IsCall
  <2>11. CallsOnly'
      BY <2>3, <2>9, <2>10 DEF CallsOnly
  <2>12. ActiveCalls' = Active'
      BY <2>11 DEF ActiveCalls, CallsOnly, IsCall
  <2>13. lines' = lines \cup {{a, b}}
      BY <1>1, <2>3, <2>4, <2>5, <2>12
  <2>14. \A d \in lines : a \notin d /\ b \notin d
      BY <1>1, <2>6
  <2>15. Exchange!Connect(a, b)
      BY <2>1, <2>13, <2>14 DEF Exchange!Connect, Exchange!OnLine
  <2>. QED
      BY <2>1, <2>11, <2>15 DEF Exchange!Next
<1>3. CASE Shrinks
  <2>1. \A d \in Active' : d \in Active /\ People(d)' = People(d)
                            /\ conv'[d].people = conv[d].people
                            /\ conv'[d].kind = conv[d].kind
      BY <1>3 DEF Shrinks, People
  <2>2. \A d \in Active', e \in Agents : member[e] = d => member'[e] = d
      BY <1>3 DEF Shrinks
  <2>3. CallsOnly'
      BY <2>1, <2>2 DEF CallsOnly, IsCall
  <2>4. ActiveCalls' = Active'
      BY <2>3 DEF ActiveCalls, CallsOnly, IsCall
  <2>5. lines' \subseteq lines
      BY <1>1, <2>1, <2>4
  <2>6. Exchange!Disconnect(lines \ lines')
      BY <2>5 DEF Exchange!Disconnect
  <2>. QED
      BY <2>3, <2>6 DEF Exchange!Next
<1>4. ~HostStarts
    BY DEF HostStarts
<1>. QED
    BY <1>2, <1>3, <1>4, ManagerStep

\* While every conversation is a call, the calls are lines of an exchange: nobody
\* is on two, and whoever is on one is busy, also when two agents dial each other
\* or a third one in the same tick.
THEOREM ConversationsImplementExchange ==
    ASSUME Groups = {}
    PROVE  Spec => ImplementsExchange
<1>1. Init => CallsOnly /\ Exchange!Init
    BY DEF Init, CallsOnly, Active, ActiveCalls, Unused, Exchange!Init
<1>2. Inv /\ CallsOnly /\ [Next]_vars
        => CallsOnly' /\ [Exchange!Next]_({People(c) : c \in ActiveCalls})
    BY CallsOnlyStep
<1>. QED
    BY <1>1, <1>2, Invariance, PTL DEF Spec, ImplementsExchange, Exchange!Spec

\* The busy line: no agent is in two active calls.
THEOREM BusyLine ==
    ASSUME Groups = {}
    PROVE  Spec => []OneConversationEach
<1>1. Init => CallsOnly
    BY DEF Init, CallsOnly, Active, Unused
<1>2. Inv /\ CallsOnly /\ [Next]_vars => CallsOnly'
    BY CallsOnlyStep
<1>3. Inv /\ CallsOnly => OneConversationEach
  <2>. SUFFICES ASSUME Inv, CallsOnly, NEW c \in Active, NEW d \in Active,
                       NEW p \in People(c) \cap People(d)
                PROVE  c = d
      BY DEF OneConversationEach
  <2>1. conv[c].people \in Seq(Agents)
      BY DEF Inv, TypeOK, Conversation, Active
  <2>2. p \in Agents
      BY <2>1 DEF People
  <2>. QED
      BY <2>2 DEF CallsOnly, IsCall
<1>. QED
    BY <1>1, <1>2, <1>3, Invariance, PTL DEF Spec

-----------------------------------------------------------------------------
(***************************************************************************)
(* The right to speak across the await of speak_in_call.  The invariant adds   *)
(* that the call in hand has been started: an id that is still free must not   *)
(* become a conversation in which somebody else has the turn.                 *)
(***************************************************************************)
HeldIsStarted ==
    \A a \in Agents : pc[a] = "line" => /\ held[a] \in Ids
                                       /\ conv[held[a]].status # "unused"

SpeakInv == RightToSpeakHeld /\ HeldIsStarted

\* Ids are used once, and only the holder of a turn passes it on.
LEMMA TurnsArePassedOn ==
    ASSUME Inv, Next, NEW c \in Ids, conv[c].status # "unused"
    PROVE  /\ conv'[c].status # "unused"
           /\ c \in Active' =>
                 /\ c \in Active
                 /\ \/ conv'[c].speaker = conv[c].speaker
                    \/ \E a \in Agents : /\ conv[c].speaker = a
                                         /\ SpeakEnd(a) \/ AfterRoute(a)
<1>. USE DEF Inv
<1>1. ManagerOK /\ conv[c] \in Conversation
    BY DEF TypeOK, ManagerOK
<1>2. ASSUME conv'[c] = conv[c]
      PROVE  conv'[c].status # "unused" /\ (c \in Active' => c \in Active)
    BY <1>2 DEF Active
<1>3. \A a \in Agents : Looked(a) = member
    BY DEF Looked, InConversation, MembershipIsLive, TypeOK
<1>4. ASSUME NEW d, NEW people, NEW kind, NEW limit, d \in Ids,
             StartConversation(d, people, kind, limit)
      PROVE  conv'[c] = conv[c]
  <2>1. d # c
      BY <1>4 DEF StartConversation, Fresh
  <2>. QED
      BY <1>1, <1>4, <2>1, Started
<1>5. ASSUME NEW d \in Active, EndConversation(d)
      PROVE  conv'[c] = conv[c] \/ conv'[c].status = "ended"
  <2>1. d \in Ids /\ conv' = [conv EXCEPT ![d].status = "ended"]
      BY <1>5 DEF EndConversation, Active
  <2>. QED
      BY <1>1, <2>1 DEF ManagerOK, Conversation
<1>6. ASSUME NEW a \in Agents, NEW d \in Ids \cup {None}, AdvanceTurn(d, a)
      PROVE  /\ conv'[c].status \in {conv[c].status, "ended"}
             /\ conv'[c].speaker = conv[c].speaker \/ conv[c].speaker = a
  <2>1. CASE ~MayAdvance(d, a)
      BY <1>6, <2>1 DEF AdvanceTurn, managerVars
  <2>2. CASE MayAdvance(d, a)
    <3>1. d \in Ids /\ conv[d].speaker = a /\ conv[d] \in Conversation
        BY <1>1, <2>2 DEF MayAdvance, Active, ManagerOK
    <3>2. CASE d # c
        BY <1>1, <1>6, <2>2, <3>1, <3>2 DEF AdvanceTurn, ManagerOK
    <3>3. CASE d = c
      <4>1. conv'[c].status \in {conv[c].status, "ended"}
          BY <1>1, <1>6, <2>2, <3>1, <3>3 DEF AdvanceTurn, ManagerOK, Conversation
      <4>. QED
          BY <3>1, <3>3, <4>1
    <3>. QED
        BY <3>2, <3>3
  <2>. QED
      BY <2>1, <2>2
<1>7. CASE TickStart
  <2>1. conv'[c] \in {conv[c], [conv[c] EXCEPT !.status = "gone"]}
      BY <1>7 DEF TickStart, TickCleanup
  <2>2. CASE conv'[c] = [conv[c] EXCEPT !.status = "gone"]
    <3>1. conv'[c].status = "gone"
        BY <1>1, <2>2 DEF Conversation
    <3>. QED
        BY <3>1 DEF Active
  <2>. QED
      BY <1>2, <2>1, <2>2
<1>8. CASE HostConverses \/ HostCalls \/ \E a \in Agents, b \in Agents : Dial(a, b)
  <2>1. PICK d, people, kind, limit : d \in Ids /\ StartConversation(d, people, kind, limit)
      BY <1>8 DEF HostConverses, HostCalls, Dial, StartCall
  <2>. QED
      BY <1>2, <1>4, <2>1
<1>9. CASE HostEnds \/ \E a \in Agents : HangUp(a)
  <2>1. PICK d \in Active : EndConversation(d)
      BY <1>9 DEF HostEnds, HangUp, ActiveCalls
  <2>2. CASE conv'[c].status = "ended"
      BY <2>2 DEF Active
  <2>. QED
      BY <1>2, <1>5, <2>1, <2>2
<1>10. ASSUME NEW a \in Agents,
              \/ BeginIteration(a) \/ EndIterations(a) \/ AgentFails(a)
              \/ SpeakBegin(a) \/ SpeakFails(a) \/ Route(a)
       PROVE  conv' = conv
    BY <1>10 DEF BeginIteration, EndIterations, AgentFails, SpeakBegin, SpeakFails,
                 Route, managerVars
<1>11. ASSUME NEW a \in Agents, SpeakEnd(a) \/ AfterRoute(a)
       PROVE  /\ conv'[c].status \in {conv[c].status, "ended"}
              /\ conv'[c].speaker = conv[c].speaker \/ conv[c].speaker = a
  <2>1. CASE SpeakEnd(a)
      BY <1>6, <2>1 DEF SpeakEnd, TypeOK
  <2>2. CASE AfterRoute(a) /\ InConversation(a)
      BY <1>6, <2>2 DEF AfterRoute, TypeOK
  <2>3. CASE AfterRoute(a) /\ ~InConversation(a)
      BY <2>3 DEF AfterRoute
  <2>. QED
      BY <1>11, <2>1, <2>2, <2>3
<1>12. CASE \E a \in Agents : SpeakEnd(a) \/ AfterRoute(a)
    BY <1>11, <1>12 DEF Active
<1>. QED
    BY <1>2, <1>7, <1>8, <1>9, <1>10, <1>12 DEF Next, AgentStep

LEMMA SpeakStep ==
    ASSUME Inv, SpeakInv, [Next]_vars
    PROVE  SpeakInv'
<1>. USE DEF Inv, SpeakInv
<1>1. CASE UNCHANGED vars
    BY <1>1 DEF vars, managerVars, agentVars, RightToSpeakHeld, HeldIsStarted, Active
<1>. SUFFICES ASSUME Next, NEW a \in Agents, pc'[a] = "line"
              PROVE  /\ held'[a] \in Ids /\ conv'[held'[a]].status # "unused"
                     /\ held'[a] \in Active' => conv'[held'[a]].speaker = a
    BY <1>1 DEF RightToSpeakHeld, HeldIsStarted
\* Whoever is in the await has begun the line now, or was there before.
<1>2. SpeakBegin(a) \/ (pc[a] = "line" /\ held'[a] = held[a] /\ ~SpeakEnd(a) /\ ~AfterRoute(a))
  <2>1. CASE TickStart \/ HostConverses \/ HostCalls \/ HostEnds
      BY <2>1 DEF TickStart, HostConverses, HostCalls, HostEnds, agentVars, SpeakEnd,
                  AfterRoute, TypeOK
  <2>2. ASSUME NEW b \in Agents, AgentStep(b)
        PROVE  SpeakBegin(a) \/ (pc[a] = "line" /\ held'[a] = held[a] /\ ~SpeakEnd(a)
                                   /\ ~AfterRoute(a))
    <3>1. CASE SpeakBegin(b)
        BY <3>1 DEF SpeakBegin, SpeakEnd, AfterRoute, TypeOK
    <3>2. CASE \/ BeginIteration(b) \/ EndIterations(b) \/ AgentFails(b)
               \/ SpeakEnd(b) \/ SpeakFails(b) \/ Route(b) \/ AfterRoute(b)
      <4>1. /\ \E to \in {"out", "ready", "thinking", "routed"} : pc' = [pc EXCEPT ![b] = to]
            /\ held' = held \/ held' = [held EXCEPT ![b] = None]
          BY <3>2 DEF BeginIteration, EndIterations, AgentFails, SpeakEnd, SpeakFails,
                      Route, AfterRoute, Leave
      <4>2. a # b /\ pc[a] = "line" /\ held'[a] = held[a]
          BY <4>1 DEF TypeOK
      <4>3. ~SpeakEnd(a) /\ ~AfterRoute(a)
          BY <4>2 DEF SpeakEnd, AfterRoute, TypeOK
      <4>. QED
          BY <4>2, <4>3
    <3>3. CASE HangUp(b) \/ \E e \in Agents : Dial(b, e)
        BY <3>3 DEF HangUp, Dial, agentVars, SpeakEnd, AfterRoute, TypeOK
    <3>. QED
        BY <2>2, <3>1, <3>2, <3>3 DEF AgentStep
  <2>. QED
      BY <2>1, <2>2 DEF Next
<1>3. CASE SpeakBegin(a)
  <2>1. /\ held'[a] = member[a] /\ conv' = conv /\ member[a] \in ActiveCalls
        /\ CanSpeak(a)
      BY <1>3 DEF SpeakBegin, managerVars, MaySpeakInCall, TypeOK
  <2>. QED
      BY <2>1 DEF ActiveCalls, Active, CanSpeak, InConversation
<1>4. CASE pc[a] = "line" /\ held'[a] = held[a] /\ ~SpeakEnd(a) /\ ~AfterRoute(a)
  <2>. DEFINE c == held[a]
  <2>1. c \in Ids /\ conv[c].status # "unused"
      BY <1>4 DEF HeldIsStarted
  <2>2. /\ conv'[c].status # "unused"
        /\ c \in Active' =>
              /\ c \in Active
              /\ \/ conv'[c].speaker = conv[c].speaker
                 \/ \E b \in Agents : /\ conv[c].speaker = b
                                      /\ SpeakEnd(b) \/ AfterRoute(b)
      BY <2>1, TurnsArePassedOn
  <2>3. c \in Active => conv[c].speaker = a
      BY <1>4 DEF RightToSpeakHeld
  <2>. QED
      BY <1>4, <2>1, <2>2, <2>3
<1>. QED
    BY <1>2, <1>3, <1>4

\* The await of speak_in_call takes no right to speak away: whoever looked its
\* turn up before it still has it afterwards, or the call is over.  No other
\* agent, no cleanup and no call of the host can hand the turn to somebody else,
\* whatever conversations are started meanwhile.
THEOREM SpeakerKeepsTheTurn == Spec => []RightToSpeakHeld
<1>1. Init => SpeakInv
    BY DEF Init, SpeakInv, RightToSpeakHeld, HeldIsStarted
<1>2. Inv /\ SpeakInv /\ [Next]_vars => SpeakInv'
    BY SpeakStep
<1>. QED
    BY <1>1, <1>2, Invariance, PTL DEF Spec, SpeakInv

-----------------------------------------------------------------------------
(***************************************************************************)
(* The round robin.  The next index is looked up with indexOf: the theorem      *)
(* needs that no participant is named twice.  The tools see to that (a caller   *)
(* cannot call itself); of the lists of the host it is a hypothesis.           *)
(***************************************************************************)
Distinct(people) == \A i, j \in DOMAIN people : people[i] = people[j] => i = j

PeopleAreDistinct == \A c \in Active : Distinct(conv[c].people)

TurnInv == TurnOrder /\ PeopleAreDistinct

\* Remainders: the index after the last one is the first.
LEMMA NextIndex ==
    ASSUME NEW n \in Nat \ {0}, NEW t \in Nat
    PROVE  ((t % n) + 1) % n = (t + 1) % n
<1>. DEFINE q == t \div n
            r == t % n
<1>1. t = n * q + r /\ r \in 0..(n - 1) /\ q \in Nat
    OBVIOUS
<1>. HIDE DEF q, r
<1>2. CASE r + 1 < n
  <2>1. (n * q + (r + 1)) % n = r + 1 /\ (r + 1) % n = r + 1
      BY <1>1, <1>2
  <2>2. t + 1 = n * q + (r + 1)
      BY <1>1
  <2>. QED
      BY <2>1, <2>2 DEF r
<1>3. CASE r + 1 = n
  <2>1. t + 1 = n * (q + 1) + 0 /\ q + 1 \in Nat
      BY <1>1, <1>3
  <2>2. \A k \in Nat : (n * k + 0) % n = 0
      OBVIOUS
  <2>3. n % n = 0
      OBVIOUS
  <2>. QED
      BY <1>3, <2>1, <2>2, <2>3 DEF r
<1>. QED
    BY <1>1, <1>2, <1>3

\* The one after participant i of a list without repetitions.
LEMMA NextOfDistinct ==
    ASSUME NEW people \in Seq(Agents), Distinct(people), NEW t \in Nat, people # <<>>,
           NEW a, a = people[(t % Len(people)) + 1]
    PROVE  NextSpeaker(people, a) = people[((t + 1) % Len(people)) + 1]
<1>. DEFINE n == Len(people)
            k == (t % n) + 1
<1>1. n \in Nat \ {0}
    OBVIOUS
<1>2. k \in DOMAIN people
    BY <1>1
<1>3. FirstIndex(people, a) = k
    BY <1>2, FirstIndexType DEF Distinct
<1>4. (k % n) = (t + 1) % n
    BY <1>1, NextIndex
<1>. QED
    BY <1>3, <1>4 DEF NextSpeaker

\* Where a conversation that is active after a step comes from.
LEMMA Origins ==
    ASSUME Inv, [Next]_vars, NEW c \in Active'
    PROVE  \/ \E people, kind, limit :
                /\ people \in Groups \/ \E a, b \in Agents : a # b /\ people = <<a, b>>
                /\ limit \in Nat
                /\ conv'[c] = [status |-> "active", people |-> people,
                               speaker |-> people[1], turn |-> 0, start |-> tick,
                               kind |-> kind, limit |-> limit]
           \/ c \in Active /\ conv'[c] = conv[c]
           \/ /\ c \in Active /\ ~LastTurn(c)
              /\ conv'[c] = [conv[c] EXCEPT
                   !.turn = conv[c].turn + 1,
                   !.speaker = NextSpeaker(conv[c].people, conv[c].speaker)]
<1>. USE DEF Inv
<1>1. ManagerOK /\ c \in Ids /\ conv'[c].status = "active"
    BY DEF TypeOK, ManagerOK, Active
<1>2. CASE conv'[c] = conv[c]
    BY <1>1, <1>2 DEF Active
<1>3. CASE HostStarts \/ CallStarts
  <2>1. PICK d, people, kind, limit :
               /\ d \in Ids /\ limit \in Nat
               /\ people \in Groups \/ \E a, b \in Agents : a # b /\ people = <<a, b>>
               /\ StartConversation(d, people, kind, limit)
    <3>1. 0 \in Nat
        OBVIOUS
    <3>. QED
        BY <1>3, <3>1 DEF HostStarts, CallStarts, StartCall
  <2>2. /\ conv'[d] = [status |-> "active", people |-> people,
                        speaker |-> people[1], turn |-> 0, start |-> tick,
                        kind |-> kind, limit |-> limit]
        /\ \A e \in Ids \ {d} : conv'[e] = conv[e]
    <3>1. d \in Ids /\ StartConversation(d, people, kind, limit)
        BY <2>1
    <3>. QED
        BY <1>1, <3>1, Started
  <2>3. CASE d = c
      BY <2>1, <2>2, <2>3
  <2>4. CASE d # c
      BY <1>1, <1>2, <2>2, <2>4
  <2>. QED
      BY <2>3, <2>4
<1>4. CASE Ends
  <2>1. PICK d \in Active : EndConversation(d)
      BY <1>4 DEF Ends
  <2>2. d \in Ids /\ conv' = [conv EXCEPT ![d].status = "ended"]
      BY <2>1 DEF EndConversation, Active
  <2>3. d # c
      BY <1>1, <2>2 DEF ManagerOK, Conversation
  <2>. QED
      BY <1>1, <1>2, <2>2, <2>3 DEF ManagerOK
<1>5. CASE Advances
  <2>1. PICK d \in Ids \cup {None}, a \in Agents : AdvanceTurn(d, a)
      BY <1>5 DEF Advances
  <2>2. CASE ~MayAdvance(d, a)
      BY <1>2, <2>1, <2>2 DEF AdvanceTurn, managerVars
  <2>3. CASE MayAdvance(d, a) /\ d # c
      BY <1>1, <1>2, <2>1, <2>3 DEF AdvanceTurn, ManagerOK
  <2>4. CASE MayAdvance(d, a) /\ d = c
    <3>1. c \in Active /\ conv[c].speaker = a /\ conv[c] \in Conversation
        BY <1>1, <2>4 DEF MayAdvance, ManagerOK
    <3>2. CASE LastTurn(c)
      <4>1. conv'[c].status = "ended"
          BY <1>1, <2>1, <2>4, <3>1, <3>2 DEF AdvanceTurn, ManagerOK, Conversation
      <4>. QED
          BY <1>1, <4>1
    <3>3. CASE ~LastTurn(c)
      <4>1. conv' = [conv EXCEPT ![c] = [conv[c] EXCEPT !.turn = conv[c].turn + 1,
                                     !.speaker = NextSpeaker(conv[c].people, a)]]
          BY <2>1, <2>4, <3>3 DEF AdvanceTurn
      <4>2. conv'[c] = [conv[c] EXCEPT !.turn = conv[c].turn + 1,
                                       !.speaker = NextSpeaker(conv[c].people, a)]
          BY <1>1, <4>1 DEF ManagerOK
      <4>. QED
          BY <3>1, <3>3, <4>2
    <3>. QED
        BY <3>2, <3>3
  <2>. QED
      BY <2>2, <2>3, <2>4
<1>6. CASE TickCleanup(tick + 1)
  <2>1. conv'[c] \in {conv[c], [conv[c] EXCEPT !.status = "gone"]}
      BY <1>1, <1>6 DEF TickCleanup
  <2>2. conv'[c] # [conv[c] EXCEPT !.status = "gone"]
      BY <1>1 DEF ManagerOK, Conversation
  <2>. QED
      BY <1>2, <2>1, <2>2
<1>7. CASE UNCHANGED managerVars \/ UNCHANGED vars
    BY <1>2, <1>7 DEF vars, managerVars
<1>. QED
    BY <1>3, <1>4, <1>5, <1>6, <1>7, KindsOfStep

LEMMA TurnStep ==
    ASSUME \A people \in Groups : Distinct(people), Inv, TurnInv, [Next]_vars
    PROVE  TurnInv'
<1>. DEFINE Turns(v) ==
       /\ v.speaker = v.people[(v.turn % Len(v.people)) + 1]
       /\ v.limit # 0 => v.turn < v.limit
       /\ Distinct(v.people)
<1>. SUFFICES ASSUME NEW c \in Active' PROVE Turns(conv'[c])
    BY DEF TurnInv, TurnOrder, PeopleAreDistinct
<1>1. \A d \in Active : Turns(conv[d]) /\ conv[d] \in Conversation
    BY DEF TurnInv, TurnOrder, PeopleAreDistinct, Inv, TypeOK, Active
<1>2. ASSUME NEW people, NEW kind, NEW limit,
             people \in Groups \/ \E a, b \in Agents : a # b /\ people = <<a, b>>,
             limit \in Nat,
             conv'[c] = [status |-> "active", people |-> people, speaker |-> people[1],
                         turn |-> 0, start |-> tick, kind |-> kind, limit |-> limit]
      PROVE  Turns(conv'[c])
  <2>1. people \in Seq(Agents) /\ people # <<>> /\ Distinct(people)
    <3>1. ASSUME NEW a \in Agents, NEW b \in Agents, a # b
          PROVE  <<a, b>> \in Seq(Agents) /\ <<a, b>> # <<>> /\ Distinct(<<a, b>>)
      <4>1. DOMAIN <<a, b>> = {1, 2} /\ <<a, b>>[1] = a /\ <<a, b>>[2] = b
          OBVIOUS
      <4>. QED
          BY <3>1, <4>1 DEF Distinct
    <3>. QED
        BY <1>2, <3>1, ConversationAssumption
  <2>2. Len(people) \in Nat \ {0}
      BY <2>1
  <2>3. 0 % Len(people) = 0
      BY <2>2
  <2>4. limit # 0 => 0 < limit
      BY <1>2
  <2>. QED
      BY <1>2, <2>1, <2>3, <2>4
<1>3. CASE c \in Active /\ conv'[c] = conv[c]
    BY <1>1, <1>3
<1>4. ASSUME c \in Active, ~LastTurn(c),
             conv'[c] = [conv[c] EXCEPT
                   !.turn = conv[c].turn + 1,
                   !.speaker = NextSpeaker(conv[c].people, conv[c].speaker)]
      PROVE  Turns(conv'[c])
  <2>. DEFINE people == conv[c].people
              t == conv[c].turn
  <2>1. /\ people \in Seq(Agents) /\ t \in Nat /\ conv[c].limit \in Nat
        /\ Turns(conv[c])
      BY <1>1, <1>4 DEF Conversation
  <2>2. people # <<>>
    <3>1. conv[c].speaker \in People(c)
        BY <1>4 DEF Inv, SpeakerTakesPart
    <3>2. \E i \in DOMAIN people : TRUE
        BY <3>1 DEF People
    <3>3. DOMAIN << >> = {}
        OBVIOUS
    <3>. QED
        BY <3>2, <3>3
  <2>3. NextSpeaker(people, conv[c].speaker) = people[((t + 1) % Len(people)) + 1]
      BY <2>1, <2>2, NextOfDistinct
  <2>4. /\ conv'[c].people = people /\ conv'[c].turn = t + 1
        /\ conv'[c].limit = conv[c].limit
        /\ conv'[c].speaker = NextSpeaker(people, conv[c].speaker)
      BY <1>1, <1>4 DEF Conversation
  <2>5. conv[c].limit # 0 => t + 1 < conv[c].limit
      BY <1>4, <2>1 DEF LastTurn
  <2>. QED
      BY <2>1, <2>3, <2>4, <2>5
<1>. QED
    BY <1>2, <1>3, <1>4, Origins

\* Turns go round, in every conversation and for ever: the speaker after n turns is
\* participant n + 1, counted around the list, whichever agents are suspended in
\* speak_in_call or in a hook of the router, and a limited call never begins a turn
\* beyond its limit.
THEOREM TurnsGoRound ==
    ASSUME \A people \in Groups : Distinct(people)
    PROVE  Spec => []TurnOrder
<1>1. Init => TurnInv
    BY DEF Init, TurnInv, TurnOrder, PeopleAreDistinct, Active, Unused
<1>2. Inv /\ TurnInv /\ [Next]_vars => TurnInv'
    BY TurnStep
<1>. QED
    BY <1>1, <1>2, Invariance, PTL DEF Spec, TurnInv
=============================================================================
