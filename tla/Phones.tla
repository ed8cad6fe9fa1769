-------------------------------- MODULE Phones --------------------------------
(***************************************************************************)
(* Text messages and calls by telephone number: the tools of                         *)
(* src/plugins/built-in/PhonePlugin.ts over src/messaging/phone/PhoneDirectory.ts,      *)
(* which looks numbers up in an asset store that changes under it.  A phone is an        *)
(* asset: it can be handed on, switched off or lost between any two awaits.             *)
(*                                                                         *)
(* Only calls occupy a line here, and have no limit of turns; what else starts and         *)
(* ends conversations is Conversations' question.                              *)
(***************************************************************************)
EXTENDS Integers, SequencesExt, FiniteSetsExt

CONSTANTS
    Callers,
    Nobody,      \* the owner of what a household owns
    Offices      \* [phones: sequence of phones; requests, changes: bounds; dials: numbers]

\* A phone: [id, number, owner, online]; the store is in the order of the sequence.

ASSUME OfficesAreSound ==
    /\ Nobody \notin Callers
    /\ \A o \in Offices :
          /\ o.phones \in Seq([id : Int, number : Int, owner : Callers \cup {Nobody}, online : BOOLEAN])
          /\ o.dials \subseteq Int

VARIABLES
    office,
    phones,
    errand,      \* agent -> where its tool is suspended, with its locals
    calls,       \* sequence of [caller, callee, numbers, speaker, active]
    sent,        \* messages in order: [from, to, about, kind, shown]; about: 0, or a call
    dialled, changed,
    \* history:
    had,         \* agent -> numbers it has had
    owners       \* agent -> [holders, reachable: who had the number, or could be reached,
                 \* at some moment since its request began]

phoneVars == <<office, phones, errand, calls, sent, dialled, changed, had, owners>>

Tool(at, kind, number, mine, to, call) ==
    [at |-> at, kind |-> kind, number |-> number, mine |-> mine, to |-> to, call |-> call]
Free == Tool("free", "none", 0, {}, Nobody, 0)
NobodyYet == [holders |-> {}, reachable |-> {}]

\* getAgentPhone: that with the lowest id.
OwnedBy(a, store) == {p \in ToSet(store) : p.owner = a}
PhoneOf(a, store) == {p \in OwnedBy(a, store) : \A q \in OwnedBy(a, store) : p.id <= q.id}
NumberOf(a) == {p.number : p \in PhoneOf(a, phones)}
Online(store) == {a \in Callers : \E p \in PhoneOf(a, store) : p.online}

\* resolve: the first asset of an agent that has the number.
Resolve(number) ==
    LET found == {i \in DOMAIN phones : phones[i].owner # Nobody /\ phones[i].number = number}
    IN  IF found = {} THEN Nobody ELSE phones[Min(found)].owner

NumbersOf(store) == [a \in Callers |-> {p.number : p \in OwnedBy(a, store)}]

PhonesInit ==
    /\ office \in Offices /\ phones = office.phones
    /\ errand = [a \in Callers |-> Free] /\ calls = <<>> /\ sent = <<>>
    /\ dialled = 0 /\ changed = 0
    /\ had = NumbersOf(phones) /\ owners = [a \in Callers |-> NobodyYet]

(***************************************************************************)
(* send_sms and start_call, from await to await.                              *)
(***************************************************************************)
Turns(a, t) == errand' = [errand EXCEPT ![a] = t]

\* The numbers an agent has at the moment count as those of its request.
Witness(store) ==
    [a \in Callers |->
        IF errand[a].at \notin {"asked", "looked", "reached"} THEN owners[a]
        ELSE [holders |-> owners[a].holders \cup {b \in Callers : errand[a].number \in NumbersOf(store)[b]},
              reachable |-> owners[a].reachable \cup Online(store)]]

Request(a, kind, number) ==
    /\ errand[a] = Free /\ dialled < office.requests /\ dialled' = dialled + 1
    /\ Turns(a, Tool("asked", kind, number, NumberOf(a), Nobody, 0))
    /\ owners' = [owners EXCEPT ![a] =
          [holders |-> {b \in Callers : number \in NumbersOf(phones)[b]}, reachable |-> Online(phones)]]
    /\ UNCHANGED <<office, phones, calls, sent, changed, had>>

\* Without a phone, or to the number of the phone it has at hand, nothing is sent.
Look(a) ==
    /\ errand[a].at = "asked"
    /\ LET e == errand[a]
       IN  Turns(a, IF e.mine = {} \/ e.number \in e.mine THEN Free
                    ELSE Tool("looked", e.kind, e.number, e.mine, Resolve(e.number), 0))
    /\ UNCHANGED <<office, phones, calls, sent, dialled, changed, had, owners>>

\* isReachable of whom the number was resolved to.
Reach(a) ==
    /\ errand[a].at = "looked"
    /\ Turns(a, IF errand[a].to \in Online(phones) THEN [errand[a] EXCEPT !.at = "reached"] ELSE Free)
    /\ UNCHANGED <<office, phones, calls, sent, dialled, changed, had, owners>>

Says(a, to, about, kind, shown) ==
    [from |-> a, to |-> to, about |-> about, kind |-> kind, shown |-> shown]

Text(a) ==
    /\ errand[a].at = "reached" /\ errand[a].kind = "sms" /\ Turns(a, Free)
    /\ sent' = Append(sent, Says(a, errand[a].to, 0, "sms", errand[a].mine))
    /\ UNCHANGED <<office, phones, calls, dialled, changed, had, owners>>

ActiveCalls(a) == {k \in DOMAIN calls : calls[k].active /\ a \in {calls[k].caller, calls[k].callee}}
OtherEnd(k, a) == {calls[k].caller, calls[k].callee} \ {a}

Dial(a) ==
    LET to == errand[a].to
    IN  /\ errand[a].at = "reached" /\ errand[a].kind = "call" /\ Turns(a, Free)
        /\ IF ActiveCalls(a) \cup ActiveCalls(to) # {} THEN UNCHANGED <<calls, sent>>
           ELSE /\ calls' = Append(calls, [caller |-> a, callee |-> to, active |-> TRUE, speaker |-> a,
                                           numbers |-> <<errand[a].mine, {errand[a].number}>>])
                /\ sent' = Append(sent, Says(a, to, Len(calls'), "incoming", errand[a].mine))
        /\ UNCHANGED <<office, phones, dialled, changed, had, owners>>

(***************************************************************************)
(* speak_in_call awaits the speaker's phone between its check and its line;        *)
(* hang_up awaits nothing.                                                  *)
(***************************************************************************)
SpeakBegin(a) ==
    /\ errand[a] = Free /\ dialled < office.requests /\ dialled' = dialled + 1
    /\ \E k \in ActiveCalls(a) : calls[k].speaker = a
          /\ Turns(a, Tool("line", "none", 0, NumberOf(a), Nobody, k))
    /\ UNCHANGED <<office, phones, calls, sent, changed, had, owners>>

\* Who has no phone any more shows the number it had in the call.
\* Fault: whoever speaks, the caller's.
CallersNumber(k, a) == calls[k].numbers[1]
NumberInCall(k, a) == IF calls[k].caller = a THEN calls[k].numbers[1] ELSE calls[k].numbers[2]

SpeakEnd(a) ==
    LET k == errand[a].call
        shown == IF errand[a].mine # {} THEN errand[a].mine ELSE NumberInCall(k, a)
    IN  /\ errand[a].at = "line" /\ Turns(a, Free)
        /\ sent' = sent \o SetToSeq({Says(a, b, k, "line", shown) : b \in OtherEnd(k, a)})
        /\ calls' = IF calls[k].active /\ calls[k].speaker = a /\ OtherEnd(k, a) # {}
                    THEN [calls EXCEPT ![k].speaker = CHOOSE b \in OtherEnd(k, a) : TRUE]
                    ELSE calls
        /\ UNCHANGED <<office, phones, dialled, changed, had, owners>>

HangUp(a) ==
    /\ errand[a] = Free
    /\ \E k \in ActiveCalls(a) :
          /\ calls' = [calls EXCEPT ![k].active = FALSE]
          /\ sent' = sent \o SetToSeq({Says(a, b, k, "end", {}) : b \in OtherEnd(k, a)})
    /\ UNCHANGED <<office, phones, errand, dialled, changed, had, owners>>

\* tickCleanup, or a host that ends the conversation: nobody is told.
CutOff(k) ==
    /\ calls[k].active /\ changed < office.changes /\ changed' = changed + 1
    /\ calls' = [calls EXCEPT ![k].active = FALSE]
    /\ UNCHANGED <<office, phones, errand, sent, dialled, had, owners>>

(***************************************************************************)
(* The asset store, in the hands of the host and its plugins.                  *)
(***************************************************************************)
Change(store) ==
    /\ changed < office.changes /\ changed' = changed + 1 /\ phones' = store
    /\ had' = [a \in Callers |-> had[a] \cup NumbersOf(store)[a]] /\ owners' = Witness(store)
    /\ UNCHANGED <<office, errand, calls, sent, dialled>>

TransferAsset(i, a) == Change([phones EXCEPT ![i].owner = a])
SwitchPhone(i) == Change([phones EXCEPT ![i].online = ~@])
RemoveAsset(i) == Change(RemoveAt(phones, i))

PhonesNext ==
    \/ \E a \in Callers :
          \/ \E kind \in {"sms", "call"}, n \in office.dials : Request(a, kind, n)
          \/ Look(a) \/ Reach(a) \/ Text(a) \/ Dial(a) \/ SpeakBegin(a) \/ SpeakEnd(a) \/ HangUp(a)
    \/ \E k \in DOMAIN calls : CutOff(k)
    \/ \E i \in DOMAIN phones : SwitchPhone(i) \/ RemoveAsset(i) \/ \E a \in Callers : TransferAsset(i, a)
PhonesSpec == PhonesInit /\ [][PhonesNext]_phoneVars

(***************************************************************************)
(* Properties.                                                              *)
(***************************************************************************)
About(k) == {i \in DOMAIN sent : sent[i].about = k}
OfKind(kind, k) == {i \in About(k) : sent[i].kind = kind}
Ends(k) == {calls[k].caller, calls[k].callee}

\* However calls overlap, fail and are cut off, and whoever's phone is gone: nobody is in two
\* calls; what the two of a call are told begins with the call itself and goes on in turn,
\* the caller first; after "ended" comes at most the line that was being said
\* (PhonePlugin.ts:205-318).
OneCallEach == \A a \in Callers : \A k, l \in ActiveCalls(a) : k = l
BeginsWithTheCall(k) ==
    \E i \in OfKind("incoming", k) : sent[i].to = calls[k].callee /\ \A j \in About(k) : i <= j
BetweenTheTwo(k) == \A i \in About(k) : {sent[i].from, sent[i].to} = Ends(k)
TakesTurns(k) ==
    \A i \in OfKind("line", k) :
        LET before == {j \in OfKind("line", k) : j < i}
        IN  IF before = {} THEN sent[i].from = calls[k].caller
            ELSE \A j \in before : (\A l \in before : l <= j) => sent[j].from # sent[i].from
EndsOnce(k) ==
    \A e, f \in OfKind("end", k) :
        e = f /\ \A i, j \in About(k) : e < i /\ e < j => i = j
TranscriptsAreWhole ==
    /\ OneCallEach
    /\ \A k \in DOMAIN calls : calls[k].caller # calls[k].callee =>
          BeginsWithTheCall(k) /\ BetweenTheTwo(k) /\ TakesTurns(k) /\ EndsOnce(k)

\* A number that is shown is one its speaker has had, although its phone may be another's by
\* now (PhonePlugin.ts:238-243).
NumbersAreTheirs ==
    \A i \in DOMAIN sent : sent[i].shown \subseteq had[sent[i].from]

\* What is about to be sent goes to somebody who, while it was being prepared, had the
\* number and had a phone that was on: the directory is dialled twice, and the phone may change
\* hands in between (PhoneDirectory.ts:83-121).
TextsAreAddressed ==
    \A a \in Callers : errand[a].at = "reached" =>
        /\ errand[a].to \in owners[a].holders \cap owners[a].reachable
        /\ errand[a].number \notin errand[a].mine

PhonesAreHonest == TranscriptsAreWhole /\ NumbersAreTheirs /\ TextsAreAddressed
=============================================================================
