------------------------------ MODULE Desk_proof -------------------------------
(***************************************************************************)
(* Theorems about what the user of a world is shown: the exchanges of the chat, *)
(* for any sessions, limits and failures of the model, and the runs and the *)
(* dashboard of the studio, for any scenarios, ticks and order of the answers. *)
(***************************************************************************)
EXTENDS Chat, Studio, SequenceTheorems, FiniteSetTheorems, WellFoundedInduction, TLAPS

-----------------------------------------------------------------------------
(***************************************************************************)
(* The chat.                                                               *)
(***************************************************************************)
LEMMA LargerOf ==
    ASSUME NEW a \in Int, NEW b \in Int
    PROVE  Max({a, b}) = IF a >= b THEN a ELSE b
<1>1. \E n \in {a, b} : \A m \in {a, b} : n >= m
    OBVIOUS
<1>2. Max({a, b}) \in {a, b} /\ \A m \in {a, b} : Max({a, b}) >= m
    BY <1>1 DEF Max
<1>. QED
    BY <1>2

\* The messages that are kept: the last of them, so many at most.
Keeps(n, max) == IF n <= max THEN n ELSE max

LEMMA LastAre ==
    ASSUME NEW max \in Nat \ {0}, NEW S, NEW m \in Seq(S)
    PROVE  /\ LastOf(m, max) \in Seq(S) /\ Len(LastOf(m, max)) = Keeps(Len(m), max)
           /\ \A j \in 1..Keeps(Len(m), max) : LastOf(m, max)[j] = m[Len(m) - Keeps(Len(m), max) + j]
<1>. DEFINE n == Len(m)
            first == Max({1, n - max + 1})
<1>1. n \in Nat /\ DOMAIN m = 1..n /\ \A i \in 1..n : m[i] \in S
    BY LenProperties, ElementOfSeq
<1>2. first = IF n <= max THEN 1 ELSE n - max + 1
  <2>0. 1 \in Int /\ n - max + 1 \in Int
      BY <1>1
  <2>1. first = IF 1 >= n - max + 1 THEN 1 ELSE n - max + 1
      BY <2>0, LargerOf
  <2>. QED
      BY <1>1, <2>1
<1>3. LastOf(m, max) = SubSeq(m, first, n)
    BY DEF LastOf
<1>. HIDE DEF first, n
<1>4. first \in Int /\ n \in Int /\ \A i \in first..n : m[i] \in S
    BY <1>1, <1>2
<1>5. /\ SubSeq(m, first, n) \in Seq(S)
      /\ Len(SubSeq(m, first, n)) = IF first <= n THEN n - first + 1 ELSE 0
      /\ \A i \in 1..(n - first + 1) : SubSeq(m, first, n)[i] = m[first + i - 1]
    BY <1>4, SubSeqProperties
<1>6. Keeps(n, max) = n - first + 1 /\ Keeps(n, max) \in Nat /\ (first <= n \/ Keeps(n, max) = 0)
    BY <1>1, <1>2 DEF Keeps
<1>7. \A j \in 1..Keeps(n, max) : n - Keeps(n, max) + j = first + j - 1
    BY <1>1, <1>2, <1>6
<1>. QED
    BY <1>1, <1>3, <1>5, <1>6, <1>7 DEF n

\* What is cut off again and again is what is cut off at once.
LEMMA LastOfLast ==
    ASSUME NEW max \in Nat \ {0}, NEW S, NEW m \in Seq(S), NEW p \in Seq(S)
    PROVE  LastOf(LastOf(m, max) \o p, max) = LastOf(m \o p, max)
<1>. DEFINE k == LastOf(m, max)
<1>1. k \in Seq(S) /\ Len(k) = Keeps(Len(m), max) /\ \A j \in 1..Len(k) : k[j] = m[Len(m) - Len(k) + j]
    BY LastAre
<1>. HIDE DEF k
<1>2. /\ k \o p \in Seq(S) /\ m \o p \in Seq(S)
      /\ Len(k \o p) = Len(k) + Len(p) /\ Len(m \o p) = Len(m) + Len(p)
      /\ \A i \in 1..(Len(k) + Len(p)) : (k \o p)[i] = IF i <= Len(k) THEN k[i] ELSE p[i - Len(k)]
      /\ \A i \in 1..(Len(m) + Len(p)) : (m \o p)[i] = IF i <= Len(m) THEN m[i] ELSE p[i - Len(m)]
    BY <1>1, ConcatProperties
<1>3. Len(m) \in Nat /\ Len(p) \in Nat /\ Len(k) \in Nat /\ Len(k) <= Len(m)
    BY <1>1, LenProperties DEF Keeps
<1>4. Keeps(Len(k) + Len(p), max) = Keeps(Len(m) + Len(p), max)
    BY <1>1, <1>3 DEF Keeps
<1>. DEFINE n == Keeps(Len(m) + Len(p), max)
<1>5. n \in Nat /\ n <= Len(k) + Len(p)
    BY <1>1, <1>3, <1>4 DEF Keeps
<1>6. /\ LastOf(k \o p, max) \in Seq(S) /\ Len(LastOf(k \o p, max)) = n
      /\ \A j \in 1..n : LastOf(k \o p, max)[j] = (k \o p)[(Len(k) + Len(p)) - n + j]
  <2>. DEFINE r == k \o p
              l == Len(k) + Len(p)
  <2>1. r \in Seq(S) /\ Len(r) = l /\ l \in Nat /\ Keeps(l, max) = n
      BY <1>2, <1>3, <1>4
  <2>. HIDE DEF r, l, n
  <2>2. /\ LastOf(r, max) \in Seq(S) /\ Len(LastOf(r, max)) = n
        /\ \A j \in 1..n : LastOf(r, max)[j] = r[l - n + j]
    <3>1. /\ LastOf(r, max) \in Seq(S) /\ Len(LastOf(r, max)) = Keeps(Len(r), max)
          /\ \A j \in 1..Keeps(Len(r), max) : LastOf(r, max)[j] = r[Len(r) - Keeps(Len(r), max) + j]
        BY <2>1, LastAre
    <3>. QED
        BY <2>1, <3>1
  <2>. QED
      BY <2>2 DEF r, l
<1>7. /\ LastOf(m \o p, max) \in Seq(S) /\ Len(LastOf(m \o p, max)) = n
      /\ \A j \in 1..n : LastOf(m \o p, max)[j] = (m \o p)[(Len(m) + Len(p)) - n + j]
  <2>. DEFINE r == m \o p
              l == Len(m) + Len(p)
  <2>1. r \in Seq(S) /\ Len(r) = l /\ l \in Nat /\ Keeps(l, max) = n
      BY <1>2, <1>3
  <2>. HIDE DEF r, l, n
  <2>2. /\ LastOf(r, max) \in Seq(S) /\ Len(LastOf(r, max)) = n
        /\ \A j \in 1..n : LastOf(r, max)[j] = r[l - n + j]
    <3>1. /\ LastOf(r, max) \in Seq(S) /\ Len(LastOf(r, max)) = Keeps(Len(r), max)
          /\ \A j \in 1..Keeps(Len(r), max) : LastOf(r, max)[j] = r[Len(r) - Keeps(Len(r), max) + j]
        BY <2>1, LastAre
    <3>. QED
        BY <2>1, <3>1
  <2>. QED
      BY <2>2 DEF r, l
<1>. HIDE DEF n
<1>8. ASSUME NEW j \in 1..n
      PROVE  (k \o p)[(Len(k) + Len(p)) - n + j] = (m \o p)[(Len(m) + Len(p)) - n + j]
  <2>. DEFINE a == (Len(k) + Len(p)) - n + j
              b == (Len(m) + Len(p)) - n + j
  <2>1. /\ a \in 1..(Len(k) + Len(p)) /\ b \in 1..(Len(m) + Len(p))
        /\ b = Len(m) - Len(k) + a
      BY <1>3, <1>5
  <2>2. CASE a <= Len(k)
    <3>1. a \in 1..Len(k) /\ b <= Len(m)
        BY <1>3, <2>1, <2>2
    <3>2. k[a] = m[b]
        BY <1>1, <2>1, <3>1
    <3>. HIDE DEF a, b
    <3>3. (k \o p)[a] = k[a] /\ (m \o p)[b] = m[b]
        BY <1>2, <2>1, <2>2, <3>1
    <3>. QED
        BY <3>2, <3>3 DEF a, b
  <2>3. CASE ~(a <= Len(k))
    <3>1. ~(b <= Len(m)) /\ a - Len(k) = b - Len(m)
        BY <1>3, <2>1, <2>3
    <3>. HIDE DEF a, b
    <3>2. (k \o p)[a] = p[a - Len(k)] /\ (m \o p)[b] = p[b - Len(m)]
        BY <1>2, <2>1, <2>3, <3>1
    <3>. QED
        BY <3>1, <3>2 DEF a, b
  <2>. QED
      BY <2>2, <2>3
<1>9. \A j \in 1..n : LastOf(k \o p, max)[j] = LastOf(m \o p, max)[j]
    BY <1>6, <1>7, <1>8
<1>. QED
    BY <1>6, <1>7, <1>9, SeqEqual DEF k

Messages(S) == [role : {"user", "agent"}, of : S]

LEMMA ToldIs ==
    ASSUME NEW S, NEW c \in Seq(S)
    PROVE  /\ Told(c) \in Seq(Messages(S)) /\ Len(Told(c)) = 2 * Len(c)
           /\ \A j \in 1..2 * Len(c) : /\ (j + 1) \div 2 \in 1..Len(c)
                                       /\ Told(c)[j] = [role |-> IF j % 2 = 1 THEN "user" ELSE "agent",
                                                        of |-> c[(j + 1) \div 2]]
<1>1. Len(c) \in Nat /\ \A i \in 1..Len(c) : c[i] \in S
    BY LenProperties, ElementOfSeq
<1>2. \A j \in 1..2 * Len(c) : (j + 1) \div 2 \in 1..Len(c)
    BY <1>1
<1>3. 2 * Len(c) \in Nat
    BY <1>1
<1>4. \A j \in 1..2 * Len(c) : Told(c)[j] = [role |-> IF j % 2 = 1 THEN "user" ELSE "agent",
                                                        of |-> c[(j + 1) \div 2]]
    BY DEF Told
<1>5. ASSUME NEW j \in 1..2 * Len(c) PROVE Told(c)[j] \in Messages(S)
  <2>1. c[(j + 1) \div 2] \in S
      BY <1>1, <1>2
  <2>. DEFINE role == IF j % 2 = 1 THEN "user" ELSE "agent"
              who == c[(j + 1) \div 2]
  <2>2. Told(c)[j] = [role |-> role, of |-> who] /\ role \in {"user", "agent"} /\ who \in S
      BY <1>4, <2>1
  <2>. HIDE DEF role, who
  <2>. QED
      BY <2>2 DEF Messages
<1>6. DOMAIN Told(c) = 1..2 * Len(c) /\ Told(c) = [j \in 1..2 * Len(c) |-> Told(c)[j]]
    BY DEF Told
<1>. DEFINE n == 2 * Len(c)
            t == Told(c)
<1>. HIDE DEF n, t
<1>7. t \in [1..n -> Messages(S)]
    BY <1>5, <1>6 DEF n, t
<1>8. t \in Seq(Messages(S)) /\ Len(t) = n
    BY <1>3, <1>7 DEF n
<1>. QED
    BY <1>2, <1>4, <1>8 DEF n, t

LEMMA ToldOneMore ==
    ASSUME NEW S, NEW c \in Seq(S), NEW i \in S
    PROVE  Told(Append(c, i)) = Told(c) \o Exchange(i)
<1>. DEFINE d == Append(c, i)
            e == Exchange(i)
<1>1. d \in Seq(S) /\ Len(d) = Len(c) + 1 /\ Len(c) \in Nat
      /\ \A j \in 1..(Len(c) + 1) : d[j] = IF j <= Len(c) THEN c[j] ELSE i
    BY AppendProperties, LenProperties
<1>2. /\ e \in Seq(Messages(S)) /\ Len(e) = 2
      /\ e[1] = [role |-> "user", of |-> i] /\ e[2] = [role |-> "agent", of |-> i]
    BY DEF Exchange, Messages
<1>3. /\ Told(c) \in Seq(Messages(S)) /\ Len(Told(c)) = 2 * Len(c)
      /\ \A j \in 1..2 * Len(c) : /\ (j + 1) \div 2 \in 1..Len(c)
                                  /\ Told(c)[j] = [role |-> IF j % 2 = 1 THEN "user" ELSE "agent",
                                                   of |-> c[(j + 1) \div 2]]
    BY ToldIs
<1>. HIDE DEF d, e
<1>4. /\ Told(d) \in Seq(Messages(S)) /\ Len(Told(d)) = 2 * Len(d)
      /\ \A j \in 1..2 * Len(d) : /\ (j + 1) \div 2 \in 1..Len(d)
                                  /\ Told(d)[j] = [role |-> IF j % 2 = 1 THEN "user" ELSE "agent",
                                                   of |-> d[(j + 1) \div 2]]
    BY <1>1, ToldIs
<1>5. /\ Told(c) \o e \in Seq(Messages(S)) /\ Len(Told(c) \o e) = 2 * Len(c) + 2
      /\ \A j \in 1..(2 * Len(c) + 2) :
            (Told(c) \o e)[j] = IF j <= 2 * Len(c) THEN Told(c)[j] ELSE e[j - 2 * Len(c)]
  <2>. DEFINE v == Told(c)
  <2>1. v \in Seq(Messages(S)) /\ Len(v) = 2 * Len(c)
      BY <1>3
  <2>. HIDE DEF v
  <2>2. /\ v \o e \in Seq(Messages(S)) /\ Len(v \o e) = Len(v) + Len(e)
        /\ \A j \in 1..(Len(v) + Len(e)) : (v \o e)[j] = IF j <= Len(v) THEN v[j] ELSE e[j - Len(v)]
      BY <1>2, <2>1, ConcatProperties
  <2>3. Len(v) = 2 * Len(c) /\ Len(v) + Len(e) = 2 * Len(c) + 2
      BY <1>2, <2>1
  <2>. QED
      BY <2>2, <2>3 DEF v
<1>6. Len(Told(d)) = 2 * Len(c) + 2
    BY <1>1, <1>4
<1>7. ASSUME NEW j \in 1..(2 * Len(c) + 2) PROVE Told(d)[j] = (Told(c) \o e)[j]
  <2>1. j \in 1..2 * Len(d)
      BY <1>1
  <2>2. CASE j <= 2 * Len(c)
    <3>1. j \in 1..2 * Len(c) /\ (j + 1) \div 2 \in 1..Len(c)
        BY <1>1, <1>3, <2>2
    <3>2. d[(j + 1) \div 2] = c[(j + 1) \div 2]
        BY <1>1, <3>1
    <3>. QED
        BY <1>3, <1>4, <1>5, <2>1, <2>2, <3>1, <3>2
  <2>3. CASE j = 2 * Len(c) + 1
    <3>1. (j + 1) \div 2 = Len(c) + 1 /\ j % 2 = 1 /\ j - 2 * Len(c) = 1 /\ ~(j <= 2 * Len(c))
        BY <1>1, <2>3
    <3>2. d[(j + 1) \div 2] = i
        BY <1>1, <3>1
    <3>. QED
        BY <1>2, <1>4, <1>5, <2>1, <3>1, <3>2
  <2>4. CASE j = 2 * Len(c) + 2
    <3>1. (j + 1) \div 2 = Len(c) + 1 /\ j % 2 = 0 /\ j - 2 * Len(c) = 2 /\ ~(j <= 2 * Len(c))
        BY <1>1, <2>4
    <3>2. d[(j + 1) \div 2] = i
        BY <1>1, <3>1
    <3>. QED
        BY <1>2, <1>4, <1>5, <2>1, <3>1, <3>2
  <2>5. j <= 2 * Len(c) \/ j = 2 * Len(c) + 1 \/ j = 2 * Len(c) + 2
      BY <1>1
  <2>. QED
      BY <2>2, <2>3, <2>4, <2>5
<1>8. \A j \in 1..Len(Told(d)) : Told(d)[j] = (Told(c) \o e)[j]
    BY <1>6, <1>7
<1>9. Told(d) = Told(c) \o e
    BY <1>4, <1>5, <1>6, <1>8, SeqEqual
<1>. QED
    BY <1>9 DEF d, e

\* A cut list is not cut again.
LEMMA ShortIsWhole ==
    ASSUME NEW max \in Nat \ {0}, NEW S, NEW m \in Seq(S)
    PROVE  LastOf(LastOf(m, max), max) = LastOf(m, max)
<1>. DEFINE k == LastOf(m, max)
<1>1. k \in Seq(S) /\ Len(k) = Keeps(Len(m), max) /\ Len(m) \in Nat
    BY LastAre, LenProperties
<1>. HIDE DEF k
<1>2. Keeps(Len(k), max) = Len(k) /\ Len(k) \in Nat
    BY <1>1 DEF Keeps
<1>3. /\ LastOf(k, max) \in Seq(S) /\ Len(LastOf(k, max)) = Keeps(Len(k), max)
      /\ \A j \in 1..Keeps(Len(k), max) : LastOf(k, max)[j] = k[Len(k) - Keeps(Len(k), max) + j]
    BY <1>1, LastAre
<1>4. \A j \in 1..Len(k) : LastOf(k, max)[j] = k[j]
    BY <1>2, <1>3
<1>5. LastOf(k, max) = k
    BY <1>1, <1>2, <1>3, <1>4, SeqEqual
<1>. QED
    BY <1>5 DEF k

\* What is kept was told.
LEMMA KeptWasTold ==
    ASSUME NEW max \in Nat \ {0}, NEW S, NEW c \in Seq(S), NEW m \in ToSet(LastOf(Told(c), max))
    PROVE  m.of \in ToSet(c)
<1>. DEFINE t == Told(c)
            k == LastOf(t, max)
<1>1. /\ t \in Seq(Messages(S)) /\ Len(t) = 2 * Len(c) /\ Len(c) \in Nat
      /\ \A j \in 1..2 * Len(c) : (j + 1) \div 2 \in 1..Len(c) /\ t[j].of = c[(j + 1) \div 2]
  <2>1. /\ t \in Seq(Messages(S)) /\ Len(t) = 2 * Len(c)
        /\ \A j \in 1..2 * Len(c) : /\ (j + 1) \div 2 \in 1..Len(c)
                                    /\ t[j] = [role |-> IF j % 2 = 1 THEN "user" ELSE "agent",
                                               of |-> c[(j + 1) \div 2]]
      BY ToldIs
  <2>. HIDE DEF t
  <2>2. ASSUME NEW j \in 1..2 * Len(c) PROVE (j + 1) \div 2 \in 1..Len(c) /\ t[j].of = c[(j + 1) \div 2]
      BY <2>1
  <2>3. Len(c) \in Nat
      BY LenProperties
  <2>. QED
      BY <2>1, <2>2, <2>3
<1>. HIDE DEF t
<1>2. /\ k \in Seq(Messages(S)) /\ Len(k) = Keeps(Len(t), max)
      /\ \A j \in 1..Keeps(Len(t), max) : k[j] = t[Len(t) - Keeps(Len(t), max) + j]
    BY <1>1, LastAre
<1>. HIDE DEF k
<1>3. PICK j \in DOMAIN k : m = k[j]
    BY DEF t, k, ToSet
<1>4. j \in 1..Keeps(Len(t), max) /\ Keeps(Len(t), max) \in 0..Len(t)
    BY <1>1, <1>2, <1>3, LenProperties DEF Keeps
<1>. DEFINE i == Len(t) - Keeps(Len(t), max) + j
<1>5. i \in 1..2 * Len(c) /\ m = t[i]
  <2>1. k[j] = t[i]
      BY <1>2, <1>4
  <2>2. i \in 1..2 * Len(c)
      BY <1>1, <1>4
  <2>. QED
      BY <1>3, <2>1, <2>2
<1>. HIDE DEF i
<1>6. m.of = c[(i + 1) \div 2] /\ (i + 1) \div 2 \in DOMAIN c
    BY <1>1, <1>5, LenProperties
<1>. QED
    BY <1>6 DEF ToSet

-----------------------------------------------------------------------------
\* The session objects and what was answered in them, of the messages that users send.
Objects == [id : {parlour.sends[i].session : i \in Sends},
            agent : {parlour.sends[i].agent : i \in Sends},
            messages : Seq(Messages(Sends))]
Calls == [at : {"unsent", "context", "asked", "answered", "failed"}, session : Nat,
          prompt : Seq(Messages(Sends)), chunks : Nat]

\* Sessions and ids.
SessionsAreTyped ==
    /\ parlour \in Parlours
    /\ sessions \in Seq(Objects)
    /\ exchanged \in Seq(Seq(Sends)) /\ Len(exchanged) = Len(sessions)
    /\ \A id \in DOMAIN sessionOf : sessionOf[id] \in DOMAIN sessions
    /\ chats \in [Sends -> Calls]

\* A call holds on to an object of its agent.
CallsHaveSessions ==
    \A i \in Sends : chats[i].at \in {"context", "asked", "answered"} =>
        /\ chats[i].session \in DOMAIN sessions
        /\ sessions[chats[i].session].agent = parlour.sends[i].agent

\* Of an object: its messages are the last of what was answered in it, all of its agent.
SessionsAreWhole ==
    \A s \in DOMAIN sessions :
        /\ sessions[s].messages = LastOf(Told(exchanged[s]), parlour.max)
        /\ \A i \in ToSet(exchanged[s]) : parlour.sends[i].agent = sessions[s].agent

\* Of a call: its prompt is the last of what was answered up to some moment.
PromptsAreWhole ==
    \A i \in Sends : chats[i].prompt # <<>> =>
        /\ chats[i].session \in DOMAIN sessions
        /\ \E n \in DOMAIN exchanged[chats[i].session] :
              chats[i].prompt = LastOf(Told(SubSeq(exchanged[chats[i].session], 1, n)), parlour.max)

RememberedWasAnswered == persisted \subseteq Sends /\ \A i \in persisted : chats[i].at = "answered"

ChatInv ==
    /\ SessionsAreTyped
    /\ CallsHaveSessions
    /\ SessionsAreWhole
    /\ PromptsAreWhole
    /\ RememberedWasAnswered

LEMMA PrefixStays ==
    ASSUME NEW S, NEW c \in Seq(S), NEW i \in S, NEW n \in DOMAIN c
    PROVE  n \in DOMAIN Append(c, i) /\ SubSeq(Append(c, i), 1, n) = SubSeq(c, 1, n)
<1>. DEFINE d == Append(c, i)
<1>1. /\ d \in Seq(S) /\ DOMAIN d = 1..(Len(c) + 1) /\ DOMAIN c = 1..Len(c) /\ Len(c) \in Nat
      /\ \A j \in 1..Len(c) : d[j] = c[j]
    BY AppendProperties, LenProperties
<1>. HIDE DEF d
<1>2. n \in 1..Len(c) /\ n \in DOMAIN d
    BY <1>1
<1>3. \A j \in 1..n : c[j] \in S /\ d[j] = c[j]
    BY <1>1, <1>2, ElementOfSeq
<1>4. /\ SubSeq(c, 1, n) \in Seq(S) /\ Len(SubSeq(c, 1, n)) = n
      /\ \A j \in 1..n : SubSeq(c, 1, n)[j] = c[j]
  <2>1. 1 \in Int /\ n \in Int /\ \A j \in 1..n : c[j] \in S
      BY <1>2, <1>3
  <2>2. /\ SubSeq(c, 1, n) \in Seq(S)
        /\ Len(SubSeq(c, 1, n)) = IF 1 <= n THEN n - 1 + 1 ELSE 0
        /\ \A j \in 1..(n - 1 + 1) : SubSeq(c, 1, n)[j] = c[1 + j - 1]
      BY <2>1, SubSeqProperties
  <2>. QED
      BY <1>2, <2>2
<1>5. /\ SubSeq(d, 1, n) \in Seq(S) /\ Len(SubSeq(d, 1, n)) = n
      /\ \A j \in 1..n : SubSeq(d, 1, n)[j] = d[j]
  <2>1. 1 \in Int /\ n \in Int /\ \A j \in 1..n : d[j] \in S
      BY <1>2, <1>3
  <2>2. /\ SubSeq(d, 1, n) \in Seq(S)
        /\ Len(SubSeq(d, 1, n)) = IF 1 <= n THEN n - 1 + 1 ELSE 0
        /\ \A j \in 1..(n - 1 + 1) : SubSeq(d, 1, n)[j] = d[1 + j - 1]
      BY <2>1, SubSeqProperties
  <2>. QED
      BY <1>2, <2>2
<1>6. SubSeq(d, 1, n) = SubSeq(c, 1, n)
  <2>1. \A j \in 1..n : SubSeq(d, 1, n)[j] = SubSeq(c, 1, n)[j]
      BY <1>3, <1>4, <1>5
  <2>. QED
      BY <1>4, <1>5, <2>1, SeqEqual
<1>. QED
    BY <1>2, <1>6 DEF d

\* All that was told is a prefix of it.
LEMMA AllIsPrefix ==
    ASSUME NEW S, NEW c \in Seq(S), c # <<>>
    PROVE  Len(c) \in DOMAIN c /\ SubSeq(c, 1, Len(c)) = c
<1>1. Len(c) \in Nat /\ DOMAIN c = 1..Len(c) /\ \A j \in 1..Len(c) : c[j] \in S
    BY LenProperties, ElementOfSeq
<1>2. Len(c) # 0
    BY EmptySeq
<1>. DEFINE n == Len(c)
<1>3. 1 \in Int /\ n \in Int /\ \A j \in 1..n : c[j] \in S
    BY <1>1
<1>. HIDE DEF n
<1>4. /\ SubSeq(c, 1, n) \in Seq(S)
      /\ Len(SubSeq(c, 1, n)) = IF 1 <= n THEN n - 1 + 1 ELSE 0
      /\ \A j \in 1..(n - 1 + 1) : SubSeq(c, 1, n)[j] = c[1 + j - 1]
    BY <1>3, SubSeqProperties
<1>5. n \in Nat /\ n # 0 /\ n = Len(c)
    BY <1>1, <1>2 DEF n
<1>6. Len(SubSeq(c, 1, n)) = Len(c) /\ \A j \in 1..Len(c) : SubSeq(c, 1, n)[j] = c[j]
    BY <1>4, <1>5
<1>7. SubSeq(c, 1, n) = c
    BY <1>4, <1>6, SeqEqual
<1>. QED
    BY <1>1, <1>2, <1>7 DEF n

-----------------------------------------------------------------------------
LEMMA ChatStarts == ChatInit => ChatInv
<1>. SUFFICES ASSUME ChatInit PROVE ChatInv
    OBVIOUS
<1>. USE DEF ChatInit
<1>0. DOMAIN <<>> = {}
    OBVIOUS
<1>1. SessionsAreTyped
  <2>1. Unsent \in Calls
      BY DEF Unsent, Calls
  <2>. QED
      BY <1>0, <2>1 DEF SessionsAreTyped
<1>2. CallsHaveSessions /\ PromptsAreWhole
  <2>1. \A i \in Sends : chats[i].at = "unsent" /\ chats[i].prompt = <<>>
      BY DEF Unsent
  <2>. QED
      BY <2>1 DEF CallsHaveSessions, PromptsAreWhole
<1>3. SessionsAreWhole
    BY <1>0 DEF SessionsAreWhole
<1>4. RememberedWasAnswered
    BY DEF RememberedWasAnswered
<1>. QED
    BY <1>1, <1>2, <1>3, <1>4 DEF ChatInv

\* An object and the record of a call: the fields, and what EXCEPT keeps.
LEMMA TypedParts ==
    ASSUME SessionsAreTyped
    PROVE  /\ parlour.max \in Nat \ {0}
           /\ Len(sessions) \in Nat /\ DOMAIN sessions = 1..Len(sessions)
           /\ DOMAIN exchanged = 1..Len(sessions)
           /\ \A s \in DOMAIN sessions : sessions[s] \in Objects /\ exchanged[s] \in Seq(Sends)
           /\ DOMAIN chats = Sends
           /\ \A i \in Sends : chats[i] \in Calls
<1>1. parlour.max \in Nat \ {0}
    BY ParloursAreSound DEF SessionsAreTyped
<1>2. Len(sessions) \in Nat /\ DOMAIN sessions = 1..Len(sessions)
      /\ \A s \in DOMAIN sessions : sessions[s] \in Objects
    BY LenProperties, ElementOfSeq DEF SessionsAreTyped
<1>3. DOMAIN exchanged = 1..Len(sessions) /\ \A s \in DOMAIN sessions : exchanged[s] \in Seq(Sends)
    BY <1>2, LenProperties, ElementOfSeq DEF SessionsAreTyped
<1>. QED
    BY <1>1, <1>2, <1>3 DEF SessionsAreTyped

\* Of a prompt c with an object o: it is the last of what was answered up to some moment.
WasAnswered(prompt, o) ==
    /\ o \in DOMAIN sessions
    /\ \E n \in DOMAIN exchanged[o] :
          prompt = LastOf(Told(SubSeq(exchanged[o], 1, n)), parlour.max)

\* A step that changes nothing but the record of a call.
LEMMA OneCall ==
    ASSUME ChatInv, UNCHANGED <<parlour, sessions, sessionOf, exchanged, persisted>>,
           NEW i \in Sends, NEW c \in Calls, chats' = [chats EXCEPT ![i] = c],
           chats[i].at # "answered", c.at # "answered",
           c.at \in {"context", "asked"} =>
               c.session = chats[i].session /\ chats[i].at \in {"context", "asked"},
           c.prompt # <<>> => WasAnswered(c.prompt, c.session)
    PROVE  ChatInv'
<1>. USE DEF ChatInv
<1>0. /\ DOMAIN chats = Sends /\ Sends' = Sends
      /\ \A j \in Sends : chats'[j] = IF j = i THEN c ELSE chats[j]
    BY TypedParts DEF Sends
<1>1. SessionsAreTyped'
  <2>1. Objects' = Objects /\ Calls' = Calls
      BY <1>0 DEF Objects, Calls
  <2>2. chats' \in [Sends -> Calls]
      BY DEF SessionsAreTyped
  <2>. QED
      BY <1>0, <2>1, <2>2 DEF SessionsAreTyped
<1>2. CallsHaveSessions'
    BY <1>0 DEF CallsHaveSessions
<1>3. SessionsAreWhole'
    BY DEF SessionsAreWhole
<1>4. PromptsAreWhole'
    BY <1>0 DEF PromptsAreWhole, WasAnswered
<1>5. RememberedWasAnswered'
    BY <1>0 DEF RememberedWasAnswered
<1>. QED
    BY <1>1, <1>2, <1>3, <1>4, <1>5

LEMMA StopAgentKeeps == ASSUME ChatInv, NEW a \in parlour.stops, StopAgent(a) PROVE ChatInv'
<1>1. UNCHANGED <<parlour, sessions, sessionOf, exchanged, persisted, chats>>
    BY DEF StopAgent
<1>. QED
    BY <1>1 DEF ChatInv, SessionsAreTyped, CallsHaveSessions, SessionsAreWhole, PromptsAreWhole,
                RememberedWasAnswered, Objects, Calls, Sends

LEMMA FailsKeeps == ASSUME ChatInv, NEW i \in Sends, Fails(i) PROVE ChatInv'
<1>. DEFINE c == [chats[i] EXCEPT !.at = "failed"]
<1>1. chats[i] \in Calls /\ DOMAIN chats = Sends
    BY TypedParts DEF ChatInv
<1>2. /\ c \in Calls /\ c.at = "failed" /\ c.session = chats[i].session
      /\ c.prompt = chats[i].prompt
    BY <1>1 DEF Calls
<1>3. chats' = [chats EXCEPT ![i] = c] /\ chats[i].at = "asked"
    BY DEF Fails
<1>4. c.prompt # <<>> => WasAnswered(c.prompt, c.session)
    BY <1>2 DEF ChatInv, PromptsAreWhole, WasAnswered
<1>. HIDE DEF c
<1>. QED
    BY <1>2, <1>3, <1>4, OneCall DEF Fails

LEMMA ChunkKeeps == ASSUME ChatInv, NEW i \in Sends, Chunk(i) PROVE ChatInv'
<1>. DEFINE c == [chats[i] EXCEPT !.chunks = chats[i].chunks + 1]
<1>1. chats[i] \in Calls /\ DOMAIN chats = Sends
    BY TypedParts DEF ChatInv
<1>2. /\ c \in Calls /\ c.at = chats[i].at /\ c.session = chats[i].session
      /\ c.prompt = chats[i].prompt
    BY <1>1 DEF Calls
<1>3. chats' = [chats EXCEPT ![i] = c] /\ chats[i].at = "asked"
    BY DEF Chunk
<1>4. c.prompt # <<>> => WasAnswered(c.prompt, c.session)
    BY <1>2 DEF ChatInv, PromptsAreWhole, WasAnswered
<1>. HIDE DEF c
<1>. QED
    BY <1>2, <1>3, <1>4, OneCall DEF Chunk

\* The prompt is the session's history, which is what has been answered so far.
LEMMA AskModelKeeps == ASSUME ChatInv, NEW i \in Sends, AskModel(i) PROVE ChatInv'
<1>. DEFINE o == chats[i].session
            prompt == LastOf(sessions[o].messages, parlour.max)
            c == [chats[i] EXCEPT !.at = "asked", !.prompt = prompt]
<1>1. chats[i] \in Calls /\ DOMAIN chats = Sends /\ parlour.max \in Nat \ {0}
    BY TypedParts DEF ChatInv
<1>2. chats[i].at = "context" /\ o \in DOMAIN sessions
    BY DEF AskModel, ChatInv, CallsHaveSessions
<1>3. exchanged[o] \in Seq(Sends) /\ sessions[o].messages = LastOf(Told(exchanged[o]), parlour.max)
    BY <1>2, TypedParts DEF ChatInv, SessionsAreWhole
<1>. HIDE DEF o
<1>4. /\ Told(exchanged[o]) \in Seq(Messages(Sends))
      /\ Len(Told(exchanged[o])) = 2 * Len(exchanged[o])
    BY <1>3, ToldIs
<1>5. prompt = LastOf(Told(exchanged[o]), parlour.max) /\ prompt \in Seq(Messages(Sends))
    BY <1>1, <1>3, <1>4, ShortIsWhole, LastAre
<1>6. prompt # <<>> => WasAnswered(prompt, o)
  <2>1. SUFFICES ASSUME prompt # <<>> PROVE exchanged[o] # <<>>
    <3>1. ASSUME exchanged[o] # <<>>
          PROVE  \E n \in DOMAIN exchanged[o] : SubSeq(exchanged[o], 1, n) = exchanged[o]
        BY <1>3, <3>1, AllIsPrefix
    <3>. QED
        BY <1>2, <1>5, <2>1, <3>1 DEF o, WasAnswered
  <2>2. SUFFICES ASSUME exchanged[o] = <<>> PROVE FALSE
      OBVIOUS
  <2>3. Len(Told(exchanged[o])) = 0
      BY <1>4, <2>2
  <2>4. Len(LastOf(Told(exchanged[o]), parlour.max)) = 0
    <3>1. Len(LastOf(Told(exchanged[o]), parlour.max)) = Keeps(Len(Told(exchanged[o])), parlour.max)
        BY <1>1, <1>4, LastAre
    <3>. QED
        BY <1>1, <2>3, <3>1 DEF Keeps
  <2>. QED
      BY <1>5, <2>1, <2>4, EmptySeq
<1>. HIDE DEF prompt
<1>7. /\ c \in Calls /\ c.at = "asked" /\ c.session = chats[i].session /\ c.prompt = prompt
    BY <1>1, <1>5 DEF Calls
<1>8. chats' = [chats EXCEPT ![i] = c]
    BY DEF AskModel, prompt, o
<1>9. c.prompt # <<>> => WasAnswered(c.prompt, c.session)
    BY <1>6, <1>7 DEF o
<1>. HIDE DEF c
<1>. QED
    BY <1>2, <1>7, <1>8, <1>9, OneCall DEF AskModel

LEMMA NothingTold == ASSUME NEW max \in Nat \ {0}, NEW S PROVE LastOf(Told(<<>>), max) = <<>>
<1>1. <<>> \in Seq(S) /\ Len(<<>>) = 0
    OBVIOUS
<1>2. Told(<<>>) \in Seq(Messages(S)) /\ Len(Told(<<>>)) = 0
  <2>. DEFINE c == <<>>
  <2>1. c \in Seq(S) /\ Len(c) = 0
      BY <1>1
  <2>. HIDE DEF c
  <2>2. Told(c) \in Seq(Messages(S)) /\ Len(Told(c)) = 2 * Len(c)
      BY <2>1, ToldIs
  <2>. QED
      BY <2>1, <2>2 DEF c
<1>3. /\ LastOf(Told(<<>>), max) \in Seq(Messages(S))
      /\ Len(LastOf(Told(<<>>), max)) = Keeps(Len(Told(<<>>)), max)
    BY <1>2, LastAre
<1>4. Len(LastOf(Told(<<>>), max)) = 0
    BY <1>2, <1>3 DEF Keeps
<1>. QED
    BY <1>3, <1>4, EmptySeq

\* A message is accepted: an object is found or made, and nothing is said in it yet.
LEMMA SendKeeps == ASSUME ChatInv, NEW i \in Sends, Send(i) PROVE ChatInv'
<1>. DEFINE s == parlour.sends[i]
            known == Found(s.session, s.agent)
            object == IF known THEN sessionOf[s.session] ELSE Len(sessions) + 1
            made == IF known THEN sessions ELSE Append(sessions, NewSession(s.session, s.agent))
<1>0. /\ parlour.max \in Nat \ {0} /\ Len(sessions) \in Nat /\ DOMAIN sessions = 1..Len(sessions)
      /\ DOMAIN exchanged = 1..Len(sessions) /\ DOMAIN chats = Sends /\ chats[i] \in Calls
      /\ \A x \in DOMAIN sessions : sessions[x] \in Objects
    BY TypedParts DEF ChatInv
<1>1. chats[i] = Unsent /\ UNCHANGED <<parlour, persisted>>
    BY DEF Send
<1>2. CASE s.agent \in inactive
  <2>. DEFINE c == [chats[i] EXCEPT !.at = "failed"]
  <2>1. c \in Calls /\ c.at = "failed" /\ c.prompt = <<>> /\ chats[i].at = "unsent"
    <3>1. chats[i].at = "unsent" /\ chats[i].prompt = <<>>
        BY <1>1 DEF Unsent
    <3>. QED
        BY <1>0, <3>1 DEF Calls
  <2>2. chats' = [chats EXCEPT ![i] = c] /\ UNCHANGED <<sessions, sessionOf, exchanged>>
      BY <1>2 DEF Send
  <2>. HIDE DEF c
  <2>. QED
      BY <1>1, <2>1, <2>2, OneCall
<1>3. CASE s.agent \notin inactive
  <2>1. /\ sessions' = [made EXCEPT ![object].messages = Untouched(@, i)]
        /\ sessionOf' = [id \in DOMAIN sessionOf \cup {s.session} |->
                            IF id = s.session THEN object ELSE sessionOf[id]]
        /\ chats' = [chats EXCEPT ![i].at = "context", ![i].session = object]
        /\ exchanged' = IF known THEN exchanged ELSE Append(exchanged, <<>>)
      BY <1>3 DEF Send
  <2>. DEFINE fresh == NewSession(s.session, s.agent)
  <2>2. fresh \in Objects /\ fresh.agent = s.agent /\ fresh.messages = <<>>
      BY DEF NewSession, Objects
  <2>. HIDE DEF fresh
  <2>3. /\ made \in Seq(Objects) /\ object \in DOMAIN made /\ made[object].agent = s.agent
        /\ \A x \in DOMAIN sessions : x \in DOMAIN made /\ made[x] = sessions[x]
        /\ \A x \in DOMAIN made : x \in DOMAIN sessions \/ (x = Len(sessions) + 1 /\ ~known)
        /\ ~known => made[Len(sessions) + 1] = fresh
        /\ Len(made) = IF known THEN Len(sessions) ELSE Len(sessions) + 1
    <3>1. CASE known
      <4>1. object \in DOMAIN sessions /\ sessions[object].agent = s.agent
          BY <3>1 DEF ChatInv, SessionsAreTyped, Found
      <4>2. made = sessions /\ sessions \in Seq(Objects)
          BY <3>1 DEF ChatInv, SessionsAreTyped
      <4>. HIDE DEF made, object, known
      <4>. QED
          BY <3>1, <4>1, <4>2
    <3>2. CASE ~known
      <4>1. made = Append(sessions, fresh) /\ sessions \in Seq(Objects) /\ object = Len(sessions) + 1
          BY <3>2 DEF ChatInv, SessionsAreTyped, fresh
      <4>. HIDE DEF made, object, known
      <4>2. /\ made \in Seq(Objects) /\ Len(made) = Len(sessions) + 1
            /\ DOMAIN made = 1..(Len(sessions) + 1)
            /\ \A x \in 1..Len(sessions) : made[x] = sessions[x]
            /\ made[Len(sessions) + 1] = fresh
          BY <2>2, <4>1, AppendProperties, LenProperties
      <4>. QED
          BY <1>0, <2>2, <3>2, <4>1, <4>2
    <3>. QED
        BY <3>1, <3>2
  <2>4. /\ \A x \in DOMAIN sessions : exchanged'[x] = exchanged[x]
        /\ ~known => exchanged'[Len(sessions) + 1] = <<>>
        /\ exchanged' \in Seq(Seq(Sends)) /\ Len(exchanged') = Len(made)
    <3>1. exchanged \in Seq(Seq(Sends)) /\ <<>> \in Seq(Sends) /\ Len(exchanged) = Len(sessions)
        BY DEF ChatInv, SessionsAreTyped
    <3>. HIDE DEF made, object, known
    <3>2. CASE known
        BY <2>1, <2>3, <3>1, <3>2
    <3>3. CASE ~known
      <4>1. exchanged' = Append(exchanged, <<>>)
          BY <2>1, <3>3
      <4>2. /\ exchanged' \in Seq(Seq(Sends)) /\ Len(exchanged') = Len(exchanged) + 1
            /\ \A x \in 1..Len(exchanged) : exchanged'[x] = exchanged[x]
            /\ exchanged'[Len(exchanged) + 1] = <<>>
          BY <3>1, <4>1, AppendProperties
      <4>. QED
          BY <1>0, <2>3, <3>1, <3>3, <4>2
    <3>. QED
        BY <3>2, <3>3
  <2>. HIDE DEF made, object
  <2>5. sessions' = made
    <3>1. DOMAIN made = 1..Len(made) /\ made = [x \in 1..Len(made) |-> made[x]]
          /\ \A x \in DOMAIN made : made[x] \in Objects
        BY <2>3, LenProperties, ElementOfSeq
    <3>2. [made[object] EXCEPT !.messages = made[object].messages] = made[object]
        BY <2>3, <3>1 DEF Objects
    <3>3. sessions' = [made EXCEPT ![object] = [made[object] EXCEPT !.messages = made[object].messages]]
        BY <2>1 DEF Untouched
    <3>4. sessions' = [made EXCEPT ![object] = made[object]]
        BY <3>2, <3>3
    <3>. QED
        BY <3>1, <3>4
  <2>. DEFINE c == [chats[i] EXCEPT !.at = "context", !.session = object]
  <2>6. DOMAIN made = 1..Len(made) /\ Len(made) \in Nat
      BY <2>3, LenProperties
  <2>7. /\ c \in Calls /\ c.at = "context" /\ c.session = object /\ c.prompt = <<>>
    <3>1. object \in Nat
        BY <2>3, <2>6
    <3>2. chats[i].at = "unsent" /\ chats[i].prompt = <<>>
        BY <1>1 DEF Unsent
    <3>. QED
        BY <1>0, <3>1, <3>2 DEF Calls
  <2>8. \A j \in Sends : chats'[j] = IF j = i THEN c ELSE chats[j]
      BY <1>0, <2>1
  <2>9. chats' \in [Sends -> Calls] /\ chats[i].at = "unsent"
    <3>1. chats' = [chats EXCEPT ![i] = c]
        BY <2>1
    <3>. HIDE DEF c
    <3>. QED
        BY <1>1, <2>7, <3>1 DEF ChatInv, SessionsAreTyped, Unsent
  <2>. HIDE DEF c
  <2>10. Sends' = Sends /\ Objects' = Objects /\ Calls' = Calls
      BY <1>1 DEF Sends, Objects, Calls
  <2>11. SessionsAreTyped'
    <3>1. \A id \in DOMAIN sessionOf' : sessionOf'[id] \in DOMAIN sessions'
        BY <2>1, <2>3, <2>5 DEF ChatInv, SessionsAreTyped
    <3>2. parlour' \in Parlours
        BY <1>1 DEF ChatInv, SessionsAreTyped
    <3>. QED
        BY <2>3, <2>4, <2>5, <2>9, <2>10, <3>1, <3>2 DEF SessionsAreTyped
  <2>12. CallsHaveSessions'
    <3>1. ASSUME NEW j \in Sends, chats'[j].at \in {"context", "asked", "answered"}
          PROVE  /\ chats'[j].session \in DOMAIN sessions'
                 /\ sessions'[chats'[j].session].agent = parlour.sends[j].agent
      <4>1. CASE j = i
          BY <2>3, <2>5, <2>7, <2>8, <4>1
      <4>2. CASE j # i
          BY <2>3, <2>5, <2>8, <3>1, <4>2 DEF ChatInv, CallsHaveSessions
      <4>. QED
          BY <4>1, <4>2
    <3>. QED
        BY <1>1, <2>10, <3>1 DEF CallsHaveSessions
  <2>13. SessionsAreWhole'
    <3>1. ASSUME NEW x \in DOMAIN made
          PROVE  /\ made[x].messages = LastOf(Told(exchanged'[x]), parlour.max)
                 /\ \A j \in ToSet(exchanged'[x]) : parlour.sends[j].agent = made[x].agent
      <4>1. CASE x \in DOMAIN sessions
        <5>1. made[x] = sessions[x] /\ exchanged'[x] = exchanged[x]
            BY <2>3, <2>4, <4>1
        <5>. QED
            BY <4>1, <5>1 DEF ChatInv, SessionsAreWhole
      <4>2. CASE x \notin DOMAIN sessions
        <5>1. made[x] = fresh /\ exchanged'[x] = <<>>
            BY <2>3, <2>4, <4>2
        <5>2. ToSet(<<>>) = {}
            BY DEF ToSet
        <5>3. LastOf(Told(<<>>), parlour.max) = <<>>
            BY <1>0, NothingTold
        <5>. QED
            BY <2>2, <5>1, <5>2, <5>3
      <4>. QED
          BY <4>1, <4>2
    <3>. QED
        BY <1>1, <2>5, <3>1 DEF SessionsAreWhole
  <2>14. PromptsAreWhole'
    <3>1. ASSUME NEW j \in Sends, chats'[j].prompt # <<>>
          PROVE  /\ chats'[j].session \in DOMAIN sessions'
                 /\ \E n \in DOMAIN exchanged'[chats'[j].session] :
                       chats'[j].prompt = LastOf(Told(SubSeq(exchanged'[chats'[j].session], 1, n)),
                                                 parlour.max)
      <4>1. chats'[j] = chats[j]
          BY <2>7, <2>8, <3>1
      <4>2. /\ chats[j].session \in DOMAIN sessions
            /\ \E n \in DOMAIN exchanged[chats[j].session] :
                  chats[j].prompt = LastOf(Told(SubSeq(exchanged[chats[j].session], 1, n)), parlour.max)
          BY <3>1, <4>1 DEF ChatInv, PromptsAreWhole
      <4>3. exchanged'[chats[j].session] = exchanged[chats[j].session]
          BY <2>4, <4>2
      <4>. QED
          BY <2>3, <2>5, <4>1, <4>2, <4>3
    <3>. QED
        BY <1>1, <2>10, <3>1 DEF PromptsAreWhole
  <2>15. RememberedWasAnswered'
      BY <1>1, <2>8, <2>9, <2>10 DEF ChatInv, RememberedWasAnswered
  <2>. QED
      BY <2>11, <2>12, <2>13, <2>14, <2>15 DEF ChatInv
<1>. QED
    BY <1>2, <1>3

\* An exchange is answered: whatever was told in the session meanwhile, it follows it.
LEMMA FinalizeKeeps ==
    ASSUME ChatInv, NEW i \in Sends, NEW stored \in BOOLEAN, Finalize(i, stored)
    PROVE  ChatInv'
<1>. DEFINE o == chats[i].session
            e == Exchange(i)
            told == LastOf(sessions[o].messages \o e, parlour.max)
            object == [sessions[o] EXCEPT !.messages = told]
            done == Append(exchanged[o], i)
            c == [chats[i] EXCEPT !.at = "answered"]
<1>0. /\ parlour.max \in Nat \ {0} /\ Len(sessions) \in Nat /\ DOMAIN sessions = 1..Len(sessions)
      /\ DOMAIN exchanged = 1..Len(sessions) /\ DOMAIN chats = Sends /\ chats[i] \in Calls
      /\ \A x \in DOMAIN sessions : sessions[x] \in Objects /\ exchanged[x] \in Seq(Sends)
    BY TypedParts DEF ChatInv
<1>1. /\ chats[i].at = "asked" /\ UNCHANGED <<parlour, sessionOf>>
      /\ chats' = [chats EXCEPT ![i] = c]
      /\ sessions' = [sessions EXCEPT ![o] = object]
      /\ exchanged' = [exchanged EXCEPT ![o] = done]
      /\ persisted' \subseteq persisted \cup {i}
    BY DEF Finalize
<1>2. /\ o \in DOMAIN sessions /\ sessions[o].agent = parlour.sends[i].agent
      /\ sessions[o].messages = LastOf(Told(exchanged[o]), parlour.max)
      /\ \A j \in ToSet(exchanged[o]) : parlour.sends[j].agent = sessions[o].agent
    BY <1>1 DEF ChatInv, CallsHaveSessions, SessionsAreWhole
<1>3. /\ c \in Calls /\ c.at = "answered" /\ c.session = o /\ c.prompt = chats[i].prompt
    BY <1>0 DEF Calls
<1>4. done \in Seq(Sends) /\ ToSet(done) = ToSet(exchanged[o]) \cup {i}
  <2>. DEFINE d == exchanged[o]
  <2>1. d \in Seq(Sends)
      BY <1>0, <1>2
  <2>. HIDE DEF d
  <2>2. /\ Append(d, i) \in Seq(Sends) /\ DOMAIN Append(d, i) = 1..(Len(d) + 1)
        /\ DOMAIN d = 1..Len(d) /\ Len(d) \in Nat
        /\ \A j \in 1..Len(d) : Append(d, i)[j] = d[j]
        /\ Append(d, i)[Len(d) + 1] = i
      BY <2>1, AppendProperties, LenProperties
  <2>3. ToSet(Append(d, i)) = ToSet(d) \cup {i}
      BY <2>2 DEF ToSet
  <2>. QED
      BY <2>2, <2>3 DEF d
<1>5. told = LastOf(Told(done), parlour.max) /\ told \in Seq(Messages(Sends))
  <2>. DEFINE d == exchanged[o]
              t == Told(d)
  <2>1. d \in Seq(Sends)
      BY <1>0, <1>2
  <2>2. Told(Append(d, i)) = Told(d) \o Exchange(i)
      BY <2>1, ToldOneMore
  <2>3. t \in Seq(Messages(Sends))
      BY <2>1, ToldIs
  <2>4. e \in Seq(Messages(Sends))
      BY DEF Exchange, Messages
  <2>5. told = LastOf(LastOf(t, parlour.max) \o e, parlour.max)
      BY <1>2
  <2>6. Told(done) = t \o e
      BY <2>2
  <2>. HIDE DEF t, e, told, done, d
  <2>7. LastOf(LastOf(t, parlour.max) \o e, parlour.max) = LastOf(t \o e, parlour.max)
      BY <1>0, <2>3, <2>4, LastOfLast
  <2>8. t \o e \in Seq(Messages(Sends))
      BY <2>3, <2>4, ConcatProperties
  <2>9. LastOf(t \o e, parlour.max) \in Seq(Messages(Sends))
      BY <1>0, <2>8, LastAre
  <2>. QED
      BY <2>5, <2>6, <2>7, <2>9
<1>. HIDE DEF told
<1>6. object \in Objects /\ object.messages = told /\ object.agent = sessions[o].agent
    BY <1>0, <1>2, <1>5 DEF Objects
<1>. HIDE DEF object, done, c, o
<1>7. /\ sessions' \in Seq(Objects) /\ Len(sessions') = Len(sessions)
      /\ DOMAIN sessions' = DOMAIN sessions
      /\ \A x \in DOMAIN sessions : sessions'[x] = IF x = o THEN object ELSE sessions[x]
  <2>1. sessions \in Seq(Objects) /\ o \in 1..Len(sessions)
      BY <1>0, <1>2 DEF ChatInv, SessionsAreTyped
  <2>2. /\ [sessions EXCEPT ![o] = object] \in Seq(Objects)
        /\ Len([sessions EXCEPT ![o] = object]) = Len(sessions)
        /\ \A x \in 1..Len(sessions) :
              [sessions EXCEPT ![o] = object][x] = IF x = o THEN object ELSE sessions[x]
      BY <1>6, <2>1, ExceptSeq
  <2>. QED
      BY <1>0, <1>1, <2>2
<1>8. /\ exchanged' \in Seq(Seq(Sends)) /\ Len(exchanged') = Len(sessions)
      /\ DOMAIN exchanged' = DOMAIN exchanged
      /\ \A x \in DOMAIN sessions : exchanged'[x] = IF x = o THEN done ELSE exchanged[x]
  <2>1. exchanged \in Seq(Seq(Sends)) /\ o \in 1..Len(exchanged) /\ Len(exchanged) = Len(sessions)
      BY <1>0, <1>2 DEF ChatInv, SessionsAreTyped
  <2>2. /\ [exchanged EXCEPT ![o] = done] \in Seq(Seq(Sends))
        /\ Len([exchanged EXCEPT ![o] = done]) = Len(exchanged)
        /\ \A x \in 1..Len(exchanged) :
              [exchanged EXCEPT ![o] = done][x] = IF x = o THEN done ELSE exchanged[x]
      BY <1>4, <2>1, ExceptSeq
  <2>. QED
      BY <1>0, <1>1, <2>1, <2>2
<1>9. chats' \in [Sends -> Calls] /\ \A j \in Sends : chats'[j] = IF j = i THEN c ELSE chats[j]
    BY <1>0, <1>1, <1>3 DEF ChatInv, SessionsAreTyped
<1>10. Sends' = Sends /\ Objects' = Objects /\ Calls' = Calls
    BY <1>1 DEF Sends, Objects, Calls
<1>11. SessionsAreTyped'
  <2>1. \A id \in DOMAIN sessionOf' : sessionOf'[id] \in DOMAIN sessions'
      BY <1>1, <1>7 DEF ChatInv, SessionsAreTyped
  <2>2. parlour' \in Parlours
      BY <1>1 DEF ChatInv, SessionsAreTyped
  <2>. QED
      BY <1>7, <1>8, <1>9, <1>10, <2>1, <2>2 DEF SessionsAreTyped
<1>12. CallsHaveSessions'
  <2>1. ASSUME NEW j \in Sends, chats'[j].at \in {"context", "asked", "answered"}
        PROVE  /\ chats'[j].session \in DOMAIN sessions'
               /\ sessions'[chats'[j].session].agent = parlour.sends[j].agent
    <3>1. /\ chats'[j].session = chats[j].session
          /\ chats[j].session \in DOMAIN sessions
          /\ sessions[chats[j].session].agent = parlour.sends[j].agent
      <4>1. CASE j = i
          BY <1>2, <1>3, <1>9, <4>1 DEF o
      <4>2. CASE j # i
          BY <1>9, <2>1, <4>2 DEF ChatInv, CallsHaveSessions
      <4>. QED
          BY <4>1, <4>2
    <3>. QED
        BY <1>6, <1>7, <3>1
  <2>. QED
      BY <1>1, <1>10, <2>1 DEF CallsHaveSessions
<1>13. SessionsAreWhole'
  <2>1. ASSUME NEW x \in DOMAIN sessions
        PROVE  /\ sessions'[x].messages = LastOf(Told(exchanged'[x]), parlour.max)
               /\ \A j \in ToSet(exchanged'[x]) : parlour.sends[j].agent = sessions'[x].agent
    <3>1. CASE x = o
      <4>1. sessions'[x] = object /\ exchanged'[x] = done
          BY <1>7, <1>8, <3>1
      <4>. QED
          BY <1>2, <1>4, <1>5, <1>6, <4>1
    <3>2. CASE x # o
      <4>1. sessions'[x] = sessions[x] /\ exchanged'[x] = exchanged[x]
          BY <1>7, <1>8, <3>2
      <4>. QED
          BY <4>1 DEF ChatInv, SessionsAreWhole
    <3>. QED
        BY <3>1, <3>2
  <2>. QED
      BY <1>1, <1>7, <2>1 DEF SessionsAreWhole
<1>14. PromptsAreWhole'
  <2>1. ASSUME NEW j \in Sends, chats'[j].prompt # <<>>
        PROVE  /\ chats'[j].session \in DOMAIN sessions'
               /\ \E n \in DOMAIN exchanged'[chats'[j].session] :
                     chats'[j].prompt = LastOf(Told(SubSeq(exchanged'[chats'[j].session], 1, n)),
                                               parlour.max)
    <3>1. chats'[j].prompt = chats[j].prompt /\ chats'[j].session = chats[j].session
      <4>1. CASE j = i
          BY <1>3, <1>9, <4>1 DEF o
      <4>2. CASE j # i
          BY <1>9, <4>2
      <4>. QED
          BY <4>1, <4>2
    <3>. DEFINE x == chats[j].session
    <3>2. x \in DOMAIN sessions
        BY <2>1, <3>1 DEF ChatInv, PromptsAreWhole
    <3>3. PICK n \in DOMAIN exchanged[x] :
             chats[j].prompt = LastOf(Told(SubSeq(exchanged[x], 1, n)), parlour.max)
        BY <2>1, <3>1 DEF ChatInv, PromptsAreWhole
    <3>. HIDE DEF x
    <3>4. n \in DOMAIN exchanged'[x] /\ SubSeq(exchanged'[x], 1, n) = SubSeq(exchanged[x], 1, n)
      <4>1. CASE x = o
        <5>1. exchanged'[x] = Append(exchanged[x], i) /\ exchanged[x] \in Seq(Sends)
            BY <1>0, <1>8, <3>2, <4>1 DEF done
        <5>. DEFINE d == exchanged[x]
        <5>2. d \in Seq(Sends) /\ n \in DOMAIN d
            BY <3>3, <5>1
        <5>. HIDE DEF d
        <5>3. n \in DOMAIN Append(d, i) /\ SubSeq(Append(d, i), 1, n) = SubSeq(d, 1, n)
            BY <5>2, PrefixStays
        <5>. QED
            BY <5>1, <5>3 DEF d
      <4>2. CASE x # o
          BY <1>8, <3>2, <3>3, <4>2
      <4>. QED
          BY <4>1, <4>2
    <3>5. \E k \in DOMAIN exchanged'[x] :
             chats[j].prompt = LastOf(Told(SubSeq(exchanged'[x], 1, k)), parlour.max)
        BY <3>3, <3>4
    <3>. QED
        BY <1>7, <3>1, <3>2, <3>5 DEF x
  <2>. QED
      BY <1>1, <1>10, <2>1 DEF PromptsAreWhole
<1>15. RememberedWasAnswered'
    BY <1>1, <1>3, <1>9, <1>10 DEF ChatInv, RememberedWasAnswered
<1>. QED
    BY <1>11, <1>12, <1>13, <1>14, <1>15 DEF ChatInv

LEMMA ChatStep == ChatInv /\ [ChatNext]_chatVars => ChatInv'
<1>. SUFFICES ASSUME ChatInv, [ChatNext]_chatVars PROVE ChatInv'
    OBVIOUS
<1>1. CASE UNCHANGED chatVars
    BY <1>1 DEF chatVars, ChatInv, SessionsAreTyped, CallsHaveSessions, SessionsAreWhole,
                PromptsAreWhole, RememberedWasAnswered, Objects, Calls, Sends
<1>2. ASSUME NEW a \in parlour.stops, StopAgent(a) PROVE ChatInv'
    BY <1>2, StopAgentKeeps
<1>3. ASSUME NEW i \in Sends, Send(i) \/ AskModel(i) \/ Chunk(i) \/ Fails(i) PROVE ChatInv'
    BY <1>3, SendKeeps, AskModelKeeps, ChunkKeeps, FailsKeeps
<1>4. ASSUME NEW i \in Sends, NEW stored \in BOOLEAN, Finalize(i, stored) PROVE ChatInv'
    BY <1>4, FinalizeKeeps
<1>. QED
    BY <1>1, <1>2, <1>3, <1>4 DEF ChatNext

LEMMA InvIsWhole == ChatInv => ExchangesAreWhole
<1>. SUFFICES ASSUME ChatInv PROVE ExchangesAreWhole
    OBVIOUS
<1>1. ASSUME NEW i \in Sends,
             NEW m \in ToSet(History(parlour.sends[i].agent, parlour.sends[i].session))
      PROVE  parlour.sends[m.of].agent = parlour.sends[i].agent
  <2>. DEFINE a == parlour.sends[i].agent
              id == parlour.sends[i].session
              s == sessionOf[id]
  <2>1. ToSet(<<>>) = {}
      BY DEF ToSet
  <2>3. CASE Found(id, a)
    <3>1. s \in DOMAIN sessions /\ sessions[s].agent = a
        BY <2>3 DEF ChatInv, SessionsAreTyped, Found
    <3>2. m \in ToSet(LastOf(Told(exchanged[s]), parlour.max))
        BY <2>3, <3>1 DEF History, ChatInv, SessionsAreWhole
    <3>3. exchanged[s] \in Seq(Sends) /\ parlour.max \in Nat \ {0}
        BY <3>1, TypedParts DEF ChatInv
    <3>. HIDE DEF s, a
    <3>4. m.of \in ToSet(exchanged[s])
        BY <3>2, <3>3, KeptWasTold
    <3>5. parlour.sends[m.of].agent = a
        BY <3>1, <3>4 DEF ChatInv, SessionsAreWhole
    <3>. QED
        BY <3>5 DEF a
  <2>4. CASE ~Found(id, a)
      BY <2>1, <2>4 DEF History
  <2>. QED
      BY <2>3, <2>4
<1>. QED
    BY <1>1 DEF ExchangesAreWhole, ChatInv, SessionsAreWhole, PromptsAreWhole, RememberedWasAnswered

\* However the calls of a session overlap, fail and are cut off, and whatever is stopped
\* meanwhile, its history is the latest whole exchanges of one agent, in the order in which
\* they were answered, and so is every prompt (ChatPlugin.ts:168-321).
THEOREM ChatsStayWhole == ChatSpec => []ExchangesAreWhole
<1>. QED
    BY ChatStarts, ChatStep, InvIsWhole, PTL DEF ChatSpec

-----------------------------------------------------------------------------
(***************************************************************************)
(* The studio.                                                             *)
(***************************************************************************)
LEMMA RemoveAtIs ==
    ASSUME NEW S, NEW m \in Seq(S), NEW i \in 1..Len(m)
    PROVE  /\ RemoveAt(m, i) \in Seq(S) /\ Len(RemoveAt(m, i)) = Len(m) - 1
           /\ \A j \in 1..(Len(m) - 1) : RemoveAt(m, i)[j] = IF j < i THEN m[j] ELSE m[j + 1]
<1>. DEFINE n == Len(m)
            p == SubSeq(m, 1, i - 1)
            q == SubSeq(m, i + 1, n)
<1>1. n \in Nat /\ i \in 1..n /\ \A j \in 1..n : m[j] \in S
    BY LenProperties, ElementOfSeq
<1>2. RemoveAt(m, i) = p \o q
    BY DEF RemoveAt
<1>. HIDE DEF n
<1>3. p \in Seq(S) /\ Len(p) = i - 1 /\ \A j \in 1..(i - 1) : p[j] = m[j]
  <2>. DEFINE b == i - 1
  <2>1. 1 \in Int /\ b \in Int /\ \A j \in 1..b : m[j] \in S
      BY <1>1
  <2>. HIDE DEF b
  <2>2. /\ SubSeq(m, 1, b) \in Seq(S)
        /\ Len(SubSeq(m, 1, b)) = IF 1 <= b THEN b - 1 + 1 ELSE 0
        /\ \A j \in 1..(b - 1 + 1) : SubSeq(m, 1, b)[j] = m[1 + j - 1]
      BY <2>1, SubSeqProperties
  <2>3. Len(SubSeq(m, 1, b)) = b /\ \A j \in 1..b : SubSeq(m, 1, b)[j] = m[j]
      BY <1>1, <2>2 DEF b
  <2>. QED
      BY <2>2, <2>3 DEF b
<1>4. q \in Seq(S) /\ Len(q) = n - i /\ \A j \in 1..(n - i) : q[j] = m[i + j]
  <2>. DEFINE a == i + 1
  <2>1. a \in Int /\ n \in Int /\ \A j \in a..n : m[j] \in S
      BY <1>1
  <2>. HIDE DEF a
  <2>2. /\ SubSeq(m, a, n) \in Seq(S)
        /\ Len(SubSeq(m, a, n)) = IF a <= n THEN n - a + 1 ELSE 0
        /\ \A j \in 1..(n - a + 1) : SubSeq(m, a, n)[j] = m[a + j - 1]
      BY <2>1, SubSeqProperties
  <2>3. Len(SubSeq(m, a, n)) = n - i /\ \A j \in 1..(n - i) : SubSeq(m, a, n)[j] = m[i + j]
      BY <1>1, <2>2 DEF a
  <2>. QED
      BY <2>2, <2>3 DEF a
<1>. HIDE DEF p, q
<1>5. /\ p \o q \in Seq(S) /\ Len(p \o q) = Len(p) + Len(q)
      /\ \A j \in 1..(Len(p) + Len(q)) : (p \o q)[j] = IF j <= Len(p) THEN p[j] ELSE q[j - Len(p)]
    BY <1>3, <1>4, ConcatProperties
<1>6. Len(p) + Len(q) = n - 1
    BY <1>1, <1>3, <1>4
<1>7. ASSUME NEW j \in 1..(n - 1)
      PROVE  (p \o q)[j] = IF j < i THEN m[j] ELSE m[j + 1]
  <2>1. CASE j < i
    <3>1. j \in 1..(i - 1) /\ j <= Len(p)
        BY <1>1, <1>3, <2>1
    <3>2. (p \o q)[j] = p[j] /\ p[j] = m[j]
        BY <1>3, <1>5, <1>6, <3>1
    <3>. QED
        BY <2>1, <3>2
  <2>2. CASE ~(j < i)
    <3>1. ~(j <= Len(p)) /\ j - Len(p) \in 1..(n - i) /\ i + (j - Len(p)) = j + 1
        BY <1>1, <1>3, <2>2
    <3>2. (p \o q)[j] = q[j - Len(p)] /\ q[j - Len(p)] = m[i + (j - Len(p))]
        BY <1>4, <1>5, <1>6, <3>1
    <3>. QED
        BY <2>2, <3>1, <3>2
  <2>. QED
      BY <2>1, <2>2
<1>. QED
    BY <1>2, <1>5, <1>6, <1>7 DEF n

-----------------------------------------------------------------------------
Engine == [world : Worlds, status : {"running", "stopped", "failed"}, tick : Nat, acts : Nat]
Run == [world : Worlds, status : {"running", "stopped"}, tick : Nat, final : Int,
        analysis : {<<>>} \cup (Int \X BOOLEAN)]
Message == [kind : {"tick", "snapshot"}, world : Worlds, tick : Nat]
Answer == [world : Worlds, tick : Nat]
Request == [kind : {"world", "agents"}, world : Worlds, data : {<<>>} \cup {<<d>> : d \in Answer}]
Analysis == [run : DOMAIN runs, acts : Int, ended : BOOLEAN]

StudioTypes ==
    /\ desk \in DeskType
    /\ engines \in Seq(Engine) /\ runs \in Seq(Run) /\ Len(runs) = Len(engines) /\ Len(runs) >= 1
    /\ \A r \in DOMAIN runs : runs[r].world = engines[r].world
    /\ worlds \in Seq(DOMAIN runs)
    /\ wire \in Seq(Message) /\ requests \subseteq Request /\ asked \subseteq Analysis
    /\ selected \in Worlds /\ shown \in [world : Worlds, tick : Nat, agents : Worlds]
    /\ crossed \in BOOLEAN

\* The runs of which the property speaks.
Single == DOMAIN runs \ ({1} \cup reused)

\* The Map has one run of a world; no other engine of that world is running.
MapIsSingle ==
    /\ \A i, j \in DOMAIN worlds : runs[worlds[i]].world = runs[worlds[j]].world => i = j
    /\ \A r \in Single \cap ToSet(worlds) : \A e \in DOMAIN engines :
          e # r /\ engines[e].world = runs[r].world => engines[e].status # "running"

\* A final report is final, for the analyses that have been made and those under way.
FinalIsFinal ==
    /\ \A r \in Single : runs[r].analysis # <<>> /\ runs[r].analysis[2] => runs[r].status = "stopped"
    /\ \A x \in asked : x.run \in Single /\ x.ended =>
          runs[x.run].status = "stopped" /\ x.acts = runs[x.run].final

Reached(w, t) == \E e \in DOMAIN engines : engines[e].world = w /\ t <= engines[e].tick
Due(kind) == \E q \in requests : q.kind = kind /\ q.world = selected

\* What is on its way to the dashboard has been reached.
NewsIsTrue ==
    /\ \A i \in DOMAIN wire : Reached(wire[i].world, wire[i].tick)
    /\ \A q \in requests : q.data # <<>> => Reached(q.data[1].world, q.data[1].tick)

\* The selected world is shown, or an answer about it is due.
ShownOrDue ==
    ~crossed => /\ (shown.world = selected /\ Reached(selected, shown.tick)) \/ Due("world")
                /\ shown.agents = selected \/ Due("agents")

StudioInv ==
    /\ StudioTypes
    /\ MapIsSingle
    /\ RunsAreAccountedFor
    /\ FinalIsFinal
    /\ NewsIsTrue
    /\ ShownOrDue

\* The parts as facts.
LEMMA StudioParts ==
    ASSUME StudioTypes
    PROVE  /\ Len(engines) \in Nat /\ Len(engines) >= 1
           /\ DOMAIN engines = 1..Len(engines) /\ DOMAIN runs = 1..Len(engines)
           /\ \A e \in DOMAIN engines : engines[e] \in Engine /\ runs[e] \in Run
           /\ DOMAIN worlds = 1..Len(worlds) /\ Len(worlds) \in Nat
           /\ \A i \in DOMAIN worlds : worlds[i] \in DOMAIN runs
           /\ ToSet(worlds) \subseteq DOMAIN runs
           /\ DOMAIN wire = 1..Len(wire) /\ Len(wire) \in Nat
           /\ \A i \in DOMAIN wire : wire[i] \in Message
<1>. USE DEF StudioTypes
<1>1. Len(engines) \in Nat /\ DOMAIN engines = 1..Len(engines) /\ DOMAIN runs = 1..Len(engines)
    BY LenProperties
<1>2. \A e \in DOMAIN engines : engines[e] \in Engine /\ runs[e] \in Run
    BY <1>1, ElementOfSeq
<1>3. DOMAIN worlds = 1..Len(worlds) /\ Len(worlds) \in Nat
      /\ \A i \in DOMAIN worlds : worlds[i] \in DOMAIN runs
    BY LenProperties, ElementOfSeq
<1>4. DOMAIN wire = 1..Len(wire) /\ Len(wire) \in Nat /\ \A i \in DOMAIN wire : wire[i] \in Message
    BY LenProperties, ElementOfSeq
<1>. QED
    BY <1>1, <1>2, <1>3, <1>4 DEF ToSet

LEMMA StudioStarts == StudioInit => StudioInv
<1>. SUFFICES ASSUME StudioInit PROVE StudioInv
    OBVIOUS
<1>. USE DEF StudioInit
<1>1. desk \in DeskType /\ desk.host \in Worlds
    BY DesksAreSound DEF DeskType
<1>2. NewEngine(desk.host) \in Engine /\ NewRun(desk.host) \in Run
    BY <1>1 DEF NewEngine, NewRun, Engine, Run
<1>3. /\ DOMAIN engines = {1} /\ engines[1] = NewEngine(desk.host) /\ Len(engines) = 1
      /\ DOMAIN runs = {1} /\ runs[1] = NewRun(desk.host) /\ Len(runs) = 1
      /\ DOMAIN worlds = {1} /\ worlds[1] = 1 /\ DOMAIN wire = {}
    OBVIOUS
<1>4. StudioTypes
  <2>1. engines \in Seq(Engine) /\ runs \in Seq(Run) /\ worlds \in Seq(DOMAIN runs)
      BY <1>2, <1>3
  <2>2. runs[1].world = engines[1].world
      BY <1>3 DEF NewRun, NewEngine
  <2>3. wire \in Seq(Message)
      OBVIOUS
  <2>4. shown \in [world : Worlds, tick : Nat, agents : Worlds]
      BY <1>1
  <2>5. \A r \in DOMAIN runs : runs[r].world = engines[r].world
      BY <1>3, <2>2
  <2>6. desk \in DeskType /\ selected \in Worlds /\ requests \subseteq Request
        /\ asked \subseteq Analysis /\ crossed \in BOOLEAN
      BY <1>1
  <2>7. Len(runs) = Len(engines) /\ Len(runs) >= 1
      BY <1>3
  <2>. QED
      BY <2>1, <2>3, <2>4, <2>5, <2>6, <2>7 DEF StudioTypes
<1>5. MapIsSingle /\ RunsAreAccountedFor /\ FinalIsFinal
    BY <1>3 DEF MapIsSingle, RunsAreAccountedFor, FinalIsFinal, Single
<1>6. NewsIsTrue
    BY <1>3 DEF NewsIsTrue
<1>7. ShownOrDue
    BY <1>3 DEF ShownOrDue, Reached, NewEngine
<1>. QED
    BY <1>4, <1>5, <1>6, <1>7 DEF StudioInv

-----------------------------------------------------------------------------
\* A step of the dashboard leaves the runs alone.
RunsRest == UNCHANGED <<engines, worlds, runs, asked, reused>>

LEMMA RestKeepsRuns ==
    ASSUME StudioInv, RunsRest
    PROVE  MapIsSingle' /\ RunsAreAccountedFor' /\ FinalIsFinal'
BY DEF RunsRest, StudioInv, MapIsSingle, RunsAreAccountedFor, FinalIsFinal, Single

LEMMA RestKeepsTypes ==
    ASSUME StudioInv, RunsRest,
           desk' \in DeskType, wire' \in Seq(Message), requests' \subseteq Request,
           selected' \in Worlds, shown' \in [world : Worlds, tick : Nat, agents : Worlds],
           crossed' \in BOOLEAN
    PROVE  StudioTypes'
BY DEF RunsRest, StudioInv, StudioTypes, Request, Analysis, Engine, Run, Message, Answer

LEMMA SelectKeeps ==
    ASSUME StudioInv, NEW r \in DOMAIN runs, Select(runs[r].world)
    PROVE  StudioInv'
<1>. DEFINE w == runs[r].world
            new == {[kind |-> k, world |-> w, data |-> <<>>] : k \in {"world", "agents"}}
<1>1. /\ RunsRest /\ selected' = w /\ requests' = requests \cup new
      /\ desk' = [desk EXCEPT !.picks = @ - 1] /\ desk.picks > 0 /\ UNCHANGED <<wire, shown, crossed>>
    BY DEF Select, RunsRest
<1>2. w \in Worlds /\ desk \in DeskType
    BY StudioParts DEF StudioInv, StudioTypes, Run
<1>3. desk' \in DeskType
    BY <1>1, <1>2 DEF DeskType
<1>4. new \subseteq Request /\ \A q \in new : q.data = <<>>
    BY <1>2 DEF Request
<1>5. /\ \E q \in new : q.kind = "world" /\ q.world = w
      /\ \E q \in new : q.kind = "agents" /\ q.world = w
  <2>1. [kind |-> "world", world |-> w, data |-> <<>>] \in new
        /\ [kind |-> "agents", world |-> w, data |-> <<>>] \in new
      OBVIOUS
  <2>. HIDE DEF new, w
  <2>. QED
      BY <2>1
<1>. HIDE DEF new, w
<1>6. StudioTypes'
    BY <1>1, <1>2, <1>3, <1>4, RestKeepsTypes DEF StudioInv, StudioTypes
<1>7. NewsIsTrue'
    BY <1>1, <1>4 DEF StudioInv, NewsIsTrue, Reached, RunsRest
<1>8. ShownOrDue'
    BY <1>1, <1>5 DEF ShownOrDue, Due
<1>. QED
    BY <1>1, <1>6, <1>7, <1>8, RestKeepsRuns DEF StudioInv

LEMMA ServeKeeps == ASSUME StudioInv, NEW q \in requests, Serve(q) PROVE StudioInv'
<1>. DEFINE e == GetEngine(q.world)
            d == [world |-> engines[e].world, tick |-> engines[e].tick]
            a == [q EXCEPT !.data = <<d>>]
<1>1. /\ RunsRest /\ requests' = (requests \ {q}) \cup {a}
      /\ UNCHANGED <<desk, selected, wire, shown, crossed>>
    BY DEF Serve, RunsRest
<1>2. q \in Request
    BY DEF StudioInv, StudioTypes
<1>3. e \in DOMAIN engines
  <2>1. Len(engines) \in DOMAIN engines /\ DOMAIN runs = DOMAIN engines
        /\ ToSet(worlds) \subseteq DOMAIN runs
      BY StudioParts DEF StudioInv
  <2>2. Active(q.world) \subseteq DOMAIN engines
      BY <2>1 DEF Active
  <2>. QED
      BY <2>1, <2>2 DEF GetEngine
<1>. HIDE DEF e
<1>4. d \in Answer /\ d.world = engines[e].world /\ d.tick = engines[e].tick
    BY <1>3, StudioParts DEF StudioInv, Answer, Engine
<1>. HIDE DEF d
<1>5. /\ a \in Request /\ a.kind = q.kind /\ a.world = q.world /\ a.data = <<d>> /\ a.data[1] = d
  <2>1. a = [kind |-> q.kind, world |-> q.world, data |-> <<d>>]
      BY <1>2 DEF Request
  <2>. HIDE DEF a
  <2>. QED
      BY <1>2, <1>4, <2>1 DEF Request
<1>6. Reached(d.world, d.tick)
  <2>1. engines[e].tick \in Nat
      BY <1>3, StudioParts DEF StudioInv, Engine
  <2>. QED
      BY <1>3, <1>4, <2>1 DEF Reached
<1>. HIDE DEF a
<1>7. StudioTypes'
    BY <1>1, <1>5, RestKeepsTypes DEF StudioInv, StudioTypes
<1>8. NewsIsTrue'
    BY <1>1, <1>5, <1>6 DEF StudioInv, NewsIsTrue, Reached, RunsRest
<1>9. ShownOrDue'
  <2>1. ASSUME NEW kind, Due(kind) PROVE Due(kind)'
    <3>1. PICK x \in requests : x.kind = kind /\ x.world = selected
        BY <2>1 DEF Due
    <3>2. CASE x = q
        BY <1>1, <1>5, <3>1, <3>2 DEF Due
    <3>3. CASE x # q
        BY <1>1, <3>1, <3>3 DEF Due
    <3>. QED
        BY <3>2, <3>3
  <2>2. Due("world") => Due("world")'
      BY <2>1
  <2>3. Due("agents") => Due("agents")'
      BY <2>1
  <2>4. Reached(selected, shown.tick) => Reached(selected, shown.tick)'
      BY <1>1 DEF Reached, RunsRest
  <2>5. ShownOrDue
      BY DEF StudioInv
  <2>. QED
      BY <1>1, <2>2, <2>3, <2>4, <2>5 DEF ShownOrDue
<1>. QED
    BY <1>1, <1>7, <1>8, <1>9, RestKeepsRuns DEF StudioInv

LEMMA AnsweredKeeps == ASSUME StudioInv, NEW q \in requests, Answered(q) PROVE StudioInv'
<1>. DEFINE d == q.data[1]
<1>1. /\ RunsRest /\ requests' = requests \ {q} /\ q.data # <<>>
      /\ shown' = IF q.kind = "agents" THEN [shown EXCEPT !.agents = d.world]
                  ELSE [shown EXCEPT !.world = d.world, !.tick = d.tick]
      /\ crossed' = (crossed \/ d.world # selected)
      /\ UNCHANGED <<desk, selected, wire>>
    BY DEF Answered, RunsRest
<1>2. q \in Request /\ shown \in [world : Worlds, tick : Nat, agents : Worlds]
    BY DEF StudioInv, StudioTypes
<1>3. d \in Answer /\ q.kind \in {"world", "agents"}
  <2>1. PICK x \in Answer : q.data = <<x>>
      BY <1>1, <1>2 DEF Request
  <2>2. d = x
      BY <2>1
  <2>. QED
      BY <1>2, <2>2 DEF Request
<1>4. Reached(d.world, d.tick)
    BY <1>1 DEF StudioInv, NewsIsTrue
<1>. HIDE DEF d
<1>5. /\ shown' \in [world : Worlds, tick : Nat, agents : Worlds]
      /\ q.kind = "agents" => shown'.agents = d.world /\ shown'.world = shown.world
                              /\ shown'.tick = shown.tick
      /\ q.kind = "world" => shown'.world = d.world /\ shown'.tick = d.tick
                             /\ shown'.agents = shown.agents
  <2>1. CASE q.kind = "agents"
      BY <1>1, <1>2, <1>3, <2>1 DEF Answer
  <2>2. CASE q.kind = "world"
      BY <1>1, <1>2, <1>3, <2>2 DEF Answer
  <2>. QED
      BY <1>3, <2>1, <2>2
<1>6. StudioTypes'
  <2>1. crossed' \in BOOLEAN
      BY <1>1
  <2>. QED
      BY <1>1, <1>5, <2>1, RestKeepsTypes DEF StudioInv, StudioTypes
<1>7. NewsIsTrue'
    BY <1>1 DEF StudioInv, NewsIsTrue, Reached, RunsRest
<1>8. ShownOrDue'
  <2>. SUFFICES ASSUME ~crossed'
                PROVE  /\ (shown'.world = selected /\ Reached(selected, shown'.tick)) \/ Due("world")'
                       /\ shown'.agents = selected \/ Due("agents")'
      BY <1>1 DEF ShownOrDue, Reached, RunsRest
  <2>1. ~crossed /\ d.world = selected
      BY <1>1
  <2>2. /\ (shown.world = selected /\ Reached(selected, shown.tick)) \/ Due("world")
        /\ shown.agents = selected \/ Due("agents")
      BY <2>1 DEF StudioInv, ShownOrDue
  <2>3. ASSUME NEW kind, kind # q.kind, Due(kind) PROVE Due(kind)'
      BY <1>1, <2>3 DEF Due
  <2>4. CASE q.kind = "agents"
    <3>1. Due("world") => Due("world")'
        BY <2>3, <2>4
    <3>. QED
        BY <1>5, <2>1, <2>2, <2>4, <3>1
  <2>5. CASE q.kind = "world"
    <3>1. Due("agents") => Due("agents")'
        BY <2>3, <2>5
    <3>. QED
        BY <1>4, <1>5, <2>1, <2>2, <2>5, <3>1
  <2>. QED
      BY <1>3, <2>4, <2>5
<1>. QED
    BY <1>1, <1>6, <1>7, <1>8, RestKeepsRuns DEF StudioInv

\* A message on the wire: what was there stays as it was.
LEMMA WireGrows ==
    ASSUME StudioTypes, NEW m \in Message
    PROVE  /\ Append(wire, m) \in Seq(Message)
           /\ \A i \in DOMAIN Append(wire, m) :
                 (i \in DOMAIN wire /\ Append(wire, m)[i] = wire[i]) \/ Append(wire, m)[i] = m
<1>1. wire \in Seq(Message) /\ DOMAIN wire = 1..Len(wire) /\ Len(wire) \in Nat
    BY StudioParts DEF StudioTypes
<1>2. /\ Append(wire, m) \in Seq(Message) /\ DOMAIN Append(wire, m) = 1..(Len(wire) + 1)
      /\ \A i \in 1..Len(wire) : Append(wire, m)[i] = wire[i]
      /\ Append(wire, m)[Len(wire) + 1] = m
    BY <1>1, AppendProperties, LenProperties
<1>. QED
    BY <1>1, <1>2

LEMMA RequestSnapshotKeeps == ASSUME StudioInv, RequestSnapshot PROVE StudioInv'
<1>. DEFINE e == Head(worlds)
            m == [kind |-> "snapshot", world |-> engines[e].world, tick |-> engines[e].tick]
<1>1. /\ RunsRest /\ worlds # <<>> /\ wire' = Append(wire, m)
      /\ UNCHANGED <<desk, requests, selected, shown, crossed>>
    BY DEF RequestSnapshot, RunsRest, Quiet, Post
<1>2. e \in DOMAIN engines
  <2>1. worlds \in Seq(DOMAIN runs) /\ DOMAIN runs = DOMAIN engines
      BY StudioParts DEF StudioInv, StudioTypes
  <2>. QED
      BY <1>1, <2>1, HeadTailProperties
<1>. HIDE DEF e
<1>3. engines[e] \in Engine
    BY <1>2, StudioParts DEF StudioInv
<1>4. m \in Message /\ m.world = engines[e].world /\ m.tick = engines[e].tick
    BY <1>3 DEF Engine, Message
<1>. HIDE DEF m
<1>5. Reached(m.world, m.tick)
  <2>1. engines[e].tick \in Nat
      BY <1>3 DEF Engine
  <2>. QED
      BY <1>2, <1>4, <2>1 DEF Reached
<1>6. /\ wire' \in Seq(Message)
      /\ \A i \in DOMAIN wire' : (i \in DOMAIN wire /\ wire'[i] = wire[i]) \/ wire'[i] = m
    BY <1>1, <1>4, WireGrows DEF StudioInv
<1>7. StudioTypes'
    BY <1>1, <1>6, RestKeepsTypes DEF StudioInv, StudioTypes
<1>8. NewsIsTrue'
  <2>1. \A i \in DOMAIN wire' : Reached(wire'[i].world, wire'[i].tick)
      BY <1>5, <1>6 DEF StudioInv, NewsIsTrue
  <2>. QED
      BY <1>1, <2>1 DEF StudioInv, NewsIsTrue, Reached, RunsRest
<1>9. ShownOrDue'
    BY <1>1 DEF StudioInv, ShownOrDue, Reached, Due, RunsRest
<1>. QED
    BY <1>1, <1>7, <1>8, <1>9, RestKeepsRuns DEF StudioInv

LEMMA ReceivedKeeps == ASSUME StudioInv, Received PROVE StudioInv'
<1>. DEFINE m == Head(wire)
<1>1. /\ RunsRest /\ wire # <<>> /\ wire' = Tail(wire)
      /\ shown' = IF ~(m.world = selected) THEN shown
                  ELSE IF m.kind = "tick" THEN [shown EXCEPT !.tick = m.tick]
                  ELSE [world |-> m.world, tick |-> m.tick, agents |-> m.world]
      /\ UNCHANGED <<desk, requests, selected, crossed>>
    BY DEF Received, RunsRest, Concerns
<1>2. wire \in Seq(Message) /\ DOMAIN wire = 1..Len(wire) /\ Len(wire) \in Nat
      /\ shown \in [world : Worlds, tick : Nat, agents : Worlds]
    BY StudioParts DEF StudioInv, StudioTypes
<1>3. /\ m \in Message /\ m = wire[1] /\ 1 \in DOMAIN wire
      /\ wire' \in Seq(Message) /\ Len(wire') = Len(wire) - 1
      /\ \A i \in 1..(Len(wire) - 1) : wire'[i] = wire[i + 1]
    BY <1>1, <1>2, HeadTailProperties, EmptySeq
<1>4. DOMAIN wire' = 1..(Len(wire) - 1)
    BY <1>3, LenProperties
<1>5. Reached(m.world, m.tick)
    BY <1>3 DEF StudioInv, NewsIsTrue
<1>. HIDE DEF m
<1>6. /\ shown' \in [world : Worlds, tick : Nat, agents : Worlds]
      /\ m.world # selected => shown' = shown
      /\ m.world = selected =>
            \/ shown'.world = shown.world /\ shown'.agents = shown.agents /\ shown'.tick = m.tick
            \/ shown'.world = m.world /\ shown'.agents = m.world /\ shown'.tick = m.tick
  <2>1. CASE m.world # selected
      BY <1>1, <1>2, <2>1
  <2>2. CASE m.world = selected /\ m.kind = "tick"
      BY <1>1, <1>2, <1>3, <2>2 DEF Message
  <2>3. CASE m.world = selected /\ m.kind # "tick"
      BY <1>1, <1>2, <1>3, <2>3 DEF Message
  <2>. QED
      BY <2>1, <2>2, <2>3
<1>7. StudioTypes'
    BY <1>1, <1>3, <1>6, RestKeepsTypes DEF StudioInv, StudioTypes
<1>8. NewsIsTrue'
  <2>1. ASSUME NEW i \in DOMAIN wire' PROVE Reached(wire'[i].world, wire'[i].tick)
    <3>1. i + 1 \in DOMAIN wire /\ wire'[i] = wire[i + 1]
        BY <1>2, <1>3, <1>4
    <3>. QED
        BY <3>1 DEF StudioInv, NewsIsTrue
  <2>. QED
      BY <1>1, <2>1 DEF StudioInv, NewsIsTrue, Reached, RunsRest
<1>9. ShownOrDue'
  <2>. SUFFICES ASSUME ~crossed
                PROVE  /\ (shown'.world = selected /\ Reached(selected, shown'.tick)) \/ Due("world")
                       /\ shown'.agents = selected \/ Due("agents")
      BY <1>1 DEF ShownOrDue, Reached, Due, RunsRest
  <2>1. /\ (shown.world = selected /\ Reached(selected, shown.tick)) \/ Due("world")
        /\ shown.agents = selected \/ Due("agents")
      BY DEF StudioInv, ShownOrDue
  <2>2. CASE m.world # selected
      BY <1>6, <2>1, <2>2
  <2>3. CASE m.world = selected
      BY <1>5, <1>6, <2>1, <2>3
  <2>. QED
      BY <2>2, <2>3
<1>. QED
    BY <1>1, <1>7, <1>8, <1>9, RestKeepsRuns DEF StudioInv

-----------------------------------------------------------------------------
\* A step of the engines and runs: the engines go on, and so does what has been reached; of
\* the dashboard's only the wire may change, by a message of what has been reached by then.
EnginesGoOn ==
    \A e \in DOMAIN engines : /\ e \in DOMAIN engines' /\ engines'[e].world = engines[e].world
                              /\ engines'[e].tick \in Nat /\ engines[e].tick <= engines'[e].tick

LEMMA GoneOnIsReached ==
    ASSUME StudioInv, EnginesGoOn, NEW w, NEW t \in Nat, Reached(w, t)
    PROVE  Reached(w, t)'
<1>1. PICK e \in DOMAIN engines : engines[e].world = w /\ t <= engines[e].tick
    BY DEF Reached
<1>2. e \in DOMAIN engines' /\ engines'[e].world = w /\ t <= engines'[e].tick
  <2>1. engines[e].tick \in Nat
      BY StudioParts DEF StudioInv, Engine
  <2>. QED
      BY <1>1, <2>1 DEF EnginesGoOn
<1>. QED
    BY <1>2 DEF Reached

LEMMA GoneOnKeepsShown ==
    ASSUME StudioInv, EnginesGoOn, UNCHANGED <<requests, selected, shown, crossed>>
    PROVE  ShownOrDue'
<1>1. shown.tick \in Nat
    BY DEF StudioInv, StudioTypes
<1>2. Reached(selected, shown.tick) => Reached(selected, shown.tick)'
  <2>. DEFINE w == selected
              t == shown.tick
  <2>1. \A v, n : v = w /\ n = t /\ Reached(v, n) => Reached(v, n)'
    <3>1. ASSUME NEW v, NEW n, v = w, n = t, Reached(v, n) PROVE Reached(v, n)'
        BY <1>1, <3>1, GoneOnIsReached
    <3>. QED
        BY <3>1
  <2>. QED
      BY <2>1 DEF Reached
<1>. QED
    BY <1>2 DEF StudioInv, ShownOrDue, Due

LEMMA GoneOnKeepsNews ==
    ASSUME StudioInv, EnginesGoOn, UNCHANGED requests,
           \/ UNCHANGED wire
           \/ \E m \in Message : wire' = Append(wire, m) /\ Reached(m.world, m.tick)'
    PROVE  NewsIsTrue'
<1>1. ASSUME NEW q \in requests, q.data # <<>> PROVE Reached(q.data[1].world, q.data[1].tick)'
  <2>1. q \in Request
      BY DEF StudioInv, StudioTypes
  <2>2. PICK x \in Answer : q.data = <<x>>
      BY <1>1, <2>1 DEF Request
  <2>3. q.data[1] = x /\ x.tick \in Nat
      BY <2>2 DEF Answer
  <2>4. Reached(x.world, x.tick)
      BY <1>1, <2>3 DEF StudioInv, NewsIsTrue
  <2>5. Reached(x.world, x.tick)'
      BY <2>3, <2>4, GoneOnIsReached
  <2>. QED
      BY <2>3, <2>5 DEF Reached
<1>2. ASSUME NEW i \in DOMAIN wire PROVE Reached(wire[i].world, wire[i].tick) /\ wire[i] \in Message
    BY StudioParts DEF StudioInv, NewsIsTrue
<1>3. ASSUME NEW i \in DOMAIN wire'
      PROVE  \E e \in DOMAIN engines' : engines'[e].world = wire'[i].world
                                        /\ wire'[i].tick <= engines'[e].tick
  <2>1. PICK x \in Message : wire'[i] = x /\ (Reached(x.world, x.tick) \/ Reached(x.world, x.tick)')
    <3>1. CASE UNCHANGED wire
        BY <1>2, <3>1
    <3>2. CASE \E m \in Message : wire' = Append(wire, m) /\ Reached(m.world, m.tick)'
      <4>1. PICK m \in Message : wire' = Append(wire, m) /\ Reached(m.world, m.tick)'
          BY <3>2
      <4>2. (i \in DOMAIN wire /\ wire'[i] = wire[i]) \/ wire'[i] = m
          BY <4>1, WireGrows DEF StudioInv
      <4>. QED
          BY <1>2, <4>1, <4>2
    <3>. QED
        BY <3>1, <3>2
  <2>2. x.tick \in Nat
      BY DEF Message
  <2>3. Reached(x.world, x.tick)'
      BY <2>1, <2>2, GoneOnIsReached
  <2>. QED
      BY <2>1, <2>3 DEF Reached
<1>. QED
    BY <1>1, <1>3 DEF NewsIsTrue, Reached

LEMMA RunsKeepTypes ==
    ASSUME StudioInv, UNCHANGED <<desk, requests, selected, shown, crossed>>,
           engines' \in Seq(Engine), runs' \in Seq(Run),
           Len(runs') = Len(engines'), Len(runs') >= 1,
           \A r \in DOMAIN runs' : runs'[r].world = engines'[r].world,
           worlds' \in Seq(DOMAIN runs'), wire' \in Seq(Message), asked' \subseteq Analysis'
    PROVE  StudioTypes'
BY DEF StudioInv, StudioTypes, Engine, Run, Message, Request, Answer

\* An engine's record, and a run's, with some fields changed, at its place.
LEMMA EngineChanges ==
    ASSUME StudioTypes, NEW e \in DOMAIN engines, NEW x \in Engine, x.world = engines[e].world,
           engines' = [engines EXCEPT ![e] = x]
    PROVE  /\ engines' \in Seq(Engine) /\ Len(engines') = Len(engines)
           /\ DOMAIN engines' = DOMAIN engines
           /\ \A y \in DOMAIN engines : engines'[y] = IF y = e THEN x ELSE engines[y]
<1>1. engines \in Seq(Engine) /\ e \in 1..Len(engines)
    BY StudioParts DEF StudioTypes
<1>2. /\ [engines EXCEPT ![e] = x] \in Seq(Engine)
      /\ Len([engines EXCEPT ![e] = x]) = Len(engines)
      /\ \A y \in 1..Len(engines) : [engines EXCEPT ![e] = x][y] = IF y = e THEN x ELSE engines[y]
    BY <1>1, ExceptSeq
<1>. QED
    BY <1>1, <1>2, StudioParts

LEMMA EngineFailsKeeps == ASSUME StudioInv, NEW e \in DOMAIN engines, EngineFails(e) PROVE StudioInv'
<1>. DEFINE x == [engines[e] EXCEPT !.status = "failed"]
<1>1. /\ engines' = [engines EXCEPT ![e] = x] /\ engines[e].status = "running"
      /\ UNCHANGED <<desk, requests, selected, shown, crossed, worlds, runs, wire, asked, reused>>
    BY DEF EngineFails, Quiet
<1>2. engines[e] \in Engine /\ DOMAIN runs = DOMAIN engines
    BY StudioParts DEF StudioInv
<1>3. /\ x \in Engine /\ x.world = engines[e].world /\ x.tick = engines[e].tick
      /\ x.status = "failed" /\ x.acts = engines[e].acts
    BY <1>2 DEF Engine
<1>. HIDE DEF x
<1>4. /\ engines' \in Seq(Engine) /\ Len(engines') = Len(engines)
      /\ DOMAIN engines' = DOMAIN engines
      /\ \A y \in DOMAIN engines : engines'[y] = IF y = e THEN x ELSE engines[y]
    BY <1>1, <1>3, EngineChanges DEF StudioInv
<1>5. EnginesGoOn
  <2>1. \A y \in DOMAIN engines : engines[y].tick \in Nat
      BY StudioParts DEF StudioInv, Engine
  <2>. QED
      BY <1>3, <1>4, <2>1 DEF EnginesGoOn
<1>6. StudioTypes'
  <2>1. \A r \in DOMAIN runs : runs[r].world = engines'[r].world
      BY <1>2, <1>3, <1>4 DEF StudioInv, StudioTypes
  <2>2. Analysis' = Analysis
      BY <1>1 DEF Analysis
  <2>3. /\ runs \in Seq(Run) /\ Len(runs) = Len(engines) /\ Len(runs) >= 1
        /\ worlds \in Seq(DOMAIN runs) /\ wire \in Seq(Message) /\ asked \subseteq Analysis
      BY DEF StudioInv, StudioTypes
  <2>. QED
      BY <1>1, <1>4, <2>1, <2>2, <2>3, RunsKeepTypes
<1>7. NewsIsTrue' /\ ShownOrDue'
    BY <1>1, <1>5, GoneOnKeepsNews, GoneOnKeepsShown
<1>8. Single' = Single
    BY <1>1 DEF Single
<1>9. MapIsSingle'
    BY <1>1, <1>3, <1>4, <1>8 DEF StudioInv, MapIsSingle
<1>10. RunsAreAccountedFor'
  <2>1. ASSUME NEW r \in Single
        PROVE  /\ engines'[r].status = "stopped" <=> engines[r].status = "stopped"
               /\ engines'[r].tick = engines[r].tick /\ engines'[r].acts = engines[r].acts
      BY <1>1, <1>2, <1>3, <1>4 DEF Single
  <2>. QED
      BY <1>1, <2>1 DEF StudioInv, RunsAreAccountedFor, Single
<1>11. FinalIsFinal'
    BY <1>1, <1>8 DEF StudioInv, FinalIsFinal
<1>. QED
    BY <1>6, <1>7, <1>9, <1>10, <1>11 DEF StudioInv

LEMMA EngineTickKeeps == ASSUME StudioInv, NEW e \in DOMAIN engines, EngineTick(e) PROVE StudioInv'
<1>. DEFINE w == engines[e].world
            x == [engines[e] EXCEPT !.tick = engines[e].tick + 1, !.acts = engines[e].acts + 2]
            m == [kind |-> "tick", world |-> w, tick |-> engines[e].tick + 1]
<1>1. /\ engines' = [engines EXCEPT ![e] = x] /\ engines[e].status = "running"
      /\ runs' = [r \in DOMAIN runs |->
            IF r \in Active(w) THEN [runs[r] EXCEPT !.tick = engines[e].tick + 1] ELSE runs[r]]
      /\ wire' = Append(wire, m)
      /\ UNCHANGED <<desk, requests, selected, shown, crossed, worlds, asked, reused>>
  <2>1. engines' = [engines EXCEPT ![e].tick = @ + 1, ![e].acts = @ + 2]
      BY DEF EngineTick
  <2>2. engines' = [engines EXCEPT ![e] = x]
      BY <2>1
  <2>. QED
      BY <2>2 DEF EngineTick, Quiet, Post
<1>2. engines[e] \in Engine /\ DOMAIN runs = DOMAIN engines /\ DOMAIN runs = 1..Len(runs)
      /\ \A r \in DOMAIN runs : runs[r] \in Run
  <2>1. engines[e] \in Engine /\ DOMAIN runs = DOMAIN engines /\ \A r \in DOMAIN runs : runs[r] \in Run
      BY StudioParts DEF StudioInv
  <2>. QED
      BY <2>1, LenProperties DEF StudioInv, StudioTypes
<1>3. /\ x \in Engine /\ x.world = w /\ x.tick = engines[e].tick + 1 /\ x.status = "running"
  <2>. DEFINE n == engines[e].tick + 1
              k == engines[e].acts + 2
  <2>1. n \in Nat /\ k \in Nat
      BY <1>2 DEF Engine
  <2>. HIDE DEF n, k
  <2>2. x = [engines[e] EXCEPT !.tick = n, !.acts = k]
      BY DEF n, k
  <2>. HIDE DEF x
  <2>3. /\ x \in Engine /\ x.world = w /\ x.tick = n /\ x.status = engines[e].status
      BY <1>2, <2>1, <2>2 DEF Engine
  <2>. QED
      BY <1>1, <2>3 DEF n
<1>4. m \in Message /\ m.world = w /\ m.tick = engines[e].tick + 1
    BY <1>2 DEF Engine, Message
<1>. DEFINE t == engines[e].tick + 1
<1>5. t \in Nat /\ w \in Worlds
    BY <1>2 DEF Engine
<1>. HIDE DEF x, m, t
<1>6. /\ engines' \in Seq(Engine) /\ Len(engines') = Len(engines)
      /\ DOMAIN engines' = DOMAIN engines
      /\ \A y \in DOMAIN engines : engines'[y] = IF y = e THEN x ELSE engines[y]
    BY <1>1, <1>3, EngineChanges DEF StudioInv
<1>7. /\ DOMAIN runs' = DOMAIN runs
      /\ \A r \in DOMAIN runs :
            /\ runs'[r] \in Run /\ runs'[r].world = runs[r].world /\ runs'[r].status = runs[r].status
            /\ runs'[r].final = runs[r].final /\ runs'[r].analysis = runs[r].analysis
            /\ runs'[r].tick = IF r \in Active(w) THEN t ELSE runs[r].tick
  <2>1. DOMAIN runs' = DOMAIN runs
      BY <1>1
  <2>2. ASSUME NEW r \in DOMAIN runs, r \in Active(w)
        PROVE  /\ runs'[r] \in Run /\ runs'[r].world = runs[r].world /\ runs'[r].status = runs[r].status
               /\ runs'[r].final = runs[r].final /\ runs'[r].analysis = runs[r].analysis
               /\ runs'[r].tick = t
    <3>1. runs'[r] = [runs[r] EXCEPT !.tick = t]
        BY <1>1, <2>2 DEF t
    <3>. QED
        BY <1>2, <1>5, <3>1 DEF Run
  <2>3. ASSUME NEW r \in DOMAIN runs, r \notin Active(w) PROVE runs'[r] = runs[r]
      BY <1>1, <2>3
  <2>. QED
      BY <1>2, <2>1, <2>2, <2>3
<1>8. runs' \in Seq(Run) /\ Len(runs') = Len(runs)
  <2>1. Len(runs) \in Nat
      BY LenProperties DEF StudioInv, StudioTypes
  <2>2. runs' \in [1..Len(runs) -> Run]
      BY <1>1, <1>2, <1>7
  <2>. QED
      BY <2>1, <2>2
<1>9. EnginesGoOn
  <2>1. \A y \in DOMAIN engines : engines[y].tick \in Nat
      BY StudioParts DEF StudioInv, Engine
  <2>2. engines[e].tick <= x.tick /\ x.tick \in Nat
      BY <1>3, <2>1
  <2>. QED
      BY <1>3, <1>6, <2>1, <2>2 DEF EnginesGoOn
<1>10. StudioTypes'
  <2>1. \A r \in DOMAIN runs' : runs'[r].world = engines'[r].world
      BY <1>2, <1>3, <1>6, <1>7 DEF StudioInv, StudioTypes
  <2>2. Analysis' = Analysis
      BY <1>7 DEF Analysis
  <2>3. /\ Len(runs) = Len(engines) /\ Len(runs) >= 1
        /\ worlds' \in Seq(DOMAIN runs') /\ asked \subseteq Analysis
      BY <1>1, <1>7 DEF StudioInv, StudioTypes
  <2>4. wire' \in Seq(Message)
      BY <1>1, <1>4, WireGrows DEF StudioInv
  <2>. QED
      BY <1>1, <1>6, <1>8, <2>1, <2>2, <2>3, <2>4, RunsKeepTypes
<1>11. NewsIsTrue' /\ ShownOrDue'
  <2>1. ASSUME NEW y, y = m PROVE Reached(y.world, y.tick)'
    <3>1. engines'[e] = x /\ x.tick \in Nat /\ x.tick <= x.tick /\ e \in DOMAIN engines'
        BY <1>3, <1>6 DEF Engine
    <3>2. y.world = x.world /\ y.tick = x.tick
        BY <1>3, <1>4, <2>1
    <3>. QED
        BY <3>1, <3>2 DEF Reached
  <2>2. \E y \in Message : wire' = Append(wire, y) /\ Reached(y.world, y.tick)'
      BY <1>1, <1>4, <2>1
  <2>. QED
      BY <1>1, <1>9, <2>2, GoneOnKeepsNews, GoneOnKeepsShown
<1>12. Single' = Single
    BY <1>1, <1>7 DEF Single
<1>13. MapIsSingle'
  <2>1. \A i \in DOMAIN worlds : worlds[i] \in DOMAIN runs
      BY StudioParts DEF StudioInv
  <2>2. \A i, j \in DOMAIN worlds : runs'[worlds[i]].world = runs'[worlds[j]].world => i = j
      BY <1>7, <2>1 DEF StudioInv, MapIsSingle
  <2>3. ASSUME NEW r \in Single \cap ToSet(worlds), NEW y \in DOMAIN engines,
               y # r, engines'[y].world = runs'[r].world
        PROVE  engines'[y].status # "running"
    <3>1. r \in DOMAIN runs /\ engines[y].world = runs[r].world
        BY <1>3, <1>6, <1>7, <2>3 DEF Single
    <3>2. engines[y].status # "running"
        BY <2>3, <3>1 DEF StudioInv, MapIsSingle
    <3>. QED
        BY <1>1, <1>6, <3>2
  <2>4. DOMAIN engines' = DOMAIN engines /\ worlds' = worlds
      BY <1>1, <1>6
  <2>. QED
      BY <1>12, <2>2, <2>3, <2>4 DEF MapIsSingle
\* The run whose tick it is, if the property speaks of it, is the engine's own.
<1>14. ASSUME NEW r \in Single
       PROVE  /\ engines'[r].status = engines[r].status
              /\ runs'[r].tick = engines'[r].tick
              /\ runs[r].status = "stopped" => engines'[r].acts = engines[r].acts
  <2>1. /\ r \in DOMAIN runs /\ r \in DOMAIN engines /\ runs[r].tick = engines[r].tick
        /\ runs[r].status = "stopped" <=> engines[r].status = "stopped"
        /\ r \in ToSet(worlds) <=> runs[r].status = "running"
      BY <1>2 DEF StudioInv, RunsAreAccountedFor, Single
  <2>2. CASE r = e
    <3>1. runs[r].status # "stopped"
        BY <1>1, <2>1, <2>2
    <3>2. runs[r].status = "running" /\ runs[r].world = w
        BY <1>2, <2>1, <2>2, <3>1 DEF Run, StudioInv, StudioTypes
    <3>3. r \in Active(w)
        BY <2>1, <3>2 DEF Active
    <3>4. runs'[r].tick = t /\ engines'[r] = x
        BY <1>6, <1>7, <2>1, <2>2, <3>3
    <3>. QED
        BY <1>1, <1>3, <2>2, <3>1, <3>4 DEF t
  <2>3. CASE r # e
    <3>1. r \notin Active(w)
      <4>1. ~(r \in ToSet(worlds) /\ engines[e].world = runs[r].world)
          BY <1>1, <2>3 DEF StudioInv, MapIsSingle
      <4>. QED
          BY <4>1 DEF Active
    <3>2. runs'[r].tick = runs[r].tick /\ engines'[r] = engines[r]
        BY <1>6, <1>7, <2>1, <2>3, <3>1
    <3>. QED
        BY <2>1, <3>2
  <2>. QED
      BY <2>2, <2>3
<1>15. RunsAreAccountedFor'
    BY <1>1, <1>7, <1>14 DEF StudioInv, RunsAreAccountedFor, Single
<1>16. FinalIsFinal'
    BY <1>1, <1>7, <1>12 DEF StudioInv, FinalIsFinal, Single, StudioTypes, Analysis
<1>. QED
    BY <1>10, <1>11, <1>13, <1>15, <1>16 DEF StudioInv

\* The Map without the run of a world, or as it is.
LEMMA WithoutIs ==
    ASSUME StudioInv, NEW w, NEW ends, ends = {} \/ ends = Active(w)
    PROVE  /\ Without(ends) \in Seq(DOMAIN runs)
           /\ ToSet(Without(ends)) = ToSet(worlds) \ ends
           /\ \A i, j \in DOMAIN Without(ends) :
                 runs[Without(ends)[i]].world = runs[Without(ends)[j]].world => i = j
<1>0. /\ worlds \in Seq(DOMAIN runs) /\ DOMAIN worlds = 1..Len(worlds) /\ Len(worlds) \in Nat
      /\ \A i \in DOMAIN worlds : worlds[i] \in DOMAIN runs
      /\ \A i, j \in DOMAIN worlds : runs[worlds[i]].world = runs[worlds[j]].world => i = j
    BY StudioParts DEF StudioInv, StudioTypes, MapIsSingle
<1>1. CASE ~\E i \in DOMAIN worlds : worlds[i] \in ends
  <2>1. Without(ends) = worlds
      BY <1>1 DEF Without
  <2>2. ToSet(worlds) \cap ends = {}
      BY <1>1 DEF ToSet
  <2>. QED
      BY <1>0, <2>1, <2>2
<1>2. CASE \E i \in DOMAIN worlds : worlds[i] \in ends
  <2>. DEFINE k == CHOOSE i \in DOMAIN worlds : worlds[i] \in ends
              rest == Without(ends)
              at(j) == IF j < k THEN j ELSE j + 1
  <2>1. k \in DOMAIN worlds /\ worlds[k] \in ends
      BY <1>2
  <2>2. rest = RemoveAt(worlds, k)
      BY <1>2 DEF Without
  <2>. HIDE DEF k, rest
  <2>3. ends = Active(w) /\ \A i \in DOMAIN worlds : worlds[i] \in ends => i = k
    <3>1. ends = Active(w)
        BY <2>1
    <3>2. \A i \in DOMAIN worlds : worlds[i] \in ends => runs[worlds[i]].world = w
        BY <3>1 DEF Active
    <3>. QED
        BY <1>0, <2>1, <3>1, <3>2
  <2>4. /\ rest \in Seq(DOMAIN runs) /\ Len(rest) = Len(worlds) - 1
        /\ \A j \in 1..(Len(worlds) - 1) : rest[j] = IF j < k THEN worlds[j] ELSE worlds[j + 1]
      BY <1>0, <2>1, <2>2, RemoveAtIs
  <2>5. DOMAIN rest = 1..(Len(worlds) - 1)
      BY <2>4, LenProperties
  <2>6. \A j \in DOMAIN rest : at(j) \in DOMAIN worlds /\ at(j) # k /\ rest[j] = worlds[at(j)]
      BY <1>0, <2>1, <2>4, <2>5
  <2>7. \A i, j \in DOMAIN rest : at(i) = at(j) => i = j
      BY <1>0, <2>1, <2>5
  <2>8. \A i, j \in DOMAIN rest : runs[rest[i]].world = runs[rest[j]].world => i = j
    <3>. SUFFICES ASSUME NEW i \in DOMAIN rest, NEW j \in DOMAIN rest,
                         runs[rest[i]].world = runs[rest[j]].world
                  PROVE  i = j
        OBVIOUS
    <3>1. at(i) = at(j)
        BY <1>0, <2>6
    <3>. QED
        BY <2>7, <3>1
  <2>9. ToSet(rest) = ToSet(worlds) \ ends
    <3>1. ASSUME NEW j \in DOMAIN rest PROVE rest[j] \in ToSet(worlds) \ ends
        BY <2>3, <2>6 DEF ToSet
    <3>2. ASSUME NEW i \in DOMAIN worlds, worlds[i] \notin ends
          PROVE  \E j \in DOMAIN rest : rest[j] = worlds[i]
      <4>1. i # k
          BY <2>1, <3>2
      <4>. DEFINE j == IF i < k THEN i ELSE i - 1
      <4>2. j \in DOMAIN rest /\ at(j) = i
          BY <1>0, <2>1, <2>5, <4>1
      <4>. HIDE DEF j
      <4>. QED
          BY <2>6, <4>2
    <3>. QED
        BY <3>1, <3>2 DEF ToSet
  <2>. QED
      BY <2>4, <2>8, <2>9 DEF rest
<1>. QED
    BY <1>1, <1>2

LEMMA EngineEndsKeeps == ASSUME StudioInv, NEW e \in DOMAIN engines, EngineEnds(e) PROVE StudioInv'
<1>. DEFINE w == engines[e].world
            x == [engines[e] EXCEPT !.status = "stopped"]
            ends == IF e = 1 THEN {} ELSE Active(w)
<1>1. /\ engines' = [engines EXCEPT ![e] = x] /\ engines[e].status = "running"
      /\ runs' = [r \in DOMAIN runs |->
            IF r \notin ends THEN runs[r]
            ELSE [runs[r] EXCEPT !.status = "stopped", !.tick = engines[r].tick,
                                 !.final = engines[r].acts]]
      /\ worlds' = Without(ends)
      /\ UNCHANGED <<desk, requests, selected, shown, crossed, wire, asked, reused>>
    BY DEF EngineEnds, Quiet, ToStop
<1>2. engines[e] \in Engine /\ DOMAIN runs = DOMAIN engines /\ DOMAIN runs = 1..Len(runs)
      /\ \A r \in DOMAIN runs : runs[r] \in Run /\ engines[r] \in Engine
  <2>1. engines[e] \in Engine /\ DOMAIN runs = DOMAIN engines
        /\ \A r \in DOMAIN runs : runs[r] \in Run /\ engines[r] \in Engine
      BY StudioParts DEF StudioInv
  <2>. QED
      BY <2>1, LenProperties DEF StudioInv, StudioTypes
<1>3. /\ x \in Engine /\ x.world = w /\ x.tick = engines[e].tick /\ x.status = "stopped"
      /\ x.acts = engines[e].acts
    BY <1>2 DEF Engine
<1>4. /\ Without(ends) \in Seq(DOMAIN runs)
      /\ ToSet(Without(ends)) = ToSet(worlds) \ ends
      /\ \A i, j \in DOMAIN Without(ends) :
            runs[Without(ends)[i]].world = runs[Without(ends)[j]].world => i = j
    BY WithoutIs
<1>5. ends \subseteq ToSet(worlds) /\ \A r \in ends : r \in DOMAIN runs /\ runs[r].world = w
    BY StudioParts DEF StudioInv, Active
<1>. HIDE DEF x
<1>6. /\ engines' \in Seq(Engine) /\ Len(engines') = Len(engines)
      /\ DOMAIN engines' = DOMAIN engines
      /\ \A y \in DOMAIN engines : engines'[y] = IF y = e THEN x ELSE engines[y]
    BY <1>1, <1>3, EngineChanges DEF StudioInv
\* Those that end and of which the property speaks are the engine's own.
<1>7. ASSUME NEW r \in Single PROVE r \in ends <=> r = e
  <2>1. /\ r \in DOMAIN runs /\ r # 1
        /\ runs[r].status = "stopped" <=> engines[r].status = "stopped"
        /\ r \in ToSet(worlds) <=> runs[r].status = "running"
      BY DEF StudioInv, RunsAreAccountedFor, Single
  <2>2. CASE r = e
    <3>1. runs[r].status = "running" /\ runs[r].world = w
        BY <1>1, <1>2, <2>1, <2>2 DEF Run, StudioInv, StudioTypes
    <3>. QED
        BY <2>1, <2>2, <3>1 DEF Active
  <2>3. CASE r # e
    <3>1. ~(r \in ToSet(worlds) /\ engines[e].world = runs[r].world)
        BY <1>1, <2>3 DEF StudioInv, MapIsSingle
    <3>. QED
        BY <1>5, <2>3, <3>1
  <2>. QED
      BY <2>2, <2>3
<1>. HIDE DEF ends
<1>8. /\ DOMAIN runs' = DOMAIN runs
      /\ \A r \in DOMAIN runs \ ends : runs'[r] = runs[r]
      /\ \A r \in DOMAIN runs \cap ends :
            /\ runs'[r] \in Run /\ runs'[r].world = runs[r].world
            /\ runs'[r].analysis = runs[r].analysis /\ runs'[r].status = "stopped"
            /\ runs'[r].tick = engines[r].tick /\ runs'[r].final = engines[r].acts
  <2>1. ASSUME NEW r \in DOMAIN runs \cap ends
        PROVE  /\ runs'[r] \in Run /\ runs'[r].world = runs[r].world
               /\ runs'[r].analysis = runs[r].analysis /\ runs'[r].status = "stopped"
               /\ runs'[r].tick = engines[r].tick /\ runs'[r].final = engines[r].acts
    <3>. DEFINE t == engines[r].tick
                a == engines[r].acts
    <3>1. t \in Nat /\ a \in Int
        BY <1>2 DEF Engine
    <3>2. runs'[r] = [runs[r] EXCEPT !.status = "stopped", !.tick = t, !.final = a]
        BY <1>1
    <3>. HIDE DEF t, a
    <3>3. /\ runs'[r] \in Run /\ runs'[r].world = runs[r].world
          /\ runs'[r].analysis = runs[r].analysis /\ runs'[r].status = "stopped"
          /\ runs'[r].tick = t /\ runs'[r].final = a
        BY <1>2, <3>1, <3>2 DEF Run
    <3>. QED
        BY <3>3 DEF t, a
  <2>. QED
      BY <1>1, <2>1
<1>9. runs' \in Seq(Run) /\ Len(runs') = Len(runs)
  <2>1. Len(runs) \in Nat
      BY LenProperties DEF StudioInv, StudioTypes
  <2>2. \A r \in DOMAIN runs : runs'[r] \in Run
      BY <1>2, <1>8
  <2>3. runs' \in [1..Len(runs) -> Run]
      BY <1>1, <1>2, <2>2
  <2>. QED
      BY <2>1, <2>3
<1>10. \A r \in DOMAIN runs : runs'[r].world = runs[r].world
    BY <1>8
<1>11. EnginesGoOn
  <2>1. \A y \in DOMAIN engines : engines[y].tick \in Nat
      BY <1>2 DEF Engine
  <2>. QED
      BY <1>3, <1>6, <2>1 DEF EnginesGoOn
<1>12. StudioTypes'
  <2>1. \A r \in DOMAIN runs' : runs'[r].world = engines'[r].world
      BY <1>2, <1>3, <1>6, <1>8, <1>10 DEF StudioInv, StudioTypes
  <2>2. Analysis' = Analysis
      BY <1>8 DEF Analysis
  <2>3. /\ Len(runs) = Len(engines) /\ Len(runs) >= 1
        /\ worlds' \in Seq(DOMAIN runs') /\ asked \subseteq Analysis /\ wire \in Seq(Message)
      BY <1>1, <1>4, <1>8 DEF StudioInv, StudioTypes
  <2>. QED
      BY <1>1, <1>6, <1>9, <2>1, <2>2, <2>3, RunsKeepTypes
<1>13. NewsIsTrue' /\ ShownOrDue'
    BY <1>1, <1>11, GoneOnKeepsNews, GoneOnKeepsShown
<1>14. Single' = Single /\ Single \subseteq DOMAIN runs
    BY <1>1, <1>8 DEF Single
<1>15. MapIsSingle'
  <2>1. \A i \in DOMAIN worlds' : worlds'[i] \in DOMAIN runs
      BY <1>1, <1>4, ElementOfSeq, LenProperties
  <2>2. \A i, j \in DOMAIN worlds' : runs'[worlds'[i]].world = runs'[worlds'[j]].world => i = j
    <3>. DEFINE rest == Without(ends)
    <3>1. \A i, j \in DOMAIN rest : runs[rest[i]].world = runs[rest[j]].world => i = j
        BY <1>4
    <3>2. rest = worlds'
        BY <1>1
    <3>. HIDE DEF rest
    <3>3. \A i, j \in DOMAIN worlds' : runs[worlds'[i]].world = runs[worlds'[j]].world => i = j
        BY <3>1, <3>2
    <3>. SUFFICES ASSUME NEW i \in DOMAIN worlds', NEW j \in DOMAIN worlds',
                         runs'[worlds'[i]].world = runs'[worlds'[j]].world
                  PROVE  i = j
        OBVIOUS
    <3>4. runs[worlds'[i]].world = runs[worlds'[j]].world
        BY <1>10, <2>1
    <3>. QED
        BY <3>3, <3>4
  <2>3. ASSUME NEW r \in Single \cap ToSet(worlds'), NEW y \in DOMAIN engines,
               y # r, engines'[y].world = runs'[r].world
        PROVE  engines'[y].status # "running"
    <3>1. r \in DOMAIN runs /\ r \in ToSet(worlds) /\ engines[y].world = runs[r].world
        BY <1>1, <1>3, <1>4, <1>6, <1>10, <1>14, <2>3
    <3>2. engines[y].status # "running"
        BY <2>3, <3>1 DEF StudioInv, MapIsSingle
    <3>. QED
        BY <1>1, <1>6, <3>2
  <2>. QED
      BY <1>6, <1>14, <2>2, <2>3 DEF MapIsSingle
<1>16. RunsAreAccountedFor'
  <2>1. ASSUME NEW r \in Single
        PROVE  /\ runs'[r].status = "stopped" <=> engines'[r].status = "stopped"
               /\ runs'[r].tick = engines'[r].tick
               /\ r \in ToSet(worlds') <=> runs'[r].status = "running"
               /\ runs'[r].status = "stopped" => runs'[r].final = engines'[r].acts
               /\ runs'[r].analysis # <<>> /\ runs'[r].analysis[2] =>
                     runs'[r].analysis[1] = runs'[r].final
    <3>1. /\ r \in DOMAIN runs
          /\ runs[r].status = "stopped" <=> engines[r].status = "stopped"
          /\ runs[r].tick = engines[r].tick
          /\ r \in ToSet(worlds) <=> runs[r].status = "running"
          /\ runs[r].status = "stopped" => runs[r].final = engines[r].acts
          /\ runs[r].analysis # <<>> /\ runs[r].analysis[2] => runs[r].analysis[1] = runs[r].final
          /\ runs[r].analysis # <<>> /\ runs[r].analysis[2] => runs[r].status = "stopped"
        BY DEF StudioInv, RunsAreAccountedFor, FinalIsFinal, Single
    <3>2. CASE r = e
      <4>1. r \in ends /\ runs[r].status # "stopped" /\ engines'[r] = x
          BY <1>1, <1>2, <1>6, <1>7, <3>1, <3>2
      <4>2. r \notin ToSet(worlds')
          BY <1>1, <1>4, <4>1
      <4>3. /\ runs'[r].status = "stopped" /\ runs'[r].tick = engines[r].tick
            /\ runs'[r].final = engines[r].acts /\ runs'[r].analysis = runs[r].analysis
          BY <1>8, <3>1, <4>1
      <4>. QED
          BY <1>3, <3>1, <3>2, <4>1, <4>2, <4>3
    <3>3. CASE r # e
      <4>1. r \notin ends /\ engines'[r] = engines[r] /\ runs'[r] = runs[r]
          BY <1>2, <1>6, <1>7, <1>8, <3>1, <3>3
      <4>2. r \in ToSet(worlds') <=> r \in ToSet(worlds)
          BY <1>1, <1>4, <4>1
      <4>. QED
          BY <3>1, <4>1, <4>2
    <3>. QED
        BY <3>2, <3>3
  <2>. QED
      BY <1>14, <2>1 DEF RunsAreAccountedFor, Single
<1>17. FinalIsFinal'
  <2>1. ASSUME NEW r \in Single, r \in DOMAIN runs, runs[r].status = "stopped"
        PROVE  runs'[r].status = "stopped" /\ runs'[r].final = runs[r].final
    <3>1. r \notin ToSet(worlds)
        BY <2>1 DEF StudioInv, RunsAreAccountedFor, Single
    <3>. QED
        BY <1>5, <1>8, <2>1, <3>1
  <2>2. \A r \in Single : runs'[r].analysis = runs[r].analysis
      BY <1>8, <1>14
  <2>. QED
      BY <1>1, <1>14, <2>1, <2>2 DEF StudioInv, FinalIsFinal
<1>. QED
    BY <1>12, <1>13, <1>15, <1>16, <1>17 DEF StudioInv

\* A scenario is started: its run is the Map's of its world; the others that still go under
\* its name are spoken of no more.
LEMMA StartScenarioKeeps == ASSUME StudioInv, StartScenario PROVE StudioInv'
<1>. DEFINE n == Len(engines)
            w == desk.scenarios[n]
            r == n + 1
<1>1. n \in Nat /\ n >= 1 /\ Len(runs) = n /\ DOMAIN engines = 1..n /\ DOMAIN runs = 1..n
    BY StudioParts DEF StudioInv, StudioTypes
<1>2. /\ n <= Len(desk.scenarios)
      /\ engines' = Append(engines, NewEngine(w)) /\ runs' = Append(runs, NewRun(w))
      /\ worlds' = Registered(w, r)
      /\ reused' = (IF Rivals(w) = {} THEN reused ELSE reused \cup {r} \cup Rivals(w))
      /\ UNCHANGED <<desk, wire, asked, shown, selected, requests, crossed>>
    BY <1>1 DEF StartScenario, Quiet
<1>3. w \in Worlds
  <2>1. desk.scenarios \in Seq(Worlds)
      BY DEF StudioInv, StudioTypes, DeskType
  <2>2. n \in 1..Len(desk.scenarios)
      BY <1>1, <1>2, <2>1
  <2>. QED
      BY <2>1, <2>2, ElementOfSeq
<1>. HIDE DEF w
<1>4. /\ NewEngine(w) \in Engine /\ NewRun(w) \in Run
      /\ NewEngine(w).world = w /\ NewRun(w).world = w /\ NewEngine(w).tick = 0
      /\ NewEngine(w).status = "running" /\ NewRun(w).status = "running"
      /\ NewRun(w).tick = 0 /\ NewRun(w).analysis = <<>>
    BY <1>3 DEF NewEngine, NewRun, Engine, Run
<1>5. /\ engines' \in Seq(Engine) /\ Len(engines') = n + 1 /\ DOMAIN engines' = 1..(n + 1)
      /\ engines'[r] = NewEngine(w) /\ \A e \in 1..n : engines'[e] = engines[e]
  <2>1. engines \in Seq(Engine)
      BY DEF StudioInv, StudioTypes
  <2>. QED
      BY <1>1, <1>2, <1>4, <2>1, AppendProperties, LenProperties
<1>6. /\ runs' \in Seq(Run) /\ Len(runs') = n + 1 /\ DOMAIN runs' = 1..(n + 1)
      /\ runs'[r] = NewRun(w) /\ \A e \in 1..n : runs'[e] = runs[e]
  <2>1. runs \in Seq(Run)
      BY DEF StudioInv, StudioTypes
  <2>. QED
      BY <1>1, <1>2, <1>4, <2>1, AppendProperties, LenProperties
<1>7. r \in 1..(n + 1) /\ r \notin 1..n /\ 1..(n + 1) = 1..n \cup {r}
    BY <1>1
<1>8. /\ \A i \in DOMAIN worlds : worlds[i] \in 1..n
      /\ \A i, j \in DOMAIN worlds : runs[worlds[i]].world = runs[worlds[j]].world => i = j
      /\ worlds \in Seq(1..n) /\ DOMAIN worlds = 1..Len(worlds) /\ Len(worlds) \in Nat
    BY <1>1, StudioParts DEF StudioInv, StudioTypes, MapIsSingle
<1>. HIDE DEF r, n
\* The Map: what is in it is the new run in one place, and elsewhere what was there and is of
\* another world.
<1>9. /\ worlds' \in Seq(1..n \cup {r})
      /\ \A i, j \in DOMAIN worlds' : runs'[worlds'[i]].world = runs'[worlds'[j]].world => i = j
      /\ ToSet(worlds') = (ToSet(worlds) \ Active(w)) \cup {r}
  <2>1. CASE Active(w) = {}
    <3>1. worlds' = Append(worlds, r)
        BY <1>2, <2>1 DEF Registered
    <3>2. worlds \in Seq(1..n \cup {r}) /\ r \in 1..n \cup {r}
        BY <1>8
    <3>3. /\ worlds' \in Seq(1..n \cup {r}) /\ Len(worlds') = Len(worlds) + 1
          /\ DOMAIN worlds' = 1..(Len(worlds) + 1)
          /\ worlds'[Len(worlds) + 1] = r /\ \A i \in 1..Len(worlds) : worlds'[i] = worlds[i]
        BY <3>1, <3>2, AppendProperties, LenProperties
    <3>4. ToSet(worlds') = ToSet(worlds) \cup {r}
        BY <1>8, <3>3 DEF ToSet
    <3>5. \A i \in 1..Len(worlds) : runs'[worlds'[i]].world = runs[worlds[i]].world
                                    /\ runs[worlds[i]].world # w
      <4>1. \A i \in 1..Len(worlds) : worlds[i] \in ToSet(worlds)
          BY <1>8 DEF ToSet
      <4>. QED
          BY <1>6, <1>8, <2>1, <3>3, <4>1 DEF Active
    <3>6. runs'[worlds'[Len(worlds) + 1]].world = w
        BY <1>4, <1>6, <3>3
    <3>7. DOMAIN worlds' = DOMAIN worlds \cup {Len(worlds) + 1}
        BY <1>8, <3>3
    <3>8. \A i, j \in DOMAIN worlds' : runs'[worlds'[i]].world = runs'[worlds'[j]].world => i = j
        BY <1>8, <3>5, <3>6, <3>7
    <3>. QED
        BY <2>1, <3>3, <3>4, <3>8
  <2>2. CASE Active(w) # {}
    <3>1. worlds' = [i \in DOMAIN worlds |-> IF runs[worlds[i]].world = w THEN r ELSE worlds[i]]
        BY <1>2, <2>2 DEF Registered
    <3>2. DOMAIN worlds' = DOMAIN worlds
          /\ \A i \in DOMAIN worlds : worlds'[i] = IF runs[worlds[i]].world = w THEN r ELSE worlds[i]
        BY <3>1
    <3>3. worlds' \in Seq(1..n \cup {r})
      <4>1. worlds' \in [1..Len(worlds) -> 1..n \cup {r}]
          BY <1>8, <3>1
      <4>. QED
          BY <1>8, <4>1
    <3>4. \A i \in DOMAIN worlds : runs'[worlds'[i]].world = runs[worlds[i]].world
        BY <1>4, <1>6, <1>8, <3>2
    <3>5. \A i, j \in DOMAIN worlds' : runs'[worlds'[i]].world = runs'[worlds'[j]].world => i = j
        BY <1>8, <3>2, <3>4
    <3>6. PICK k \in DOMAIN worlds : runs[worlds[k]].world = w
        BY <2>2 DEF Active, ToSet
    <3>7. ToSet(worlds') = (ToSet(worlds) \ Active(w)) \cup {r}
      <4>1. worlds'[k] = r /\ k \in DOMAIN worlds'
          BY <3>2, <3>6
      <4>2. \A i \in DOMAIN worlds : worlds[i] \in Active(w) <=> runs[worlds[i]].world = w
          BY DEF Active, ToSet
      <4>3. ToSet(worlds') \subseteq (ToSet(worlds) \ Active(w)) \cup {r}
          BY <3>2, <4>2 DEF ToSet
      <4>4. (ToSet(worlds) \ Active(w)) \cup {r} \subseteq ToSet(worlds')
          BY <3>2, <4>1, <4>2 DEF ToSet
      <4>. QED
          BY <4>3, <4>4
    <3>. QED
        BY <3>3, <3>5, <3>7
  <2>. QED
      BY <2>1, <2>2
<1>10. EnginesGoOn
  <2>1. \A e \in DOMAIN engines : engines[e].tick \in Nat
      BY StudioParts DEF StudioInv, Engine
  <2>. QED
      BY <1>1, <1>5, <1>7, <2>1 DEF EnginesGoOn
<1>11. StudioTypes'
  <2>1. \A e \in DOMAIN runs' : runs'[e].world = engines'[e].world
    <3>1. \A e \in 1..n : runs[e].world = engines[e].world
        BY <1>1 DEF StudioInv, StudioTypes
    <3>. QED
        BY <1>4, <1>5, <1>6, <1>7, <3>1
  <2>2. asked' \subseteq Analysis'
    <3>1. asked \subseteq Analysis
        BY DEF StudioInv, StudioTypes
    <3>2. DOMAIN runs \subseteq DOMAIN runs'
        BY <1>1, <1>6, <1>7
    <3>. QED
        BY <1>2, <3>1, <3>2 DEF Analysis
  <2>3. worlds' \in Seq(DOMAIN runs')
      BY <1>6, <1>7, <1>9
  <2>4. wire' \in Seq(Message)
      BY <1>2 DEF StudioInv, StudioTypes
  <2>5. Len(runs') = Len(engines') /\ Len(runs') >= 1
      BY <1>1, <1>5, <1>6
  <2>. QED
      BY <1>2, <1>5, <1>6, <2>1, <2>2, <2>3, <2>4, <2>5, RunsKeepTypes
<1>12. NewsIsTrue' /\ ShownOrDue'
    BY <1>2, <1>10, GoneOnKeepsNews, GoneOnKeepsShown
\* The runs spoken of afterwards: those of before that have no rival of this name, and the new
\* one if it has none.
<1>13. ASSUME NEW x \in Single', x # r
       PROVE  /\ x \in Single /\ x \notin Rivals(w) /\ x \in 1..n
              /\ runs'[x] = runs[x] /\ engines'[x] = engines[x]
  <2>1. x \in 1..n \cup {r} /\ x # 1 /\ x \notin reused'
      BY <1>6, <1>7 DEF Single
  <2>2. x \in 1..n /\ x \notin reused /\ x \notin Rivals(w)
      BY <1>2, <1>13, <2>1
  <2>. QED
      BY <1>1, <1>5, <1>6, <2>1, <2>2 DEF Single
<1>14. r \in Single' => Rivals(w) = {}
    BY <1>2 DEF Single
<1>15. MapIsSingle'
  <2>1. ASSUME NEW x \in Single' \cap ToSet(worlds'), NEW e \in DOMAIN engines',
               e # x, engines'[e].world = runs'[x].world
        PROVE  engines'[e].status # "running"
    <3>1. CASE x = r
      <4>1. e \in 1..n /\ engines[e].world = w
          BY <1>4, <1>5, <1>6, <1>7, <2>1, <3>1
      <4>2. e \notin Rivals(w)
          BY <1>14, <2>1, <3>1
      <4>. QED
          BY <1>1, <1>5, <4>1, <4>2 DEF Rivals
    <3>2. CASE x # r
      <4>1. /\ x \in Single /\ x \in 1..n /\ x \notin Rivals(w)
            /\ runs'[x] = runs[x] /\ engines'[x] = engines[x]
          BY <1>13, <2>1, <3>2
      <4>2. x \in ToSet(worlds) /\ x \notin Active(w)
          BY <1>9, <2>1, <3>2
      <4>3. runs[x].world # w
          BY <4>2 DEF Active
      <4>4. e # r /\ e \in 1..n
          BY <1>4, <1>5, <1>7, <2>1, <4>1, <4>3
      <4>. QED
          BY <1>1, <1>5, <2>1, <4>1, <4>2, <4>4 DEF StudioInv, MapIsSingle
    <3>. QED
        BY <3>1, <3>2
  <2>. QED
      BY <1>9, <2>1 DEF MapIsSingle
<1>16. RunsAreAccountedFor'
  <2>1. ASSUME NEW x \in Single'
        PROVE  /\ runs'[x].status = "stopped" <=> engines'[x].status = "stopped"
               /\ runs'[x].tick = engines'[x].tick
               /\ x \in ToSet(worlds') <=> runs'[x].status = "running"
               /\ runs'[x].status = "stopped" => runs'[x].final = engines'[x].acts
               /\ runs'[x].analysis # <<>> /\ runs'[x].analysis[2] =>
                     runs'[x].analysis[1] = runs'[x].final
    <3>1. CASE x = r
        BY <1>4, <1>5, <1>6, <1>9, <3>1
    <3>2. CASE x # r
      <4>1. /\ x \in Single /\ x \notin Rivals(w)
            /\ runs'[x] = runs[x] /\ engines'[x] = engines[x]
          BY <1>13, <3>2
      <4>2. x \in ToSet(worlds') <=> x \in ToSet(worlds)
          BY <1>9, <3>2, <4>1 DEF Rivals
      <4>. QED
          BY <4>1, <4>2 DEF StudioInv, RunsAreAccountedFor, Single
    <3>. QED
        BY <3>1, <3>2
  <2>. QED
      BY <2>1 DEF RunsAreAccountedFor, Single
<1>17. FinalIsFinal'
  <2>1. ASSUME NEW x \in Single', runs'[x].analysis # <<>>, runs'[x].analysis[2]
        PROVE  runs'[x].status = "stopped"
    <3>1. x # r
        BY <1>4, <1>6, <2>1
    <3>. QED
        BY <1>13, <2>1, <3>1 DEF StudioInv, FinalIsFinal
  <2>2. ASSUME NEW x \in asked, x.run \in Single', x.ended
        PROVE  runs'[x.run].status = "stopped" /\ x.acts = runs'[x.run].final
    <3>1. x.run \in 1..n
        BY <1>1 DEF StudioInv, StudioTypes, Analysis
    <3>2. x.run # r
        BY <1>7, <3>1
    <3>3. x.run \in Single /\ runs'[x.run] = runs[x.run]
        BY <1>13, <2>2, <3>2
    <3>. QED
        BY <2>2, <3>3 DEF StudioInv, FinalIsFinal
  <2>. QED
      BY <1>2, <2>1, <2>2 DEF FinalIsFinal
<1>. QED
    BY <1>11, <1>12, <1>15, <1>16, <1>17 DEF StudioInv

-----------------------------------------------------------------------------
\* The report asked for is the final one when the run has ended.
LEMMA AskKeeps ==
    ASSUME StudioInv, NEW r \in DOMAIN runs, NEW forced \in BOOLEAN, Ask(r, forced)
    PROVE  StudioInv'
<1>. DEFINE x == [run |-> r, acts |-> RunReport(r), ended |-> runs[r].status = "stopped"]
<1>1. /\ asked' = asked \cup {x}
      /\ UNCHANGED <<desk, engines, worlds, runs, shown, selected, requests, wire, reused, crossed>>
    BY DEF Ask
<1>2. runs[r] \in Run /\ engines[r] \in Engine
    BY StudioParts DEF StudioInv
<1>3. RunReport(r) \in Int
    BY <1>2 DEF RunReport, Run, Engine
<1>4. x \in Analysis
    BY <1>3 DEF Analysis
<1>5. StudioTypes'
    BY <1>1, <1>4 DEF StudioInv, StudioTypes, Analysis, Engine, Run, Message, Request, Answer
<1>6. r \in Single /\ runs[r].status = "stopped" => RunReport(r) = runs[r].final
  <2>. SUFFICES ASSUME r \in Single, runs[r].status = "stopped" PROVE RunReport(r) = runs[r].final
      OBVIOUS
  <2>1. runs[r].final = engines[r].acts /\ engines[r].acts \in Nat
      BY <1>2 DEF StudioInv, RunsAreAccountedFor, Single, Engine
  <2>. QED
      BY <2>1 DEF RunReport
<1>7. x.run = r /\ x.acts = RunReport(r) /\ x.ended = (runs[r].status = "stopped")
    OBVIOUS
<1>. HIDE DEF x
<1>8. FinalIsFinal'
    BY <1>1, <1>6, <1>7 DEF StudioInv, FinalIsFinal, Single
<1>. QED
    BY <1>1, <1>5, <1>8
    DEF StudioInv, MapIsSingle, RunsAreAccountedFor, NewsIsTrue, ShownOrDue, Single, Reached, Due

LEMMA AnalysedKeeps == ASSUME StudioInv, NEW x \in asked, Analysed(x) PROVE StudioInv'
<1>. DEFINE k == x.run
            a == <<x.acts, x.ended>>
            v == [runs[k] EXCEPT !.analysis = a]
<1>1. /\ asked' = asked \ {x} /\ runs' = [runs EXCEPT ![k] = v]
      /\ UNCHANGED <<desk, engines, worlds, shown, selected, requests, wire, reused, crossed>>
  <2>1. runs' = [runs EXCEPT ![x.run].analysis = <<x.acts, x.ended>>]
      BY DEF Analysed
  <2>. QED
      BY <2>1 DEF Analysed
<1>2. x \in Analysis /\ k \in DOMAIN runs /\ a \in Int \X BOOLEAN /\ a[1] = x.acts /\ a[2] = x.ended
    BY DEF StudioInv, StudioTypes, Analysis
<1>3. runs[k] \in Run
    BY <1>2, StudioParts DEF StudioInv
<1>. HIDE DEF a, k
<1>4. /\ v \in Run /\ v.world = runs[k].world /\ v.status = runs[k].status /\ v.tick = runs[k].tick
      /\ v.final = runs[k].final /\ v.analysis = a
    BY <1>2, <1>3 DEF Run
<1>. HIDE DEF v
<1>5. /\ runs' \in Seq(Run) /\ Len(runs') = Len(runs) /\ DOMAIN runs' = DOMAIN runs
      /\ \A r \in DOMAIN runs : runs'[r] = IF r = k THEN v ELSE runs[r]
  <2>1. runs \in Seq(Run) /\ k \in 1..Len(runs) /\ DOMAIN runs = 1..Len(runs)
      BY <1>2, LenProperties DEF StudioInv, StudioTypes
  <2>2. /\ [runs EXCEPT ![k] = v] \in Seq(Run) /\ Len([runs EXCEPT ![k] = v]) = Len(runs)
        /\ \A r \in 1..Len(runs) : [runs EXCEPT ![k] = v][r] = IF r = k THEN v ELSE runs[r]
      BY <1>4, <2>1, ExceptSeq
  <2>. QED
      BY <1>1, <2>1, <2>2
<1>6. /\ \A r \in DOMAIN runs : /\ runs'[r].world = runs[r].world /\ runs'[r].status = runs[r].status
                                /\ runs'[r].tick = runs[r].tick /\ runs'[r].final = runs[r].final
                                /\ r # k => runs'[r].analysis = runs[r].analysis
      /\ runs'[k].analysis = a
    BY <1>2, <1>4, <1>5
<1>7. Single' = Single /\ Single \subseteq DOMAIN runs
    BY <1>1, <1>5 DEF Single
<1>8. StudioTypes'
  <2>1. \A r \in DOMAIN runs' : runs'[r].world = engines'[r].world
      BY <1>1, <1>5, <1>6 DEF StudioInv, StudioTypes
  <2>2. asked' \subseteq Analysis'
      BY <1>1, <1>5 DEF StudioInv, StudioTypes, Analysis
  <2>3. /\ Len(runs) = Len(engines) /\ Len(runs) >= 1 /\ engines \in Seq(Engine)
        /\ worlds' \in Seq(DOMAIN runs') /\ wire \in Seq(Message)
      BY <1>1, <1>5 DEF StudioInv, StudioTypes
  <2>. QED
      BY <1>1, <1>5, <2>1, <2>2, <2>3, RunsKeepTypes
<1>9. MapIsSingle'
  <2>1. \A i \in DOMAIN worlds : worlds[i] \in DOMAIN runs
      BY StudioParts DEF StudioInv
  <2>2. \A i, j \in DOMAIN worlds : runs'[worlds[i]].world = runs'[worlds[j]].world => i = j
      BY <1>6, <2>1 DEF StudioInv, MapIsSingle
  <2>3. \A r \in Single \cap ToSet(worlds) : \A e \in DOMAIN engines :
            e # r /\ engines[e].world = runs'[r].world => engines[e].status # "running"
      BY <1>6, <1>7 DEF StudioInv, MapIsSingle
  <2>. QED
      BY <1>1, <1>7, <2>2, <2>3 DEF MapIsSingle
\* The analysis of a run that had ended is of its final report.
<1>10. k \in Single /\ x.ended => runs[k].status = "stopped" /\ x.acts = runs[k].final
    BY DEF StudioInv, FinalIsFinal, k
<1>11. RunsAreAccountedFor'
  <2>1. ASSUME NEW r \in Single, runs'[r].analysis # <<>>, runs'[r].analysis[2]
        PROVE  runs'[r].analysis[1] = runs'[r].final
    <3>1. CASE r = k
        BY <1>2, <1>6, <1>7, <1>10, <2>1, <3>1
    <3>2. CASE r # k
        BY <1>6, <1>7, <2>1, <3>2 DEF StudioInv, RunsAreAccountedFor, Single
    <3>. QED
        BY <3>1, <3>2
  <2>2. ASSUME NEW r \in Single
        PROVE  /\ runs'[r].status = "stopped" <=> engines[r].status = "stopped"
               /\ runs'[r].tick = engines[r].tick
               /\ r \in ToSet(worlds) <=> runs'[r].status = "running"
               /\ runs'[r].status = "stopped" => runs'[r].final = engines[r].acts
      BY <1>6, <1>7 DEF StudioInv, RunsAreAccountedFor, Single
  <2>. QED
      BY <1>1, <1>5, <2>1, <2>2 DEF RunsAreAccountedFor, Single
<1>12. FinalIsFinal'
  <2>1. ASSUME NEW r \in Single, runs'[r].analysis # <<>>, runs'[r].analysis[2]
        PROVE  runs'[r].status = "stopped"
    <3>1. CASE r = k
        BY <1>2, <1>6, <1>7, <1>10, <2>1, <3>1
    <3>2. CASE r # k
        BY <1>6, <1>7, <2>1, <3>2 DEF StudioInv, FinalIsFinal
    <3>. QED
        BY <3>1, <3>2
  <2>2. \A y \in asked : y.run \in DOMAIN runs
      BY DEF StudioInv, StudioTypes, Analysis
  <2>3. \A y \in asked : y.run \in Single /\ y.ended =>
            runs'[y.run].status = "stopped" /\ y.acts = runs'[y.run].final
      BY <1>6, <2>2 DEF StudioInv, FinalIsFinal
  <2>. QED
      BY <1>1, <1>7, <2>1, <2>3 DEF FinalIsFinal
<1>13. NewsIsTrue' /\ ShownOrDue'
    BY <1>1 DEF StudioInv, NewsIsTrue, ShownOrDue, Reached, Due
<1>. QED
    BY <1>8, <1>9, <1>11, <1>12, <1>13 DEF StudioInv

-----------------------------------------------------------------------------
LEMMA StudioStep == StudioInv /\ [StudioNext]_studioVars => StudioInv'
<1>. SUFFICES ASSUME StudioInv, [StudioNext]_studioVars PROVE StudioInv'
    OBVIOUS
<1>1. CASE UNCHANGED studioVars
    BY <1>1 DEF studioVars, StudioInv, StudioTypes, MapIsSingle, RunsAreAccountedFor, FinalIsFinal,
        NewsIsTrue, ShownOrDue, Single, Reached, Due, Analysis
<1>2. CASE StudioNext
  <2>1. CASE StartScenario
      BY <2>1, StartScenarioKeeps
  <2>2. CASE RequestSnapshot
      BY <2>2, RequestSnapshotKeeps
  <2>3. CASE Received
      BY <2>3, ReceivedKeeps
  <2>4. ASSUME NEW e \in DOMAIN engines, EngineTick(e) \/ EngineEnds(e) \/ EngineFails(e)
        PROVE  StudioInv'
      BY <2>4, EngineTickKeeps, EngineEndsKeeps, EngineFailsKeeps
  <2>5. ASSUME NEW r \in DOMAIN runs, NEW forced \in BOOLEAN, Ask(r, forced) PROVE StudioInv'
      BY <2>5, AskKeeps
  <2>6. ASSUME NEW x \in asked, Analysed(x) PROVE StudioInv'
      BY <2>6, AnalysedKeeps
  <2>7. ASSUME NEW r \in DOMAIN runs, Select(runs[r].world) PROVE StudioInv'
      BY <2>7, SelectKeeps
  <2>8. ASSUME NEW q \in requests, Serve(q) \/ Answered(q) PROVE StudioInv'
      BY <2>8, ServeKeeps, AnsweredKeeps
  <2>. QED
      BY <1>2, <2>1, <2>2, <2>3, <2>4, <2>5, <2>6, <2>7, <2>8 DEF StudioNext
<1>. QED
    BY <1>1, <1>2

LEMMA StudioInvIsTrue == StudioInv => StudioIsTrue
BY DEF StudioInv, StudioIsTrue, ShownIsSelected, ShownOrDue, Reached, Due

\* Whatever the desk, however many worlds and however long their runs: a scenario's run is
\* stopped exactly when its own world ended and keeps that world's final report, whatever is
\* analysed meanwhile, and the dashboard that is owed no answer shows the selected world, at a
\* tick it has reached (MultiWorldRegistry.ts:33-68, StudioServer.ts:170-224, ui/app.js:65-84).
THEOREM StudioStaysTrue == StudioSpec => []StudioIsTrue
<1>1. StudioSpec => []StudioInv
    BY StudioStarts, StudioStep, PTL DEF StudioSpec
<1>. QED
    BY <1>1, StudioInvIsTrue, PTL
=============================================================================
