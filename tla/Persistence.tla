------------------------------- MODULE Persistence ------------------------------
(***************************************************************************)
(* The persistence store (src/stores/PgPersistenceStore.ts) as agents, the          *)
(* consolidator, the privacy plugin and the studio's API                          *)
(* (src/studio/api/persistenceApi.ts) use it at once: every call is one statement    *)
(* of the database, except an estimate of usage, five queries in parallel, and an    *)
(* erasure, six statements in a row without a transaction.                        *)
(***************************************************************************)
EXTENDS Integers, SequencesExt, FiniteSetsExt

CONSTANTS
    Archives,  \* [saves: rows to save [table, world, of: its agents]; writes, erases, usages,
               \* digests: how many; consents: [id, world, subject, status]; erasing: agents;
               \* active: worlds with an engine; latest: the last engine's; until: the last ms]
    PageSize   \* rows of a page

ASSUME ArchivesAreSound == \A a \in Archives : a.digests \in Nat

VARIABLES
    archive, hour,
    tables,    \* table -> {[id, world, of, time, source, stale]}: source is the oldest row it is made of
    configs,   \* {[id, world, created, updated]}
    consents,  \* {[id, world, subject, status, created, updated, put]}
    alive,
    erasures,  \* <<[agent, asked, world, began, next, gone]>>: next is the statement to come, gone
               \* what the statements returned, which the answer counts by table
    usages,    \* <<[agent, world, left, counts, bytes, before, erased, ended]>>
    digests,   \* consolidations under way: {[agent, world, read, stale, kept]}
    \* history:
    written,   \* writes so far
    saved,     \* {[table, row]}: every row that was ever saved
    said,      \* <<world, subject>> -> <<the last consent given, or taken back>>
    reused     \* keys whose consent's id was given to another

storeVars == <<archive, hour, tables, configs, consents, alive, erasures, usages, digests, written,
               saved, said, reused>>

\* In the order an erasure goes through them; the sixth statement is of the consents.
Tables == <<"memories", "snapshots", "conversations", "knowledge", "audits">>
Counted == {"memories", "snapshots", "conversations", "knowledge"}

\* Tables as createTables leaves them.
StoreInit ==
    /\ archive \in Archives /\ hour = 1
    /\ tables = [t \in ToSet(Tables) |-> {}] /\ configs = {} /\ consents = {}
    /\ alive = archive.active
    /\ erasures = <<>> /\ usages = <<>> /\ digests = {}
    /\ written = 0 /\ saved = {} /\ reused = {}
    /\ said = [k \in (alive \cup {archive.latest}) \X {c.subject : c \in archive.consents} |-> <<>>]

Row(s, id, source, stale) ==
    [id |-> id, world |-> s.world, of |-> s.of, time |-> hour, source |-> source, stale |-> stale]

(***************************************************************************)
(* Queries: what is about an agent in a world, and the possible answers when only    *)
(* so many of the newest are asked for.                                       *)
(***************************************************************************)
About(t, a, w) == {r \in tables[t] : r.world = w /\ a \in ToSet(r.of)}
Newest(s, limit) == {x \in kSubset(Min({limit, Cardinality(s)}), s) :
                        \A r \in x, q \in s \ x : r.time >= q.time}

CountMemoryEntries(a, w) == Cardinality(About("memories", a, w))
GetAgentConfig(a, w) == {c \in configs : c.id = a /\ c.world = w}
GetLatestState(a, w) == Newest(About("snapshots", a, w), 1)
GetStateHistory(a, w, limit) == Newest(About("snapshots", a, w), limit)
GetConversations(w, a, limit) == Newest(About("conversations", a, w), limit)
GetKnowledge(a, w) == About("knowledge", a, w)
ListPolicyAudits(w, a, limit) == Newest(About("audits", a, w), limit)
ListConsents(w, a) == {c \in consents : c.world = w /\ c.subject = a}
\* With equal times any of them is the first.
GetConsent(w, a) ==
    {c \in ListConsents(w, a) : \A d \in ListConsents(w, a) : c.updated >= d.updated}

\* The world a request is about: the latest engine's, when the one it names is not active.
WorldOf(asked) == IF asked \in alive THEN asked ELSE archive.latest

\* The studio's pages of an agent: the newest rows, so many at most.
ConversationsPage(asked, a) == GetConversations(WorldOf(asked), a, PageSize)
SnapshotsPage(asked, a) == GetStateHistory(a, WorldOf(asked), PageSize)
AuditsPage(asked, a) == ListPolicyAudits(WorldOf(asked), a, PageSize)
ConsentsPage(asked, a) == ListConsents(WorldOf(asked), a)

\* Whatever the pages of that world may show of an agent, and what its mind is given.
Shown(asked, a) ==
    About("memories", a, WorldOf(asked)) \cup GetKnowledge(a, WorldOf(asked))
    \cup UNION (GetLatestState(a, WorldOf(asked)) \cup SnapshotsPage(asked, a)
                \cup ConversationsPage(asked, a) \cup AuditsPage(asked, a))

(***************************************************************************)
(* Writes.                                                                   *)
(***************************************************************************)
MayWrite == written < archive.writes

RowsOf(t, some) == {[table |-> t, row |-> r] : r \in some}
Insert(t, new) ==
    /\ tables' = [tables EXCEPT ![t] = @ \cup new]
    /\ saved' = saved \cup RowsOf(t, new)
    /\ written' = written + Cardinality(new)

NoJobs == UNCHANGED <<erasures, usages, digests>>

Save(t) == \E s \in archive.saves :
    /\ MayWrite /\ s.table = t
    /\ Insert(t, {Row(s, written + 1, written + 1, FALSE)})
    /\ UNCHANGED <<archive, hour, configs, consents, alive, said, reused>> /\ NoJobs

SaveMemoryEntry == Save("memories")
SaveStateSnapshot == Save("snapshots")
SaveConversation == Save("conversations")
SavePolicyAudit == Save("audits")

\* A batch is one statement: the memories of a tick, two of them.
SaveMemoryEntries == \E s \in archive.saves :
    /\ written + 1 < archive.writes /\ s.table = "memories"
    /\ Insert("memories", {Row(s, written + i, written + i, FALSE) : i \in 1..2})
    /\ UNCHANGED <<archive, hour, configs, consents, alive, said, reused>> /\ NoJobs

\* An upsert by agent and world: the time of the first one is kept.
SaveAgentConfig == \E s \in archive.saves :
    /\ s.table = "configs" /\ MayWrite
    /\ LET old == GetAgentConfig(s.of, s.world)
       IN  configs' = (configs \ old) \cup
              {[id |-> s.of, world |-> s.world, updated |-> hour,
                created |-> IF old = {} THEN hour ELSE (CHOOSE c \in old : TRUE).created]}
    /\ written' = written + 1
    /\ UNCHANGED <<archive, hour, tables, consents, alive, saved, said, reused>> /\ NoJobs

\* *Fault*: the time of an update is the first one's.
RenewsOld(c, old) == [c EXCEPT !.created = old.created, !.updated = old.updated]
Renewed(c, old) == [c EXCEPT !.created = old.created]

\* An upsert by id, which may have been another subject's, or another world's.
UpsertConsent(c, w) ==
    LET old == {d \in consents : d.id = c.id}
        new == [id |-> c.id, world |-> w, subject |-> c.subject, status |-> c.status,
                created |-> hour, updated |-> hour, put |-> written + 1]
    IN  /\ consents' = (consents \ old) \cup
              {IF old = {} THEN new ELSE Renewed(new, CHOOSE d \in old : TRUE)}
        /\ said' = [said EXCEPT ![<<w, c.subject>>] = <<c.status>>]
        /\ reused' = (reused \cup {<<d.world, d.subject>> : d \in old}) \ {<<w, c.subject>>}

\* POST /api/privacy/consents.
GiveConsent == \E c \in archive.consents :
    /\ MayWrite /\ UpsertConsent(c, WorldOf(c.world)) /\ written' = written + 1
    /\ UNCHANGED <<archive, hour, tables, configs, alive, saved>> /\ NoJobs

(***************************************************************************)
(* A consolidation: reads, thinks, saves what it keeps and deletes what it read.      *)
(***************************************************************************)
Digest == \E s \in archive.saves :
    /\ s.table = "memories" /\ Cardinality(digests) < archive.digests
    /\ About("memories", Head(s.of), s.world) # {}
    /\ digests' = digests \cup {[agent |-> Head(s.of), world |-> s.world, stale |-> FALSE,
                                 kept |-> FALSE,
                                 read |-> {r.id : r \in About("memories", Head(s.of), s.world)}]}
    /\ UNCHANGED <<archive, hour, tables, configs, consents, alive, erasures, usages, written,
                   saved, said, reused>>

SaveKnowledge(d) ==
    /\ MayWrite /\ ~d.kept
    /\ Insert("knowledge", {Row([world |-> d.world, of |-> <<d.agent>>], written + 1, Min(d.read),
                                d.stale)})
    /\ digests' = (digests \ {d}) \cup {[d EXCEPT !.kept = TRUE]}
    /\ UNCHANGED <<archive, hour, configs, consents, alive, erasures, usages, said, reused>>

\* By the ids of what it thinks little of, whatever became of their rows.
DeleteMemoryEntries(d) == \E low \in SUBSET d.read :
    /\ d.kept /\ digests' = digests \ {d}
    /\ tables' = [tables EXCEPT !["memories"] = {r \in @ : r.id \notin low}]
    /\ usages' = [k \in DOMAIN usages |-> [usages[k] EXCEPT !.erased = TRUE]]
    /\ UNCHANGED <<archive, hour, configs, consents, alive, erasures, written, saved, said,
                   reused>>

(***************************************************************************)
(* Usage: five queries at once.                                              *)
(***************************************************************************)
AskUsage == \E a \in archive.erasing, asked \in archive.active :
    /\ Len(usages) < archive.usages
    /\ LET w == WorldOf(asked)
       IN  usages' = Append(usages, [agent |-> a, world |-> w, left |-> Counted \cup {"bytes"},
               counts |-> [t \in Counted |-> 0], bytes |-> 0, erased |-> FALSE,
               before |-> [t \in Counted |-> Cardinality(About(t, a, w))]])
    /\ UNCHANGED <<archive, hour, tables, configs, consents, alive, erasures, digests, written,
                   saved, said, reused>>

Answered(u, t, counts, bytes) ==
    [agent |-> u.agent, world |-> u.world, left |-> u.left \ {t}, counts |-> counts,
     bytes |-> bytes, erased |-> u.erased, before |-> u.before]

Estimate(i, t) ==
    /\ LET u == usages[i]
           n(x) == IF x = "memories" THEN CountMemoryEntries(u.agent, u.world)
                   ELSE Cardinality(About(x, u.agent, u.world))
       IN  /\ t \in u.left
           /\ usages' = [usages EXCEPT ![i] =
                 IF t = "bytes"
                 THEN Answered(u, t, u.counts, n("memories") + n("conversations") + n("knowledge"))
                 ELSE Answered(u, t, [u.counts EXCEPT ![t] = n(t)], u.bytes)]
    /\ UNCHANGED <<archive, hour, tables, configs, consents, alive, erasures, digests, written,
                   saved, said, reused>>

(***************************************************************************)
(* Erasure of an agent's data, in the world of the request.                    *)
(***************************************************************************)
Erase == \E a \in archive.erasing, asked \in archive.active :
    /\ Len(erasures) < archive.erases
    /\ erasures' = Append(erasures, [agent |-> a, asked |-> asked, world |-> WorldOf(asked),
            began |-> written, next |-> 1, gone |-> {}])
    /\ UNCHANGED <<archive, hour, tables, configs, consents, alive, usages, digests, written,
                   saved, said, reused>>

\* *Fault*: only what the agent itself is the author of.
FromOnly(t, e) == {r \in About(t, e.agent, e.world) : Head(r.of) = e.agent}
Erased(t, e) == About(t, e.agent, e.world)

Onward(e, more) ==
    [agent |-> e.agent, asked |-> e.asked, world |-> e.world, began |-> e.began,
     next |-> e.next + 1, gone |-> e.gone \cup more]

\* One DELETE ... RETURNING of the first five.
DeleteAgentData(i) ==
    /\ erasures[i].next \in 1..5
    /\ LET e == erasures[i]
           t == Tables[e.next]
           gone == Erased(t, e)
       IN  /\ tables' = [tables EXCEPT ![t] = @ \ gone]
           /\ erasures' = [erasures EXCEPT ![i] = Onward(e, RowsOf(t, gone))]
           /\ usages' = [k \in DOMAIN usages |->
                 IF gone = {} THEN usages[k] ELSE [usages[k] EXCEPT !.erased = TRUE]]
           /\ digests' = {IF t = "memories" /\ d.agent = e.agent /\ d.world = e.world
                          THEN [d EXCEPT !.stale = TRUE] ELSE d : d \in digests}
    /\ UNCHANGED <<archive, hour, configs, consents, alive, written, saved, said, reused>>

DeleteConsents(i) ==
    /\ erasures[i].next = 6
    /\ LET e == erasures[i]
       IN  /\ consents' = consents \ ListConsents(e.world, e.agent)
           /\ said' = [k \in DOMAIN said |-> IF k = <<e.world, e.agent>> THEN <<>> ELSE said[k]]
           /\ reused' = reused \ {<<e.world, e.agent>>}
    /\ erasures' = [erasures EXCEPT ![i] = Onward(@, {})]
    /\ UNCHANGED <<archive, hour, tables, configs, alive, usages, digests, written, saved>>

\* A statement fails: the request is answered with an error, what is deleted stays so.
EraseFails(i) ==
    /\ erasures[i].next \in 1..6
    /\ erasures' = [erasures EXCEPT ![i] = [@ EXCEPT !.next = 0]]
    /\ UNCHANGED <<archive, hour, tables, configs, consents, alive, usages, digests, written,
                   saved, said, reused>>

WorldEnds == \E w \in alive :
    /\ w # archive.latest /\ alive' = alive \ {w}
    /\ UNCHANGED <<archive, hour, tables, configs, consents, written, saved, said,
                   reused>> /\ NoJobs

Passes ==
    /\ hour < archive.until /\ hour' = hour + 1
    /\ UNCHANGED <<archive, tables, configs, consents, alive, written, saved, said,
                   reused>> /\ NoJobs

StoreNext ==
    \/ SaveMemoryEntry \/ SaveMemoryEntries \/ SaveStateSnapshot \/ SaveConversation
    \/ SavePolicyAudit \/ SaveAgentConfig \/ GiveConsent
    \/ Digest \/ AskUsage \/ Erase \/ WorldEnds \/ Passes
    \/ \E d \in digests : SaveKnowledge(d) \/ DeleteMemoryEntries(d)
    \/ \E i \in DOMAIN usages, t \in Counted \cup {"bytes"} : Estimate(i, t)
    \/ \E i \in DOMAIN erasures : DeleteAgentData(i) \/ DeleteConsents(i) \/ EraseFails(i)

StoreSpec == StoreInit /\ [][StoreNext]_storeVars

-----------------------------------------------------------------------------
\* Once an erasure has answered, nothing the studio can show of the agent in that world was
\* saved before it was asked for, but what a consolidation distilled from memories it had
\* read by then; no other agent's row is gone, and what an erasure counts is gone and no
\* other counts it (PgPersistenceStore.ts:572-636).
ErasureIsComplete ==
    /\ \A e \in ToSet(erasures), asked \in archive.active :
          e.next = 7 /\ WorldOf(asked) = e.world =>
              /\ \A r \in Shown(asked, e.agent) : r.source > e.began \/ r.stale
              /\ \A c \in ConsentsPage(asked, e.agent) : c.put > e.began
    /\ \A s \in saved : s.row \in tables[s.table] \/ (s.table = "memories" /\ archive.digests > 0)
          \/ \E e \in ToSet(erasures) : /\ e.world = s.row.world /\ e.agent \in ToSet(s.row.of)
                                        /\ e.asked = e.world \/ e.asked \notin alive
    /\ \A i \in DOMAIN erasures :
          /\ \A s \in erasures[i].gone : s \in saved /\ s.row \notin tables[s.table]
          /\ \A j \in DOMAIN erasures : j # i => erasures[i].gone \cap erasures[j].gone = {}

\* While nothing is erased, each number of an estimate lies between what there was when it
\* was asked for and what there is; it need not be of one moment (PgPersistenceStore.ts:521-570).
UsageIsBounded ==
    \A u \in ToSet(usages) : ~u.erased => \A t \in Counted \ u.left :
        u.counts[t] \in u.before[t]..Cardinality(About(t, u.agent, u.world))

\* The gate is told the consent that was given last, unless its id was given to another
\* subject since or another was given in the same millisecond (PgPersistenceStore.ts:368-429).
ConsentIsLatest ==
    \A k \in DOMAIN said \ reused :
        /\ said[k] = <<>> => GetConsent(k[1], k[2]) = {}
        /\ said[k] # <<>> /\ Cardinality(GetConsent(k[1], k[2])) = 1 =>
              \A c \in GetConsent(k[1], k[2]) : c.status = Head(said[k])

\* An agent has one configuration a world (PgPersistenceStore.ts:30-47).
ConfigsAreSingle == \A c, d \in configs : c # d => <<c.id, c.world>> # <<d.id, d.world>>

\* What is erased is gone, what is counted was there, and what was decided last is answered.
StoreIsTrue == ErasureIsComplete /\ UsageIsBounded /\ ConsentIsLatest /\ ConfigsAreSingle
=============================================================================
