-------------------------------- MODULE Plugins --------------------------------
(***************************************************************************)
(* The hooks of one tick (src/plugins/PluginRegistry.ts, as                     *)
(* src/engine/internal/TickOrchestrator.ts calls them): onStimulusEmit for an    *)
(* entity's stimulus, onWorldTick, onAgentAction for each action, then            *)
(* onAgentActionsBatch; with the consent gate among the plugins                  *)
(* (src/plugins/built-in/PrivacyCompliancePlugin.ts).                           *)
(***************************************************************************)
EXTENDS Integers, SequencesExt, FiniteSetsExt

CONSTANTS
    Actors,
    Nets,  \* [plugins: those registered before start(), late: those registered during the
           \* tick; actions: <<[agent, type]>>; stimuli; rules: category -> [required,
           \* level, tools]; changes: of consents]
    Undefined

HookNames == {"onStimulusEmit", "onWorldTick", "onAgentAction", "onAgentActionsBatch"}
ActionTypes == {"speak", "observe", "interact", "tool_call", "finish", "perceive"}
Payloads == {"raw", "enriched", "masked", "redacted", "notice"}
Consents == {"unset", "accepted", "revoked"}
PluginRecord == [name : STRING, does : {"keep", "enrich", "forget", "cancel", "gate"}, parallel : BOOLEAN,
                 hooks : SUBSET HookNames, throws : SUBSET HookNames]
Form == [type : ActionTypes, payload : Payloads]
NetRecord ==
    [plugins : Seq(PluginRecord), late : SUBSET PluginRecord,
     actions : Seq([agent : Actors, type : ActionTypes]), stimuli : Nat, changes : Nat,
     rules : [{"tool_inputs", "social_graph", "telemetry", "memory"} ->
                 [required : BOOLEAN, level : {"none", "partial", "strict"}, tools : BOOLEAN]]]

\* register refuses a second plugin of one name, and every gate is called "privacy-compliance".
ASSUME NetsAreSound ==
    /\ Undefined # "raw" /\ Undefined \notin Form
    /\ \A n \in Nets :
          /\ n \in NetRecord
          /\ \A k, l \in DOMAIN n.plugins : n.plugins[k].name = n.plugins[l].name => k = l
          /\ \A p, q \in ToSet(n.plugins) \cup n.late :
                p.does = "gate" /\ q.does = "gate" => p.name = q.name

VARIABLES
    net,
    chain,      \* the plugins, in the order they were registered
    consent,    \* agent -> status in the store
    at,         \* the hook that runs, its item and the plugin it has reached
    current,    \* what the transforming hook passes on
    promised,   \* parallel plugins whose promise is pending
    queue,      \* sequential plugins still to run, by their places in the chain
    stimuliOut, \* what each stimulus became: published unless Undefined
    transformed,\* what each action became
    audit,      \* decisions saved, one per action
    \* history:
    offered,    \* [hook, plugin, item, form, failed] in order
    looked      \* item -> the consent the gate found

hookVars == <<net, chain, consent, at, current, promised, queue, stimuliOut, transformed, audit,
          offered, looked>>

\* A plugin: its name, the hooks it has, those that may throw, and what it does: keep, enrich,
\* forget to return, cancel or gate.
Has(p, hook) == hook \in p.hooks
Place(hook, item, cursor) == [hook |-> hook, item |-> item, cursor |-> cursor]
Names == {chain[k].name : k \in DOMAIN chain}

HooksInit ==
    /\ net \in Nets
    /\ chain = net.plugins
    /\ consent = [a \in {act.agent : act \in ToSet(net.actions)} |-> "unset"]
    /\ at = Place("onStimulusEmit", 1, 0)
    /\ current = "raw" /\ promised = {} /\ queue = {}
    /\ stimuliOut = <<>> /\ transformed = <<>> /\ audit = <<>> /\ offered = <<>> /\ looked = <<>>

\* use() while the tick runs: a name that is taken is refused (register throws,
\* registerIfAbsent answers false).
Use(p) ==
    /\ p \in net.late /\ net' = [net EXCEPT !.late = @ \ {p}]
    /\ chain' = IF p.name \in Names THEN chain ELSE Append(chain, p)
    /\ UNCHANGED <<consent, at, current, promised, queue, stimuliOut, transformed, audit, offered, looked>>

SetConsent(a, status) ==
    /\ net.changes > 0 /\ net' = [net EXCEPT !.changes = @ - 1]
    /\ consent[a] # status /\ consent' = [consent EXCEPT ![a] = status]
    /\ UNCHANGED <<chain, at, current, promised, queue, stimuliOut, transformed, audit, offered, looked>>

(***************************************************************************)
(* The gate.                                                               *)
(***************************************************************************)
CategoryForAction(type) ==
    CASE type = "tool_call" -> "tool_inputs" [] type = "interact" -> "social_graph"
      [] type = "observe" -> "telemetry" [] OTHER -> "memory"

Rule(type) == net.rules[CategoryForAction(type)]
Reduces(type, status) == Rule(type).required /\ status # "accepted"

RedactPayload(payload, level) ==
    CASE level = "none" -> payload [] level = "strict" -> "redacted"
      [] OTHER -> IF payload = "redacted" THEN payload ELSE "masked"

\* *Fault*: with the consent missing only tools are stopped.
ToolsOnly(action, status) ==
    IF Reduces(action.type, status)
    THEN IF action.type = "tool_call" THEN [type |-> "observe", payload |-> "notice"] ELSE action
    ELSE [action EXCEPT !.payload = RedactPayload(@, Rule(action.type).level)]
Gate(action, status) ==
    IF Reduces(action.type, status)
       /\ (action.type = "tool_call" \/ ~Rule(action.type).tools)
    THEN [type |-> "observe", payload |-> "notice"]
    ELSE [action EXCEPT !.payload = RedactPayload(@, Rule(action.type).level)]

(***************************************************************************)
(* Transforming hooks: runStimulusEmitHooks and runHookWithTransform, over the   *)
(* array as it is when each plugin is reached.                                *)
(***************************************************************************)
Transforming == {"onStimulusEmit", "onAgentAction"}
NextPlugin == {k \in DOMAIN chain : k > at.cursor /\ Has(chain[k], at.hook)}
Items == IF at.hook = "onStimulusEmit" THEN net.stimuli ELSE Len(net.actions)
Start(item) ==
    IF item > Len(net.actions) THEN Undefined
    ELSE [type |-> net.actions[item].type, payload |-> "raw"]

Offer(p, form, failed) ==
    offered' = Append(offered, [hook |-> at.hook, plugin |-> p, item |-> at.item, form |-> form,
                                failed |-> failed])

\* What a plugin returns.
Returned(p, form) ==
    CASE p.does \in {"forget", "cancel"} -> Undefined
      [] p.does = "enrich" /\ form # Undefined /\ at.hook = "onAgentAction" ->
            [form EXCEPT !.payload = IF @ = "raw" THEN "enriched" ELSE @]
      [] p.does = "gate" /\ at.hook = "onAgentAction" -> Gate(form, consent[net.actions[at.item].agent])
      [] OTHER -> form

\* *Fault*: a hook that throws leaves nothing to the next one.
Lost(form) == Undefined
AfterError(form) == form

\* The gate throws on an action that is no longer there, and when its lookup fails.
TransformOne(failed) ==
    /\ at.hook \in Transforming /\ at.item <= Items
    /\ NextPlugin # {} /\ (at.hook = "onStimulusEmit" => current # Undefined)
    /\ LET k == Min(NextPlugin)
           p == chain[k]
           gate == p.does = "gate" /\ at.hook = "onAgentAction"
       IN  /\ failed => at.hook \in p.throws \/ (gate /\ current = Undefined)
           /\ (gate /\ current = Undefined) => failed
           /\ Offer(p, current, failed)
           /\ current' = IF failed THEN AfterError(current) ELSE Returned(p, current)
           /\ looked' = IF gate /\ ~failed
                        THEN [i \in DOMAIN looked \cup {at.item} |-> IF i = at.item
                                THEN consent[net.actions[i].agent] ELSE looked[i]]
                        ELSE looked
           /\ at' = Place(at.hook, at.item, k)
    /\ UNCHANGED <<net, chain, consent, promised, queue, stimuliOut, transformed, audit>>

\* No plugin is left, or the stimulus is cancelled: the next item, or the next hook.
TransformEnds ==
    /\ at.hook \in Transforming /\ at.item <= Items
    /\ NextPlugin = {} \/ (at.hook = "onStimulusEmit" /\ current = Undefined)
    /\ IF at.hook = "onStimulusEmit"
       THEN /\ stimuliOut' = Append(stimuliOut, current) /\ current' = "raw"
            /\ UNCHANGED transformed
       ELSE /\ transformed' = Append(transformed, current) /\ current' = Start(at.item + 1)
            /\ UNCHANGED stimuliOut
    /\ at' = Place(at.hook, at.item + 1, 0)
    /\ UNCHANGED <<net, chain, consent, promised, queue, audit, offered, looked>>

(***************************************************************************)
(* Notifying hooks: runHook and the batch part of runActionHooks.  The parallel  *)
(* plugins start together; the others run one by one when all of them ended.    *)
(***************************************************************************)
Parallel(hook) == {k \in DOMAIN chain : Has(chain[k], hook) /\ chain[k].parallel}
InSequence(hook) == {k \in DOMAIN chain : Has(chain[k], hook) /\ ~chain[k].parallel}

Notify(hook) ==
    /\ at' = Place(hook, 0, 0)
    /\ promised' = Parallel(hook)
    /\ queue' = InSequence(hook)
    /\ UNCHANGED <<net, chain, consent, current, stimuliOut, transformed, audit, offered, looked>>

OnWorldTick == at.hook = "onStimulusEmit" /\ at.item > Items /\ Notify("onWorldTick")
\* without actions runActionHooks returns at once
OnBatch ==
    /\ at.hook = "onAgentAction" /\ at.item > Items /\ net.actions # <<>>
    /\ Notify("onAgentActionsBatch")

ParallelEnds(k, failed) ==
    /\ k \in promised /\ promised' = promised \ {k}
    /\ failed => at.hook \in chain[k].throws
    /\ Offer(chain[k], Undefined, failed)
    /\ UNCHANGED <<net, chain, consent, at, current, queue, stimuliOut, transformed, audit, looked>>

\* The gate's batch hook saves a decision per action; an action that is gone makes it throw.
Audited == [i \in DOMAIN transformed |->
    IF Reduces(transformed[i].type, consent[net.actions[i].agent]) THEN "reduce" ELSE "allow"]

\* *Fault*: the first sequential plugin does not wait.
AnyTime == TRUE
ParallelDone == promised = {}

SequentialOne(failed) ==
    /\ queue # {} /\ ParallelDone
    /\ LET p == chain[Min(queue)]
           audits == at.hook = "onAgentActionsBatch" /\ p.does = "gate"
           broken == audits /\ Contains(transformed, Undefined)
       IN  /\ failed => at.hook \in p.throws \/ broken
           /\ broken => failed
           /\ Offer(p, Undefined, failed)
           /\ audit' = IF audits /\ ~failed THEN Audited ELSE audit
    /\ queue' = queue \ {Min(queue)}
    /\ UNCHANGED <<net, chain, consent, at, current, promised, stimuliOut, transformed, looked>>

\* onWorldTick has run: the agents act, and their actions are transformed.
AgentsAct ==
    /\ at.hook = "onWorldTick" /\ promised = {} /\ queue = {}
    /\ at' = Place("onAgentAction", 1, 0)
    /\ current' = Start(1)
    /\ UNCHANGED <<net, chain, consent, promised, queue, stimuliOut, transformed, audit, offered, looked>>

HooksNext ==
    \/ \E p \in net.late : Use(p)
    \/ \E a \in DOMAIN consent, status \in {"accepted", "revoked"} : SetConsent(a, status)
    \/ TransformEnds \/ OnWorldTick \/ OnBatch \/ AgentsAct
    \/ \E failed \in BOOLEAN : \/ TransformOne(failed) \/ SequentialOne(failed)
                               \/ \E k \in promised : ParallelEnds(k, failed)

HooksSpec == HooksInit /\ [][HooksNext]_hookVars

(***************************************************************************)
(* Properties.                                                             *)
(***************************************************************************)
Offers(hook, item) == {i \in DOMAIN offered : offered[i].hook = hook /\ offered[i].item = item}
Once(p, calls) ==
    \E i \in calls : offered[i].plugin = p /\ \A j \in calls : offered[j].plugin = p => j = i
Stands(p, q) == \E k, l \in DOMAIN chain : k < l /\ chain[k] = p /\ chain[l] = q
Ended(hook) ==
    IF hook = "onWorldTick" THEN at.hook \in {"onAgentAction", "onAgentActionsBatch"}
    ELSE at.hook = hook /\ promised = {} /\ queue = {}

\* Every plugin there was at the start is called exactly once in each hook it has, per action
\* where the hook transforms one, whoever throws; the parallel ones before the others, which
\* keep the order of registration; what a plugin is offered is what the last one before it
\* that did not throw made of the action (PluginRegistry.ts:50-114, 199-253).
InOrder(calls) ==
    \A i, j \in calls : i < j /\ ~offered[i].plugin.parallel =>
        ~offered[j].plugin.parallel /\ Stands(offered[i].plugin, offered[j].plugin)
Kept(calls) == {i \in calls : ~offered[i].failed}
HandedOn(calls, item) ==
    /\ \A i \in calls : (\A j \in Kept(calls) : j >= i) => offered[i].form = Start(item)
    /\ \A i, j \in calls : offered[i].failed /\ i < j /\ (\A k \in calls : k <= i \/ k >= j) =>
          offered[j].form = offered[i].form
EachPluginOnce ==
    /\ \A hook \in {"onWorldTick", "onAgentActionsBatch"} : Ended(hook) =>
          /\ \A p \in ToSet(net.plugins) : Has(p, hook) => Once(p, Offers(hook, 0))
          /\ InOrder(Offers(hook, 0))
    /\ \A item \in DOMAIN transformed :
          LET calls == Offers("onAgentAction", item)
          IN  /\ \A p \in ToSet(net.plugins) : Has(p, "onAgentAction") => Once(p, calls)
              /\ HandedOn(calls, item)
              /\ Kept(calls) = {} => transformed[item] = Start(item)

\* Where a category must be consented to and is redacted, no plugin behind the gate, nor the
\* log, gets what an agent without the consent wrote, unless the look-up itself failed; the
\* tools it called stay hidden under any rule (PrivacyCompliancePlugin.ts:85-127).
Clear == {"raw", "enriched"}
Hidden(item) ==
    /\ item \in DOMAIN looked
    /\ LET type == net.actions[item].type
       IN  \/ Rule(type).level # "none"
           \/ type = "tool_call" /\ Reduces(type, looked[item])
Behind(i) ==
    \E j \in Offers("onAgentAction", offered[i].item) : j < i /\ offered[j].plugin.does = "gate"
GateIsHeld ==
    /\ \A i \in DOMAIN offered :
          offered[i].hook = "onAgentAction" /\ Hidden(offered[i].item) /\ Behind(i)
          /\ offered[i].form # Undefined => offered[i].form.payload \notin Clear
    /\ \A item \in DOMAIN transformed : Hidden(item) /\ transformed[item] # Undefined =>
          transformed[item].payload \notin Clear

\* Plugins are called once in each hook, in their order, whoever throws, and nothing that
\* needs a consent passes the gate in clear without it.
HooksAreKept == EachPluginOnce /\ GateIsHeld
=============================================================================
