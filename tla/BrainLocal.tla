----------------------------- MODULE BrainLocal -----------------------------
(***************************************************************************)
(* The engine of a started BrainLocal (src/brainlocal): one maintainer     *)
(* goroutine that consumes the event queue bQueue, the neuron workers that *)
(* consume nQueue, and the clients that call TrigLinks, Entry and Wait.    *)
(*                                                                         *)
(* Link and neuron status words are plain fields that all goroutines read  *)
(* and write without a lock; only the brain's state is guarded by b.mu.    *)
(* A value the code reads and acts on later is therefore read in one       *)
(* action and used in another.  A loop that reads status words takes as    *)
(* many steps as other goroutines act in between: it keeps the set of what *)
(* it has still to read, and one step reads any number of words that tell  *)
(* it nothing.  A loop that only writes one constant is one action.  The   *)
(* two queues are bounded: a send is only enabled while there is room.     *)
(***************************************************************************)
EXTENDS Integers, Sequences, FiniteSets, Functions

CONSTANTS
    Neurons,         \* neuron IDs, the END neuron included if there is one
    Links,           \* link IDs
    EndNeuron,       \* core.EndNeuronID
    EntryLinkFrom,   \* core.EntryLinkFrom, the source of the entry links
    From, To,        \* linkSpec.from and linkSpec.to
    TriggerGroups,   \* neuronSpec.triggerGroups: a set of link sets
    CastGroups,      \* neuronSpec.castGroups: a set of slices of links
    Selections,      \* the slices the neuron's selector may choose
    Faulty,          \* neurons whose processor may return an error
    Streamers,       \* neurons whose processor may call ContinueCast
    Workers,         \* the nWorkerNum worker goroutines
    Clients,         \* goroutines of the program that uses the brain
    Waiters,         \* the clients that call Wait too
    Calls,           \* the link sets clients pass to trigLinks
    BQueueLen,       \* bQueueLen
    NQueueLen,       \* nQueueLen
    MaxCalls,        \* bound: calls of trigLinks in a behaviour
    MaxContinueCast, \* bound: calls of ContinueCast per neuron
    MaxRetries       \* bound: sleeping retry goroutines counted per neuron

ASSUME TopologyAssumption ==
    /\ From \in [Links -> Neurons \cup {EntryLinkFrom}]
    /\ To \in [Links -> Neurons]
    /\ EntryLinkFrom \notin Neurons

ASSUME GroupsAssumption ==
    /\ TriggerGroups \in [Neurons -> SUBSET SUBSET Links]
    /\ CastGroups \in [Neurons -> SUBSET Seq(Links)]
    /\ Selections \in [Neurons -> SUBSET Seq(Links)]
    /\ \A n \in Neurons :
         /\ \A g \in TriggerGroups[n] : \A l \in g : To[l] = n
         /\ \A g \in CastGroups[n] : \A l \in Range(g) : From[l] = n
         /\ Selections[n] \subseteq CastGroups[n] \cup {<< >>}

ASSUME BoundsAssumption ==
    /\ BQueueLen \in Nat \ {0} /\ NQueueLen \in Nat \ {0}
    /\ MaxCalls \in Nat /\ MaxContinueCast \in Nat /\ MaxRetries \in Nat
    /\ Calls \subseteq SUBSET Links /\ Faulty \subseteq Neurons

ASSUME GoroutinesAssumption ==
    IsFiniteSet(Workers) /\ IsFiniteSet(Clients) /\ "maintainer" \notin Clients

VARIABLES
    linkState,    \* link.status.state
    neuronState,  \* neuron.status.state
    state,        \* b.state
    bQueue,       \* b.bQueue, maintain events
    nQueue,       \* b.nQueue, neuron IDs
    succeeded,    \* neurons with status.count.succeed > 0
    failed,       \* neurons with status.count.failed > 0
    mPc, mEvent,  \* maintainer: control point and the event it handles
    mGroup, mIdx, \* maintainer: selected cast group, next index of its loop
    mTodo,        \* maintainer: trigger groups, or visits, of a loop still to come
    mLeft,        \* maintainer: what the scan under way has still to read
    wPc, wNeuron, \* workers: control point and neuron
    cPc, cLeft,   \* clients: control point, and mLeft's counterpart
    cTrig,        \* trigLink goroutines: control point per client and link
    calls,        \* calls of trigLinks so far
    continued,    \* calls of ContinueCast so far, per neuron
    retries       \* sleeping cast_anyway retry goroutines per neuron

status == << linkState, neuronState, state >>
counts == << succeeded, failed, calls, continued, retries >>
mLoop == << mGroup, mIdx, mTodo, mLeft >>
maintainer == << mPc, mEvent, mLoop >>
workers == << wPc, wNeuron >>
clients == << cPc, cLeft, cTrig >>
vars == << status, bQueue, nQueue, counts, maintainer, workers, clients >>

-----------------------------------------------------------------------------
(* Maintain events (event.go). The kind of an event follows from its action. *)

LinkReady(l)   == [action |-> "link_ready", id |-> l]
TryActivate(n) == [action |-> "try_activate_neuron", id |-> n]
TryCast(n)     == [action |-> "try_cast", id |-> n]
CastAnyway(n)  == [action |-> "cast_anyway", id |-> n]
BrainSleep     == [action |-> "brain_sleep", id |-> "brain"]
NoEvent        == [action |-> "none", id |-> "none"]
NoNeuron       == "none"

Events == {LinkReady(l) : l \in Links} \cup {TryActivate(n) : n \in Neurons}
            \cup {TryCast(n) : n \in Neurons}
            \cup {CastAnyway(n) : n \in Neurons} \cup {BrainSleep}

\* The sends of publishEvent and publishEventActivateNeuron, blocked while the
\* queue is full. A started brain is never Shutdown, so nothing is dropped.
publishEvent(e) == Len(bQueue) < BQueueLen /\ bQueue' = Append(bQueue, e)
publishEventActivateNeuron(n) ==
    Len(nQueue) < NQueueLen /\ nQueue' = Append(nQueue, n)

InLinks(n)  == UNION TriggerGroups[n]
OutLinks(n) == UNION {Range(g) : g \in CastGroups[n]}

\* The links Entry passes to trigLinks.
isEntryLink(l) == From[l] = EntryLinkFrom
EntryLinks == {l \in Links : isEntryLink(l)}

\* What getNeuronCountByState and getLinkCountByState count, as far as
\* refreshState looks at it.
ActiveNeurons == {n \in Neurons : neuronState[n] = "Active"}

\* Mutant: Ready links are not counted.
StandByLinksWait == {l \in Links : linkState[l] = "Wait"}

StandByLinks == {l \in Links : linkState[l] \in {"Wait", "Ready"}}

ReadyLinks == {l \in Links : linkState[l] = "Ready"}

\* A scan that looks for one of `busy' has passed over what is not, and goes on.
ScansOn(left, busy) == left \cap busy \notin {{}, left}

-----------------------------------------------------------------------------
(* The maintainer: runBrainMaintainer takes one event at a time.            *)

runBrainMaintainer ==
    /\ mPc = "idle" /\ bQueue # << >>
    /\ mEvent' = Head(bQueue)
    /\ bQueue' = Tail(bQueue)
    /\ mPc' = Head(bQueue).action
    /\ UNCHANGED << status, nQueue, counts, mLoop, workers, clients >>

\* maintain: the handler has returned nil, refreshState is called.
HandlerDone ==
    /\ mPc' = "countNeurons" /\ mEvent' = NoEvent
    /\ mGroup' = << >> /\ mIdx' = 0 /\ mTodo' = {} /\ mLeft' = Neurons

handleLinkReady ==
    /\ mPc = "link_ready"
    /\ publishEvent(TryActivate(To[mEvent.id]))
    /\ HandlerDone
    /\ UNCHANGED << status, nQueue, counts, workers, clients >>

\* tryActivateNeuron: the test of the neuron's state, then the call of
\* ifNeuronShouldActivate, then the send it decides on.
tryActivateNeuron ==
    /\ mPc = "try_activate_neuron"
    /\ \/ neuronState[mEvent.id] = "Active" /\ HandlerDone
       \/ /\ neuronState[mEvent.id] # "Active"
          /\ mPc' = "shouldActivate" /\ UNCHANGED << mEvent, mLoop >>
    /\ UNCHANGED << status, bQueue, nQueue, counts, workers, clients >>

\* ifNeuronShouldActivate, the loop over the trigger groups: gs are still to
\* come, and a group without links never activates.
NextGroup(gs) ==
    \/ gs = {} /\ HandlerDone
    \/ /\ \E g \in gs : mTodo' = gs \ {g} /\ mLeft' = g
       /\ mPc' = "group"
       /\ UNCHANGED << mEvent, mGroup, mIdx >>

\* ifNeuronShouldActivate: the test of the brain's state,
shouldActivate ==
    /\ mPc = "shouldActivate"
    /\ \/ state # "Running" /\ HandlerDone
       \/ state = "Running" /\ NextGroup(TriggerGroups[mEvent.id] \ {{}})
    /\ UNCHANGED << status, bQueue, nQueue, counts, workers, clients >>

AcceptGroup ==
    /\ mPc' = IF mEvent.id = EndNeuron THEN "end" ELSE "enqueue"
    /\ mLeft' = {} /\ mTodo' = {} /\ UNCHANGED << mEvent, mGroup, mIdx >>

\* Mutant: one Ready link of a group is enough.
testGroupAny ==
    /\ mPc = "group"
    /\ IF mLeft \cap ReadyLinks = {} THEN NextGroup(mTodo) ELSE AcceptGroup
    /\ UNCHANGED << status, bQueue, nQueue, counts, workers, clients >>

\* Mutant: END is queued like any neuron.
testGroupEnd ==
    /\ mPc = "group"
    /\ IF mLeft \subseteq ReadyLinks
       THEN mPc' = "enqueue" /\ mLeft' = {} /\ mTodo' = {} /\ UNCHANGED << mEvent, mGroup, mIdx >>
       ELSE NextGroup(mTodo)
    /\ UNCHANGED << status, bQueue, nQueue, counts, workers, clients >>

\* and the loop over the links of a group, which ends at one that is not Ready.
testGroup ==
    /\ mPc = "group"
    /\ \/ ~(mLeft \subseteq ReadyLinks) /\ NextGroup(mTodo)
       \/ /\ ScansOn(mLeft, Links \ ReadyLinks)
          /\ mLeft' = mLeft \ ReadyLinks
          /\ UNCHANGED << mPc, mEvent, mGroup, mIdx, mTodo >>
       \/ mLeft \subseteq ReadyLinks /\ AcceptGroup
    /\ UNCHANGED << status, bQueue, nQueue, counts, workers, clients >>

\* Mutant: arrival at END is only logged.
publishEndNot ==
    /\ mPc = "end"
    /\ HandlerDone
    /\ UNCHANGED << status, bQueue, nQueue, counts, workers, clients >>

publishEnd ==
    /\ mPc = "end"
    /\ publishEvent(BrainSleep)
    /\ HandlerDone
    /\ UNCHANGED << status, nQueue, counts, workers, clients >>

enqueueNeuron ==
    /\ mPc = "enqueue"
    /\ publishEventActivateNeuron(mEvent.id)
    /\ HandlerDone
    /\ UNCHANGED << status, bQueue, counts, workers, clients >>

isCastAnyway == mEvent.action = "cast_anyway"

\* neuronCast: the check of the neuron's state and the call of the selector,
\* user code that names a cast group (an unknown name selects no link).
neuronCast ==
    /\ mPc \in {"try_cast", "cast_anyway"}
    /\ \/ /\ ~isCastAnyway /\ neuronState[mEvent.id] # "Inactive"
          /\ HandlerDone
       \/ /\ isCastAnyway \/ neuronState[mEvent.id] = "Inactive"
          /\ mGroup' \in Selections[mEvent.id]
          /\ mIdx' = 1
          /\ mPc' = "cast"
          /\ UNCHANGED << mEvent, mTodo, mLeft >>
    /\ UNCHANGED << status, bQueue, nQueue, counts, workers, clients >>

\* neuronCast, one round of the loop over the selected group: the link's state
\* is read, then written, then LinkReady is sent. A link that is already Ready
\* makes cast_anyway start a retry goroutine.
castSelected ==
    /\ mPc = "cast" /\ mIdx <= Len(mGroup)
    /\ LET l == mGroup[mIdx]
           n == mEvent.id
       IN \/ /\ linkState[l] = "Wait" \/ (linkState[l] = "Init" /\ isCastAnyway)
             /\ mPc' = "castWrite"
             /\ UNCHANGED << mIdx, retries >>
          \/ /\ linkState[l] \in {"Init", "Ready"} /\ ~isCastAnyway
             /\ mIdx' = mIdx + 1
             /\ UNCHANGED << mPc, retries >>
          \/ /\ linkState[l] = "Ready" /\ isCastAnyway
             /\ retries' = IF retries[n] < MaxRetries
                           THEN [retries EXCEPT ![n] = @ + 1] ELSE retries
             /\ mIdx' = mIdx + 1
             /\ UNCHANGED mPc
    /\ UNCHANGED << status, bQueue, nQueue, succeeded, failed, calls, continued,
                    mEvent, mGroup, mTodo, mLeft, workers, clients >>

castWrite ==
    /\ mPc = "castWrite"
    /\ linkState' = [linkState EXCEPT ![mGroup[mIdx]] = "Ready"]
    /\ mIdx' = mIdx + 1
    /\ mPc' = "castSend"
    /\ UNCHANGED << neuronState, state, bQueue, nQueue, counts, mEvent, mGroup, mTodo, mLeft,
                    workers, clients >>

\* Mutant: the link is Ready and nobody is told.
castSendNot ==
    /\ mPc = "castSend" /\ mPc' = "cast"
    /\ UNCHANGED << status, bQueue, nQueue, counts, mEvent, mLoop, workers, clients >>

castSend ==
    /\ mPc = "castSend"
    /\ publishEvent(LinkReady(mGroup[mIdx - 1]))
    /\ mPc' = "cast"
    /\ UNCHANGED << status, nQueue, counts, mEvent, mLoop, workers, clients >>

Unselected == OutLinks(mEvent.id) \ Range(mGroup)

\* The visits of the last loop of neuronCast: a link of two groups has two.
Visits == {v \in CastGroups[mEvent.id] \X Unselected : v[2] \in Range(v[1])}

SetLinks(ls, s) == linkState' = [l \in Links |-> IF l \in ls THEN s ELSE linkState[l]]

\* Mutant: the loop does not skip the selected links nor look at their state.
castUnselectedAll ==
    /\ mPc = "cast" /\ mIdx > Len(mGroup)
    /\ SetLinks(OutLinks(mEvent.id), IF isCastAnyway THEN "Wait" ELSE "Init")
    /\ HandlerDone
    /\ UNCHANGED << neuronState, state, bQueue, nQueue, counts, workers, clients >>

\* The last loop of neuronCast goes on with the visits vs.
NextVisit(vs) ==
    \/ vs = {} /\ HandlerDone
    \/ /\ vs # {}
       /\ mPc' = "castRest" /\ mTodo' = vs /\ mLeft' = {}
       /\ UNCHANGED << mEvent, mGroup, mIdx >>

\* Mutant: cast_anyway puts the selected links on Wait too.
castUnselectedWait ==
    /\ mPc = "cast" /\ mIdx > Len(mGroup)
    /\ \/ isCastAnyway /\ SetLinks(OutLinks(mEvent.id), "Wait") /\ HandlerDone
       \/ ~isCastAnyway /\ NextVisit(Visits) /\ UNCHANGED linkState
    /\ UNCHANGED << neuronState, state, bQueue, nQueue, counts, workers, clients >>

\* neuronCast, the loop over the links that were not selected: cast_anyway
\* writes Wait whatever their state,
castUnselected ==
    /\ mPc = "cast" /\ mIdx > Len(mGroup)
    /\ \/ isCastAnyway /\ SetLinks(Unselected, "Wait") /\ HandlerDone
       \/ ~isCastAnyway /\ NextVisit(Visits) /\ UNCHANGED linkState
    /\ UNCHANGED << neuronState, state, bQueue, nQueue, counts, workers, clients >>

\* Mutant: the links that were not selected stay on Wait.
castRestNot ==
    /\ mPc = "castRest"
    /\ HandlerDone
    /\ UNCHANGED << status, bQueue, nQueue, counts, workers, clients >>

\* try_cast tests each for Wait,
castRest ==
    /\ mPc = "castRest"
    /\ \E v \in mTodo :
          \/ /\ linkState[v[2]] = "Wait"
             /\ mPc' = "castReset" /\ mLeft' = {v[2]} /\ mTodo' = mTodo \ {v}
             /\ UNCHANGED << mEvent, mGroup, mIdx >>
          \/ linkState[v[2]] # "Wait" /\ NextVisit(mTodo \ {v})
    /\ UNCHANGED << status, bQueue, nQueue, counts, workers, clients >>

\* and then writes Init, over whatever was written since the test.
castReset ==
    /\ mPc = "castReset"
    /\ SetLinks(mLeft, "Init") /\ NextVisit(mTodo)
    /\ UNCHANGED << neuronState, state, bQueue, nQueue, counts, workers, clients >>

\* refreshState called by maintain: the neurons are counted, then the links,
\* each without a lock, then the brain is set Running or told to sleep. What
\* follows a first busy one is not read: it cannot change the outcome.
countNeurons ==
    /\ mPc = "countNeurons"
    /\ \/ mLeft \cap ActiveNeurons # {} /\ mPc' = "setRunning" /\ mLeft' = {}
       \/ ScansOn(mLeft, ActiveNeurons) /\ mLeft' = mLeft \cap ActiveNeurons /\ UNCHANGED mPc
       \/ mLeft \cap ActiveNeurons = {} /\ mPc' = "countLinks" /\ mLeft' = Links
    /\ UNCHANGED << status, bQueue, nQueue, counts, mEvent, mGroup, mIdx, mTodo, workers, clients >>

countLinks ==
    /\ mPc = "countLinks"
    /\ \/ mLeft \cap StandByLinks # {} /\ mPc' = "setRunning" /\ mLeft' = {}
       \/ ScansOn(mLeft, StandByLinks) /\ mLeft' = mLeft \cap StandByLinks /\ UNCHANGED mPc
       \/ mLeft \cap StandByLinks = {} /\ mPc' = "sleep" /\ mLeft' = {}
    /\ UNCHANGED << status, bQueue, nQueue, counts, mEvent, mGroup, mIdx, mTodo, workers, clients >>

setRunning ==
    /\ mPc = "setRunning"
    /\ state' = "Running"
    /\ mPc' = "idle"
    /\ UNCHANGED << linkState, neuronState, bQueue, nQueue, counts, mEvent, mLoop, workers,
                    clients >>

publishSleep ==
    /\ mPc = "sleep"
    /\ publishEvent(BrainSleep)
    /\ mPc' = "idle"
    /\ UNCHANGED << status, nQueue, counts, mEvent, mLoop, workers, clients >>

\* ForceSleep, called by handleBrainEvent: the loop over the links, the loop
\* over the neurons, setState. Brain events are not followed by refreshState.
forceSleepLinks ==
    /\ mPc = "brain_sleep"
    /\ linkState' = [l \in Links |-> "Init"]
    /\ mPc' = "sleepNeurons"
    /\ UNCHANGED << neuronState, state, bQueue, nQueue, counts, mEvent, mLoop, workers, clients >>

forceSleepNeurons ==
    /\ mPc = "sleepNeurons"
    /\ neuronState' = [n \in Neurons |-> "Inactive"]
    /\ mPc' = "setSleeping"
    /\ UNCHANGED << linkState, state, bQueue, nQueue, counts, mEvent, mLoop, workers, clients >>

\* Mutant: refreshState is called after brain events too.
forceSleepStateRefresh ==
    /\ mPc = "setSleeping"
    /\ state' = "Sleeping"
    /\ HandlerDone
    /\ UNCHANGED << linkState, neuronState, bQueue, nQueue, counts, workers, clients >>

forceSleepState ==
    /\ mPc = "setSleeping"
    /\ state' = "Sleeping"
    /\ mPc' = "idle" /\ mEvent' = NoEvent
    /\ UNCHANGED << linkState, neuronState, bQueue, nQueue, counts, mLoop, workers, clients >>

Maintainer ==
    \/ runBrainMaintainer \/ handleLinkReady
    \/ tryActivateNeuron \/ shouldActivate \/ testGroup \/ publishEnd \/ enqueueNeuron
    \/ neuronCast \/ castSelected \/ castWrite \/ castSend
    \/ castUnselected \/ castRest \/ castReset
    \/ countNeurons \/ countLinks \/ setRunning \/ publishSleep
    \/ forceSleepLinks \/ forceSleepNeurons \/ forceSleepState

-----------------------------------------------------------------------------
(* A neuron worker: runNeuronWorker and activateNeuron.                     *)

runNeuronWorker(w) ==
    /\ wPc[w] = "idle" /\ nQueue # << >>
    /\ wNeuron' = [wNeuron EXCEPT ![w] = Head(nQueue)]
    /\ nQueue' = Tail(nQueue)
    /\ wPc' = [wPc EXCEPT ![w] = "activate"]
    /\ UNCHANGED << status, bQueue, counts, maintainer, clients >>

setActivated(w) ==
    /\ wPc[w] = "activate"
    /\ neuronState' = [neuronState EXCEPT ![wNeuron[w]] = "Active"]
    /\ wPc' = [wPc EXCEPT ![w] = "inLinks"]
    /\ UNCHANGED << linkState, state, bQueue, nQueue, counts, maintainer, wNeuron, clients >>

\* Mutant: the links that activated the neuron stay Ready.
setInLinksInitNot(w) ==
    /\ wPc[w] = "inLinks"
    /\ wPc' = [wPc EXCEPT ![w] = "outLinks"]
    /\ UNCHANGED << status, bQueue, nQueue, counts, maintainer, wNeuron, clients >>

setInLinksInit(w) ==
    /\ wPc[w] = "inLinks"
    /\ linkState' = [l \in Links |-> IF l \in InLinks(wNeuron[w]) THEN "Init" ELSE linkState[l]]
    /\ wPc' = [wPc EXCEPT ![w] = "outLinks"]
    /\ UNCHANGED << neuronState, state, bQueue, nQueue, counts, maintainer, wNeuron, clients >>

setOutLinksWait(w) ==
    /\ wPc[w] = "outLinks"
    /\ linkState' = [l \in Links |-> IF l \in OutLinks(wNeuron[w]) THEN "Wait" ELSE linkState[l]]
    /\ wPc' = [wPc EXCEPT ![w] = "process"]
    /\ UNCHANGED << neuronState, state, bQueue, nQueue, counts, maintainer, wNeuron, clients >>

\* The processor, user code, calls ContinueCast while it runs.
ContinueCast(w) ==
    /\ wPc[w] = "process" /\ wNeuron[w] \in Streamers
    /\ continued[wNeuron[w]] < MaxContinueCast
    /\ publishEvent(CastAnyway(wNeuron[w]))
    /\ continued' = [continued EXCEPT ![wNeuron[w]] = @ + 1]
    /\ UNCHANGED << status, nQueue, succeeded, failed, calls, retries, maintainer, workers, clients >>

\* Mutant: the neuron stays Active.
processOkActive(w) ==
    /\ wPc[w] = "process"
    /\ succeeded' = succeeded \cup {wNeuron[w]}
    /\ wPc' = [wPc EXCEPT ![w] = "cast"]
    /\ UNCHANGED << status, bQueue, nQueue, failed, calls, continued, retries, maintainer,
                    wNeuron, clients >>

\* Mutant: activateNeuron returns without the TryCast event.
processOkReturn(w) ==
    /\ wPc[w] = "process"
    /\ neuronState' = [neuronState EXCEPT ![wNeuron[w]] = "Inactive"]
    /\ succeeded' = succeeded \cup {wNeuron[w]}
    /\ wPc' = [wPc EXCEPT ![w] = "idle"]
    /\ wNeuron' = [wNeuron EXCEPT ![w] = NoNeuron]
    /\ UNCHANGED << linkState, state, bQueue, nQueue, failed, calls, continued, retries,
                    maintainer, clients >>

\* The processor returns nil; the TryCast event is sent in the next step.
processOk(w) ==
    /\ wPc[w] = "process"
    /\ neuronState' = [neuronState EXCEPT ![wNeuron[w]] = "Inactive"]
    /\ succeeded' = succeeded \cup {wNeuron[w]}
    /\ wPc' = [wPc EXCEPT ![w] = "cast"]
    /\ UNCHANGED << linkState, state, bQueue, nQueue, failed, calls, continued, retries,
                    maintainer, wNeuron, clients >>

\* Mutant: the error is returned before the neuron is set Inactive.
processErrorActive(w) ==
    /\ wPc[w] = "process" /\ wNeuron[w] \in Faulty
    /\ failed' = failed \cup {wNeuron[w]}
    /\ wPc' = [wPc EXCEPT ![w] = "idle"]
    /\ wNeuron' = [wNeuron EXCEPT ![w] = NoNeuron]
    /\ UNCHANGED << status, bQueue, nQueue, succeeded, calls, continued, retries, maintainer,
                    clients >>

\* The processor returns an error: activateNeuron returns, nothing is sent.
processError(w) ==
    /\ wPc[w] = "process" /\ wNeuron[w] \in Faulty
    /\ neuronState' = [neuronState EXCEPT ![wNeuron[w]] = "Inactive"]
    /\ failed' = failed \cup {wNeuron[w]}
    /\ wPc' = [wPc EXCEPT ![w] = "idle"]
    /\ wNeuron' = [wNeuron EXCEPT ![w] = NoNeuron]
    /\ UNCHANGED << linkState, state, bQueue, nQueue, succeeded, calls, continued, retries,
                    maintainer, clients >>

publishTryCast(w) ==
    /\ wPc[w] = "cast"
    /\ publishEvent(TryCast(wNeuron[w]))
    /\ wPc' = [wPc EXCEPT ![w] = "idle"]
    /\ wNeuron' = [wNeuron EXCEPT ![w] = NoNeuron]
    /\ UNCHANGED << status, nQueue, counts, maintainer, clients >>

Worker(w) ==
    \/ runNeuronWorker(w) \/ setActivated(w)
    \/ setInLinksInit(w) \/ setOutLinksWait(w)
    \/ ContinueCast(w) \/ processOk(w) \/ processError(w) \/ publishTryCast(w)

\* Mutant: the goroutine goes on to send it every 500 ms.
RetryCastForever(n) ==
    /\ retries[n] > 0
    /\ publishEvent(CastAnyway(n))
    /\ UNCHANGED << status, nQueue, counts, maintainer, workers, clients >>

\* The goroutine of neuronCast that sleeps 500 ms and sends cast_anyway again.
RetryCast(n) ==
    /\ retries[n] > 0
    /\ publishEvent(CastAnyway(n))
    /\ retries' = [retries EXCEPT ![n] = @ - 1]
    /\ UNCHANGED << status, nQueue, succeeded, failed, calls, continued, maintainer,
                    workers, clients >>

-----------------------------------------------------------------------------
(* A client: trigLinks (TrigLinks, Entry) and Wait.                         *)

\* ls: the links of the call that the brain has; others are skipped, so that
\* a call may have none and still refresh the brain's state.
trigLinks(c, ls) ==
    /\ cPc[c] = "idle" /\ calls < MaxCalls
    /\ calls' = calls + 1
    /\ cPc' = [cPc EXCEPT ![c] = "trig"]
    /\ cLeft' = [cLeft EXCEPT ![c] = Neurons]
    /\ cTrig' = [cTrig EXCEPT ![c] = [l \in Links |-> IF l \in ls THEN "read" ELSE "none"]]
    /\ UNCHANGED << status, bQueue, nQueue, succeeded, failed, continued, retries,
                    maintainer, workers >>

\* trigLink, one goroutine per link: read the status, write it, send.
trigLinkRead(c, l) ==
    /\ cTrig[c][l] = "read"
    /\ cTrig' = [cTrig EXCEPT ![c][l] = IF linkState[l] # "Ready" THEN "write" ELSE "none"]
    /\ UNCHANGED << status, bQueue, nQueue, counts, maintainer, workers, cPc, cLeft >>

\* Mutant: the link is set Ready without the event.
trigLinkWriteOnly(c, l) ==
    /\ cTrig[c][l] = "write"
    /\ linkState' = [linkState EXCEPT ![l] = "Ready"]
    /\ cTrig' = [cTrig EXCEPT ![c][l] = "none"]
    /\ UNCHANGED << neuronState, state, bQueue, nQueue, counts, maintainer, workers,
                    cPc, cLeft >>

trigLinkWrite(c, l) ==
    /\ cTrig[c][l] = "write"
    /\ linkState' = [linkState EXCEPT ![l] = "Ready"]
    /\ cTrig' = [cTrig EXCEPT ![c][l] = "send"]
    /\ UNCHANGED << neuronState, state, bQueue, nQueue, counts, maintainer, workers,
                    cPc, cLeft >>

trigLinkSend(c, l) ==
    /\ cTrig[c][l] = "send"
    /\ publishEvent(LinkReady(l))
    /\ cTrig' = [cTrig EXCEPT ![c][l] = "none"]
    /\ UNCHANGED << status, nQueue, counts, maintainer, workers, cPc, cLeft >>

trigLink(c, l) == trigLinkRead(c, l) \/ trigLinkWrite(c, l) \/ trigLinkSend(c, l)

\* Client c goes to pc and has left to read.
ClientScans(c, pc, left) ==
    /\ cPc' = [cPc EXCEPT ![c] = pc]
    /\ cLeft' = [cLeft EXCEPT ![c] = left]

\* wg.Wait has returned: refreshState, in the client's goroutine.
clientCountNeurons(c) ==
    /\ cPc[c] = "trig" /\ \A l \in Links : cTrig[c][l] = "none"
    /\ \/ cLeft[c] \cap ActiveNeurons # {} /\ ClientScans(c, "setRunning", {})
       \/ /\ ScansOn(cLeft[c], ActiveNeurons)
          /\ ClientScans(c, "trig", cLeft[c] \cap ActiveNeurons)
       \/ cLeft[c] \cap ActiveNeurons = {} /\ ClientScans(c, "countLinks", Links)
    /\ UNCHANGED << status, bQueue, nQueue, counts, maintainer, workers, cTrig >>

clientCountLinks(c) ==
    /\ cPc[c] = "countLinks"
    /\ \/ cLeft[c] \cap StandByLinks # {} /\ ClientScans(c, "setRunning", {})
       \/ /\ ScansOn(cLeft[c], StandByLinks)
          /\ ClientScans(c, "countLinks", cLeft[c] \cap StandByLinks)
       \/ cLeft[c] \cap StandByLinks = {} /\ ClientScans(c, "sleep", {})
    /\ UNCHANGED << status, bQueue, nQueue, counts, maintainer, workers, cTrig >>

clientSetRunning(c) ==
    /\ cPc[c] = "setRunning"
    /\ state' = "Running"
    /\ cPc' = [cPc EXCEPT ![c] = "idle"]
    /\ UNCHANGED << linkState, neuronState, bQueue, nQueue, counts, maintainer, workers,
                    cLeft, cTrig >>

clientPublishSleep(c) ==
    /\ cPc[c] = "sleep"
    /\ publishEvent(BrainSleep)
    /\ cPc' = [cPc EXCEPT ![c] = "idle"]
    /\ UNCHANGED << status, nQueue, counts, maintainer, workers, cLeft, cTrig >>

\* Wait: blocks on b.cond until the brain is not Running.
callWait(c) ==
    /\ cPc[c] = "idle" /\ c \in Waiters
    /\ cPc' = [cPc EXCEPT ![c] = "waiting"]
    /\ UNCHANGED << status, bQueue, nQueue, counts, maintainer, workers, cLeft, cTrig >>

waitReturns(c) ==
    /\ cPc[c] = "waiting" /\ state # "Running"
    /\ cPc' = [cPc EXCEPT ![c] = "idle"]
    /\ UNCHANGED << status, bQueue, nQueue, counts, maintainer, workers, cLeft, cTrig >>

\* The steps of a call that has begun.
ClientStep(c) ==
    \/ clientCountNeurons(c) \/ clientCountLinks(c)
    \/ clientSetRunning(c) \/ clientPublishSleep(c) \/ waitReturns(c)

Client(c) ==
    \/ \E ls \in Calls : trigLinks(c, ls)
    \/ \E l \in Links : trigLink(c, l)
    \/ ClientStep(c)
    \/ callWait(c)

-----------------------------------------------------------------------------
(* BuildBrain and ensureMaintainerStart have run: the brain sleeps.         *)

Init ==
    /\ linkState = [l \in Links |-> "Init"]
    /\ neuronState = [n \in Neurons |-> "Inactive"]
    /\ state = "Sleeping"
    /\ bQueue = << >> /\ nQueue = << >>
    /\ succeeded = {} /\ failed = {}
    /\ mPc = "idle" /\ mEvent = NoEvent /\ mGroup = << >> /\ mIdx = 0
    /\ mTodo = {} /\ mLeft = {}
    /\ wPc = [w \in Workers |-> "idle"]
    /\ wNeuron = [w \in Workers |-> NoNeuron]
    /\ cPc = [c \in Clients |-> "idle"]
    /\ cLeft = [c \in Clients |-> {}]
    /\ cTrig = [c \in Clients |-> [l \in Links |-> "none"]]
    /\ calls = 0
    /\ continued = [n \in Neurons |-> 0] /\ retries = [n \in Neurons |-> 0]

Next ==
    \/ Maintainer
    \/ \E w \in Workers : Worker(w)
    \/ \E n \in Neurons : RetryCast(n)
    \/ \E c \in Clients : Client(c)

Spec == Init /\ [][Next]_vars

\* Every goroutine that can run is eventually run by the Go scheduler, and a
\* processor eventually returns. Starting a call is up to the client.
Fairness ==
    /\ WF_vars(Maintainer)
    /\ \A w \in Workers : WF_vars(Worker(w))
    /\ \A n \in Neurons : WF_vars(RetryCast(n))
    /\ \A c \in Clients : WF_vars(ClientStep(c))
    /\ \A c \in Clients, l \in Links : WF_vars(trigLink(c, l))

FairSpec == Spec /\ Fairness

-----------------------------------------------------------------------------
(* Properties.                                                              *)

StatusOK ==
    /\ linkState \in [Links -> {"Init", "Wait", "Ready"}]
    /\ neuronState \in [Neurons -> {"Inactive", "Active"}]
    /\ state \in {"Sleeping", "Running"}

QueuesOK ==
    /\ bQueue \in Seq(Events) /\ Len(bQueue) <= BQueueLen
    /\ nQueue \in Seq(Neurons \ {EndNeuron}) /\ Len(nQueue) <= NQueueLen

MaintainerPcs == {"idle", "link_ready", "try_activate_neuron", "shouldActivate", "group",
    "end", "enqueue", "try_cast", "cast_anyway", "cast", "castWrite", "castSend",
    "castRest", "castReset", "countNeurons", "countLinks", "setRunning", "sleep", "brain_sleep",
    "sleepNeurons", "setSleeping"}
TestPcs == {"shouldActivate", "group", "end", "enqueue"}
CastPcs == {"cast", "castWrite", "castSend", "castRest", "castReset"}

EventOK ==
    /\ mPc \in MaintainerPcs /\ mEvent \in Events \cup {NoEvent}
    /\ mPc \in {"idle", "countNeurons", "countLinks", "setRunning", "sleep"} => mEvent = NoEvent
    /\ mPc \in {"link_ready", "try_activate_neuron", "try_cast", "cast_anyway"}
          => mEvent.action = mPc
    /\ mPc \in {"brain_sleep", "sleepNeurons", "setSleeping"} => mEvent = BrainSleep
    /\ mPc \in TestPcs => mEvent.action = "try_activate_neuron"
    /\ mPc = "enqueue" => mEvent.id # EndNeuron

CastOK ==
    /\ mGroup \in Seq(Links) /\ mIdx \in Nat
    /\ mPc \in CastPcs => /\ mEvent.action \in {"try_cast", "cast_anyway"}
                          /\ mGroup \in Selections[mEvent.id]
                          /\ mIdx \in 1..(Len(mGroup) + 1)
    /\ mPc = "castWrite" => mIdx <= Len(mGroup)
    /\ mPc = "castSend" => mIdx > 1
    /\ mPc \in {"castRest", "castReset"} => ~isCastAnyway /\ mTodo \subseteq Visits
    /\ mPc = "castReset" => mLeft \subseteq Unselected
    /\ mPc \notin CastPcs => mGroup = << >> /\ mIdx = 0

ScanOK ==
    /\ mPc = "group" => /\ mTodo \subseteq TriggerGroups[mEvent.id] \ {{}}
                        /\ mLeft # {} /\ mLeft \subseteq InLinks(mEvent.id)
    /\ mPc = "countNeurons" => mLeft \subseteq Neurons
    /\ mPc = "countLinks" => mLeft \subseteq Links
    /\ mPc \notin {"group", "castRest", "castReset"} => mTodo = {}
    /\ mPc \notin {"group", "castReset", "countNeurons", "countLinks"} => mLeft = {}

MaintainerOK == EventOK /\ CastOK /\ ScanOK

WorkersOK ==
    /\ wPc \in [Workers -> {"idle", "activate", "inLinks", "outLinks", "process", "cast"}]
    /\ wNeuron \in [Workers -> (Neurons \ {EndNeuron}) \cup {NoNeuron}]
    /\ \A w \in Workers : wPc[w] # "idle" => wNeuron[w] \in Neurons \ {EndNeuron}

ClientsOK ==
    /\ cPc \in [Clients -> {"idle", "trig", "countLinks", "setRunning", "sleep", "waiting"}]
    /\ cLeft \in [Clients -> SUBSET (Neurons \cup Links)]
    /\ \A c \in Clients : /\ cPc[c] = "trig" => cLeft[c] \subseteq Neurons
                          /\ cPc[c] = "countLinks" => cLeft[c] \subseteq Links
                          /\ cPc[c] \notin {"trig", "countLinks"} => cLeft[c] = {}
    /\ cTrig \in [Clients -> [Links -> {"none", "read", "write", "send"}]]

CountsOK ==
    /\ succeeded \subseteq Neurons /\ failed \subseteq Faulty
    /\ calls \in 0..MaxCalls
    /\ continued \in [Neurons -> 0..MaxContinueCast]
    /\ retries \in [Neurons -> 0..MaxRetries]

\* The types, with the two facts the handlers rely on: the END neuron is never
\* handed to a worker, and the maintainer's control point agrees with the kind
\* of the event it is handling.
TypeOK == StatusOK /\ QueuesOK /\ MaintainerOK /\ WorkersOK /\ ClientsOK /\ CountsOK

Pending(e) == e \in Range(bQueue)
Queued(n) == n \in Range(nQueue)
Runs(n) == \E w \in Workers : wPc[w] # "idle" /\ wNeuron[w] = n

\* A neuron marked Active is being run by some worker: however runs of the
\* same neuron overlap and whenever ForceSleep intervenes, no neuron is left
\* Active with nobody to finish it (it could never be activated again, see the
\* first test of tryActivateNeuron).
ActiveHasWorker ==
    \A n \in Neurons : neuronState[n] = "Active" =>
        \E w \in Workers : wNeuron[w] = n /\ wPc[w] \in {"inLinks", "outLinks", "process"}

\* A link has a reason to be Ready: a client triggers it, or its source neuron
\* has completed successfully, or the source's processor called ContinueCast.
Supplied(l) ==
    \/ \E ls \in Calls : l \in ls
    \/ From[l] \in succeeded
    \/ From[l] \in Neurons /\ continued[From[l]] > 0

\* A neuron is handed to a worker only when all links of one of its trigger
\* groups have been supplied (README: it begins only after all the upstream
\* neurons of the group completed). ifNeuronShouldActivate.
UpstreamDone ==
    \A n \in Neurons : Queued(n) \/ Runs(n) =>
        \E g \in TriggerGroups[n] : g # {} /\ \A l \in g : Supplied(l)

\* neuronCast has the link still ahead: in the loop over the selected group it
\* has not come to it, in the last loop it has not done its last visit to it.
CastAhead(l) ==
    /\ l \notin {mGroup[i] : i \in 1..(mIdx - 1)}
    /\ mPc \in {"castRest", "castReset"} => l \in mLeft \/ \E v \in mTodo : v[2] = l

\* A link on Wait still has an owner that will resolve it: its source runs, or
\* the source's TryCast is on its way, or neuronCast has it still ahead. The
\* exceptions are the code's: a failed source never casts, and cast_anyway
\* puts unselected links on Wait.
WaitLinkOwned ==
    \A l \in Links : linkState[l] = "Wait" =>
        \/ Runs(From[l])
        \/ Pending(TryCast(From[l]))
        \/ mEvent = TryCast(From[l]) /\ CastAhead(l)
        \/ From[l] \in failed
        \/ continued[From[l]] > 0

\* Nothing is queued, running or in flight in any goroutine.
Quiet ==
    /\ bQueue = << >> /\ nQueue = << >> /\ mPc = "idle"
    /\ \A w \in Workers : wPc[w] = "idle"
    /\ \A c \in Clients : cPc[c] \in {"idle", "waiting"}
    /\ \A n \in Neurons : retries[n] = 0

\* When everything has drained and no processor has failed, Sleeping is the
\* truth: no refreshState or ForceSleep left the brain asleep over a link that
\* is Wait or Ready or a neuron that is Active.
SettledSleep ==
    Quiet /\ state = "Sleeping" /\ failed = {} => StandByLinks = {} /\ ActiveNeurons = {}

\* All links of one of the neuron's trigger groups are Ready.
Complete(n) == \E g \in TriggerGroups[n] : g # {} /\ \A l \in g : linkState[l] = "Ready"

\* Somebody will still act on the neuron's links: a LinkReady event is on its
\* way or about to be sent, or a TryActivate event that will find the brain
\* Running, or a run that has not yet taken its links, or a reset of all links.
Attended(n) ==
    \/ \E l \in InLinks(n) :
          \/ Pending(LinkReady(l)) \/ mEvent = LinkReady(l)
          \/ mPc = "castSend" /\ mGroup[mIdx - 1] = l
          \/ \E c \in Clients : cTrig[c][l] = "send"
    \/ /\ Pending(TryActivate(n)) \/ mEvent = TryActivate(n)
       /\ \/ state = "Running" /\ mPc \notin {"sleepNeurons", "setSleeping"}
          \/ mPc \in {"countNeurons", "countLinks", "setRunning"}
    \/ Queued(n)
    \/ \E w \in Workers : wNeuron[w] = n /\ wPc[w] \in {"activate", "inLinks"}
    \/ Pending(BrainSleep) \/ mPc = "brain_sleep"

Stranded(n) == Complete(n) /\ ~Attended(n)

\* "When any one TriggerGroup of a Neuron is triggered [...] the Neuron is
\* activated" (README.md:327): when everything has drained no neuron is left with
\* a complete trigger group that nobody will act on. tryActivateNeuron breaks it
\* where links are triggered again during a run.
NoStrandedTrigger == Quiet => \A n \in Neurons : ~Complete(n)

\* The one way a complete trigger group is forgotten is the first test of
\* tryActivateNeuron: its event is dropped because an earlier run of the neuron
\* is still Active. No order of sends, casts, resets, refreshes and calls of
\* trigLinks loses it anywhere else.
StrandedOnlyWhileActive ==
    [][\A n \in Neurons : ~Stranded(n) /\ Stranded(n)' =>
          tryActivateNeuron /\ mEvent.id = n /\ neuronState[n] = "Active"]_vars

\* The brain says Running, nothing in it is busy, and no event, handler or run is
\* left that would look at its state again: Wait does not return.
Forsaken ==
    /\ state = "Running" /\ ActiveNeurons = {} /\ StandByLinks = {}
    /\ bQueue = << >> /\ mPc = "idle" /\ \A w \in Workers : wPc[w] = "idle"

\* A brain is left Running for ever in three ways only: a client's refreshState
\* writes Running after the run it counted is over, a processor fails (its error
\* path sends no event), or the maintainer's refreshState had counted the neuron
\* of a run that then failed.
ForsakenOnlyByLateWrite ==
    [][~Forsaken /\ Forsaken' =>
          \/ \E c \in Clients : clientSetRunning(c)
          \/ \E w \in Workers : processError(w)
          \/ setRunning /\ failed # {}]_vars

\* A Ready link is withdrawn only by the run of its destination that consumes
\* it, by a new run of its source, by the whole brain going to sleep, by a
\* cast_anyway of its source that did not select it, or, for a link the program
\* triggers itself, by a cast of its source that had found it on Wait.
NoSilentWithdrawal ==
    [][\A l \in Links : linkState[l] = "Ready" /\ linkState'[l] # "Ready" =>
          \/ Runs(To[l]) \/ Runs(From[l])
          \/ mPc = "brain_sleep"
          \/ mEvent = CastAnyway(From[l]) /\ l \notin Range(mGroup)
          \/ mEvent = TryCast(From[l]) /\ mPc = "castReset" /\ l \in UNION Calls]_vars

\* What the goroutines and queues amount to: activations, runs and casts under
\* way, counted wherever they are, and requests to sleep.
Count(i) == IF i THEN 1 ELSE 0
Positions(q, S) == {i \in DOMAIN q : q[i] \in S}
CountWorkers(n, pcs) == Cardinality({w \in Workers : wNeuron[w] = n /\ wPc[w] \in pcs})
DueOf(n) ==
    Cardinality(Positions(nQueue, {n}))
      + Count(mPc = "enqueue" /\ mEvent.id = n) + CountWorkers(n, {"activate", "inLinks"})
CastsOf(n) ==
    Cardinality(Positions(bQueue, {TryCast(n), CastAnyway(n)}))
      + Count(mEvent \in {TryCast(n), CastAnyway(n)}) + CountWorkers(n, {"cast"}) + retries[n]
SleepsAsked ==
    Cardinality(Positions(bQueue, {BrainSleep}))
      + Count(mEvent = BrainSleep \/ mPc \in {"end", "sleep"})
      + Cardinality({c \in Clients : cPc[c] = "sleep"})

\* The engine implements Brain: however the goroutines interleave, a neuron is
\* activated only after every link of one of its groups was seen ready in one
\* test, no activation, run or cast is lost, doubled or made up between the
\* queues, and the brain is reset only on a request made after every link was
\* seen idle in one count, or END activated.
Promise == INSTANCE Brain WITH
    Triggered <- UNION Calls,
    Observers <- Clients \cup {"maintainer"},
    ready <- ReadyLinks,
    due <- [n \in Neurons |-> DueOf(n)],
    runs <- [n \in Neurons |-> CountWorkers(n, {"outLinks", "process"})],
    casts <- [n \in Neurons |-> CastsOf(n)],
    sleeps <- SleepsAsked,
    running <- state = "Running",
    tested <- IF mPc = "group" THEN {mEvent.id} ELSE {},
    missing <- IF mPc = "group" THEN mLeft ELSE {},
    unseen <- [o \in Clients \cup {"maintainer"} |->
                  IF o \in Clients THEN IF cPc[o] = "countLinks" THEN cLeft[o] ELSE Links
                  ELSE IF mPc = "countLinks" THEN mLeft ELSE Links]
ImplementsBrain == Promise!Spec

\* Whatever was started drains: no goroutine stays blocked or busy for ever.
Drains == <>[]Quiet

\* Arrival at END puts the brain to sleep: a Ready link to the END neuron is
\* followed by a moment at which the brain sleeps.
EndSleeps ==
    (\E l \in Links : To[l] = EndNeuron /\ linkState[l] = "Ready") ~> (state = "Sleeping")

-----------------------------------------------------------------------------
(* What the documentation promises and the code does not keep: each of these *)
(* is refuted by a run.                                                      *)

\* "As long as any Link or Neuron of Brain is activated, it is considered to be
\* running" (README.md:188): while a processor runs the brain does not say
\* Sleeping. refreshState counts the neurons before the links.
SleepingMeansIdle == state = "Sleeping" => \A w \in Workers : wPc[w] # "process"

\* "Without it, the Brain can still enter a Sleeping state when there are no
\* active Neurons and Links" (README.md:296): once everything has drained and
\* nothing is active, the brain sleeps and Wait can return.
AutoSleep ==
    Quiet /\ ActiveNeurons = {} /\ StandByLinks = {} => state = "Sleeping"

\* "All outward links of the selected CastGroup will be triggered in parallel"
\* (README.md:314): a cast that has begun comes to its end.
CastCompletes == (mPc = "cast") ~> (mPc = "idle")

\* "the trigger group triggered later does not activate the generated Neuron
\* again" (README.md:471): a worker takes up a neuron at most once per Entry.
ActivatedOnce ==
    [][\A w \in Workers : wPc[w] = "idle" /\ wPc'[w] = "activate" =>
          wNeuron'[w] \notin succeeded /\ ~Runs(wNeuron'[w])]_vars

=============================================================================
