-------------------------- MODULE BrainCauseProofs --------------------------
(***************************************************************************)
(* What can go wrong in a BrainLocal, traced to its one cause: which step  *)
(* of which goroutine may leave a complete trigger group to nobody.        *)
(***************************************************************************)
EXTENDS BrainLocalProofs

USE DEF CastPcs

-----------------------------------------------------------------------------
(* Events and goroutines do not vanish.                                     *)

\* The maintainer's control point, told from the event it handles.
LEMMA EventPc ==
  ASSUME MaintainerOK
  PROVE  /\ \A l \in Links : mEvent = LinkReady(l) => mPc = "link_ready"
         /\ \A n \in Neurons : mEvent = TryActivate(n)
               => mPc \in {"try_activate_neuron"} \cup TestPcs
  <1>1. /\ mEvent.action = "link_ready" => mPc = "link_ready"
        /\ mEvent.action = "try_activate_neuron"
              => mPc \in {"try_activate_neuron"} \cup TestPcs
    <2>1. BrainSleep.action = "brain_sleep" /\ NoEvent.action = "none"
      BY DEF BrainSleep, NoEvent
    <2> QED
      BY <2>1 DEF MaintainerOK, EventOK, CastOK, MaintainerPcs, TestPcs
  <1> QED
    BY <1>1 DEF LinkReady, TryActivate

\* An event in the queue stays there until the maintainer takes it up.
LEMMA EventKept ==
  ASSUME TypeOK, [Next]_vars, NEW e, Pending(e), Neurons # {}
  PROVE  Pending(e)' \/ (runBrainMaintainer /\ mEvent' = e /\ mPc' = e.action)
  <1> USE DEF TypeOK, Pending
  <1>1. CASE runBrainMaintainer
    BY <1>1, RangeTail DEF runBrainMaintainer, QueuesOK
  <1>2. ASSUME Maintainer, ~runBrainMaintainer PROVE e \in Range(bQueue')
    <2>1. \/ bQueue' = bQueue
          \/ mPc = "link_ready" /\ publishEvent(TryActivate(To[mEvent.id]))
          \/ mPc = "castSend" /\ publishEvent(LinkReady(mGroup[mIdx - 1]))
          \/ publishEvent(BrainSleep)
      BY <1>2 DEF Maintainer, handleLinkReady, tryActivateNeuron, shouldActivate, testGroup,
        NextGroup, AcceptGroup, publishEnd, enqueueNeuron, neuronCast, castSelected, castWrite,
        castSend, castUnselected, castRest, castReset, NextVisit, SetLinks, countNeurons,
        countLinks, setRunning, publishSleep, forceSleepLinks, forceSleepNeurons, forceSleepState
    <2>2. mPc = "link_ready" => TryActivate(To[mEvent.id]) \in Events
      BY HandledEvent, EventTypes, TopologyAssumption
    <2>3. mPc = "castSend" => LinkReady(mGroup[mIdx - 1]) \in Events
      BY EventTypes DEF MaintainerOK, EventOK, CastOK, ScanOK
    <2> QED
      BY <2>1, <2>2, <2>3, SendRange, EventTypes
  <1>3. CASE \/ \E w \in Workers : Worker(w)
             \/ \E m \in Neurons : RetryCast(m)
             \/ \E c \in Clients : Client(c)
    BY <1>3, OtherEvents
  <1>4. CASE UNCHANGED vars
    BY <1>4 DEF vars
  <1> QED
    BY <1>1, <1>2, <1>3, <1>4 DEF Next
-----------------------------------------------------------------------------
(* A complete trigger group is forgotten only while its neuron is Active.   *)

\* trigLink goroutines exist only during the call of trigLinks.
TrigInCall == \A c \in Clients, l \in Links : cTrig[c][l] # "none" => cPc[c] = "trig"

\* A group becomes complete with a link whose writer still has to send.
LEMMA NewlyComplete ==
  ASSUME TypeOK, [Next]_vars, NEW n \in Neurons, ~Complete(n), Complete(n)'
  PROVE  Attended(n)'
  <1>1. PICK g \in TriggerGroups[n] : g # {} /\ \A l \in g : linkState'[l] = "Ready"
    BY DEF Complete
  <1>2. PICK l \in g : linkState[l] # "Ready"
    BY <1>1 DEF Complete
  <1>3. l \in Links /\ l \in InLinks(n) /\ linkState'[l] = "Ready"
    BY <1>1, GroupsAssumption DEF InLinks
  <1>4. CASE castWrite /\ l = mGroup[mIdx]
    <2>1. mPc' = "castSend" /\ mGroup'[mIdx' - 1] = l
      BY <1>4 DEF castWrite, TypeOK, MaintainerOK, EventOK, CastOK, ScanOK
    <2> QED
      BY <1>3, <2>1 DEF Attended
  <1>5. ASSUME NEW c \in Clients, trigLinkWrite(c, l) PROVE Attended(n)'
    <2>1. cTrig'[c][l] = "send"
      BY <1>3, <1>5 DEF trigLinkWrite, TypeOK, ClientsOK
    <2> QED
      BY <1>3, <2>1 DEF Attended
  <1> QED
    BY <1>2, <1>3, <1>4, <1>5, LinkWriters

\* A send a client owes is made, and only then forgotten.
LEMMA TrigSendKept ==
  ASSUME TypeOK, TrigInCall, [Next]_vars, NEW c \in Clients, NEW l \in Links,
         cTrig[c][l] = "send"
  PROVE  cTrig'[c][l] = "send" \/ Pending(LinkReady(l))'
  <1> USE DEF TypeOK
  <1>1. CASE UNCHANGED clients
    BY <1>1 DEF clients
  <1>2. ASSUME NEW d \in Clients, Client(d) PROVE cTrig'[c][l] = "send" \/ Pending(LinkReady(l))'
    <2>1. ASSUME NEW ls \in Calls, trigLinks(d, ls) PROVE cTrig'[c][l] = "send"
      BY <2>1 DEF trigLinks, ClientsOK, TrigInCall
    <2>2. ASSUME NEW k \in Links, trigLinkSend(d, k)
          PROVE  cTrig'[c][l] = "send" \/ Pending(LinkReady(l))'
      <3>1. LinkReady(k) \in Range(bQueue')
        BY <2>2, EventTypes, SendRange DEF trigLinkSend
      <3>2. k # l \/ d # c => cTrig'[c][l] = cTrig[c][l]
        BY <2>2 DEF trigLinkSend, ClientsOK
      <3> QED
        BY <3>1, <3>2 DEF Pending, LinkReady
    <2>3. ASSUME NEW k \in Links, trigLinkRead(d, k) \/ trigLinkWrite(d, k)
          PROVE  cTrig'[c][l] = "send"
      BY <2>3 DEF trigLinkRead, trigLinkWrite, ClientsOK
    <2>4. CASE ClientStep(d) \/ callWait(d)
      BY <2>4 DEF ClientStep, clientCountNeurons, clientCountLinks, ClientScans, clientSetRunning,
        clientPublishSleep, callWait, waitReturns
    <2> QED
      BY <1>2, <2>1, <2>2, <2>3, <2>4 DEF Client, trigLink
  <1> QED
    BY <1>1, <1>2, Frames DEF Next, vars

\* A LinkReady on its way, or about to be sent, ends in a TryActivate of the
\* link's destination that is followed by refreshState.
LEMMA LinkReadyKept ==
  ASSUME TypeOK, TrigInCall, [Next]_vars, NEW n \in Neurons, NEW l \in InLinks(n),
         \/ Pending(LinkReady(l)) \/ mEvent = LinkReady(l)
         \/ mPc = "castSend" /\ mGroup[mIdx - 1] = l
         \/ \E c \in Clients : cTrig[c][l] = "send"
  PROVE  Attended(n)'
  <1> USE DEF TypeOK
  <1>1. l \in Links /\ To[l] = n
    BY GroupEnds, GroupsAssumption DEF InLinks
  <1>2. CASE Pending(LinkReady(l))
    BY <1>2, EventKept DEF Attended
  <1>3. CASE mEvent = LinkReady(l)
    <2>1. mPc = "link_ready" /\ mEvent.id = l
      BY <1>1, <1>3, EventPc DEF LinkReady
    <2>2. CASE Maintainer
      <3>1. handleLinkReady
        BY <2>1, <2>2 DEF Maintainer, runBrainMaintainer, tryActivateNeuron, shouldActivate,
          testGroup, NextGroup, AcceptGroup, publishEnd, enqueueNeuron, neuronCast, castSelected,
          castWrite, castSend, castUnselected, castRest, castReset, NextVisit, SetLinks,
          countNeurons, countLinks, setRunning, publishSleep, forceSleepLinks, forceSleepNeurons,
          forceSleepState
      <3>2. TryActivate(n) \in Range(bQueue') /\ mPc' = "countNeurons"
        BY <1>1, <2>1, <3>1, EventTypes, SendRange DEF handleLinkReady, HandlerDone
      <3> QED
        BY <3>2 DEF Attended, Pending, TryActivate
    <2>3. CASE UNCHANGED maintainer
      BY <1>3, <2>3 DEF Attended, maintainer, mLoop, LinkReady
    <2> QED
      BY <2>2, <2>3, Frames DEF Next, vars
  <1>4. CASE mPc = "castSend" /\ mGroup[mIdx - 1] = l
    <2>1. CASE Maintainer
      <3>1. castSend
        BY <1>4, <2>1 DEF Maintainer, runBrainMaintainer, handleLinkReady, tryActivateNeuron,
          shouldActivate, testGroup, NextGroup, AcceptGroup, publishEnd, enqueueNeuron,
          neuronCast, castSelected, castWrite, castUnselected, castRest, castReset, NextVisit,
          SetLinks, countNeurons, countLinks, setRunning, publishSleep, forceSleepLinks,
          forceSleepNeurons, forceSleepState
      <3>2. LinkReady(l) \in Range(bQueue')
        BY <1>1, <1>4, <3>1, EventTypes, SendRange DEF castSend
      <3> QED
        BY <3>2 DEF Attended, Pending, LinkReady
    <2>2. CASE UNCHANGED maintainer
      BY <1>4, <2>2 DEF Attended, maintainer, mLoop
    <2> QED
      BY <2>1, <2>2, Frames DEF Next, vars
  <1>5. CASE \E c \in Clients : cTrig[c][l] = "send"
    BY <1>1, <1>5, TrigSendKept DEF Attended
  <1> QED
    BY <1>2, <1>3, <1>4, <1>5

\* A LinkReady event for the link is on its way, or a client is about to send it.
Coming(l) == Pending(LinkReady(l)) \/ \E c \in Clients : cTrig[c][l] = "send"

\* What the maintainer has passed over in a scan and is Ready now was written by
\* a client since, and is announced: a group that failed its test has such a link,
\* and so has every link that was counted as idle.
ScanInv ==
    /\ mPc = "group" => \A g \in TriggerGroups[mEvent.id] \ {{}} :
          g \in mTodo \/ mLeft \subseteq g \/ \E l \in g : linkState[l] = "Ready" => Coming(l)
    /\ mPc = "countLinks" => \A l \in Links \ mLeft : linkState[l] = "Ready" => Coming(l)

\* While the maintainer neither casts nor takes up an event, a link that becomes
\* Ready is announced, and stays so.
LEMMA ComingKept ==
  ASSUME TypeOK, TrigInCall, [Next]_vars, mPc \in {"group", "countLinks"}, NEW l \in Links,
         linkState[l] = "Ready" => Coming(l), linkState'[l] = "Ready"
  PROVE  Coming(l)'
  <1>1. ~runBrainMaintainer /\ ~castWrite
    BY DEF runBrainMaintainer, castWrite
  <1>2. CASE linkState[l] = "Ready"
    <2>1. Neurons # {}
      BY TopologyAssumption
    <2> QED
      BY <1>1, <1>2, <2>1, EventKept, TrigSendKept DEF Coming
  <1>3. ASSUME NEW c \in Clients, trigLinkWrite(c, l) PROVE Coming(l)'
    BY <1>3 DEF trigLinkWrite, TypeOK, ClientsOK, Coming
  <1> QED
    BY <1>1, <1>2, <1>3, LinkWriters

\* The scans keep what they have passed over announced.
LEMMA ScanStep == TypeOK /\ TrigInCall /\ ScanInv /\ [Next]_vars => ScanInv'
  <1> SUFFICES ASSUME TypeOK, TrigInCall, ScanInv, [Next]_vars PROVE ScanInv'
    OBVIOUS
  <1> USE DEF TypeOK
  <1>1. ASSUME mPc' = "group", NEW g \in TriggerGroups[mEvent'.id] \ {{}}
        PROVE  \/ g \in mTodo' \/ mLeft' \subseteq g
               \/ \E l \in g : linkState'[l] = "Ready" => Coming(l)'
    <2>1. CASE shouldActivate
      BY <1>1, <2>1 DEF shouldActivate, NextGroup, HandlerDone
    <2>2. CASE mPc = "group" /\ mEvent' = mEvent
      <3>1. g \subseteq Links
        BY <1>1, <2>2, HandledEvent, GroupsAssumption DEF TestPcs
      <3>2. CASE \E l \in g : linkState[l] = "Ready" => Coming(l)
        BY <2>2, <3>1, <3>2, ComingKept
      <3>3. CASE ~\E l \in g : linkState[l] = "Ready" => Coming(l)
        <4>1. g \in mTodo \/ mLeft \subseteq g
          BY <1>1, <2>2, <3>3 DEF ScanInv
        <4>2. g \subseteq ReadyLinks
          BY <3>1, <3>3 DEF ReadyLinks
        <4>3. CASE testGroup
          BY <1>1, <4>1, <4>2, <4>3 DEF testGroup, NextGroup, HandlerDone, AcceptGroup
        <4>4. CASE UNCHANGED maintainer
          BY <4>1, <4>4 DEF maintainer, mLoop
        <4> QED
          BY <1>1, <2>2, <4>3, <4>4, PcStep DEF shouldActivate
      <3> QED
        BY <3>2, <3>3
    <2>3. CASE testGroup
      BY <1>1, <2>2, <2>3 DEF testGroup, NextGroup, HandlerDone, AcceptGroup
    <2>4. CASE mPc = "group" /\ UNCHANGED maintainer
      BY <2>2, <2>4 DEF maintainer
    <2> QED
      BY <1>1, <2>1, <2>3, <2>4, PcStep
  <1>2. ASSUME mPc' = "countLinks", NEW l \in Links, l \notin mLeft', linkState'[l] = "Ready"
        PROVE  Coming(l)'
    <2>1. CASE mPc # "countLinks"
      <3>1. CASE runBrainMaintainer
        <4>1. Head(bQueue) \in Events
          BY <3>1, RangeTail DEF runBrainMaintainer, QueuesOK
        <4> QED
          BY <1>2, <3>1, <4>1, EventFields DEF runBrainMaintainer
      <3>2. CASE countNeurons
        BY <1>2, <3>2 DEF countNeurons
      <3>3. ASSUME Maintainer, ~runBrainMaintainer, ~countNeurons PROVE FALSE
        BY <1>2, <2>1, <3>3 DEF Maintainer, handleLinkReady, tryActivateNeuron, shouldActivate,
          testGroup, NextGroup, AcceptGroup, publishEnd, enqueueNeuron, neuronCast, castSelected,
          castWrite, castSend, castUnselected, castRest, castReset, NextVisit, countLinks,
          setRunning, publishSleep, forceSleepLinks, forceSleepNeurons, forceSleepState, HandlerDone
      <3> QED
        BY <1>2, <2>1, <3>1, <3>2, <3>3, Frames DEF Next, vars, maintainer
    <2>2. CASE mPc = "countLinks"
      <3>1. l \in mLeft => linkState[l] # "Ready"
        <4>1. CASE Maintainer
          <5>1. countLinks
            BY <2>2, <4>1 DEF Maintainer, runBrainMaintainer, handleLinkReady, tryActivateNeuron,
              shouldActivate, testGroup, publishEnd, enqueueNeuron, neuronCast, castSelected,
              castWrite, castSend, castUnselected, castRest, castReset, countNeurons, setRunning,
              publishSleep, forceSleepLinks, forceSleepNeurons, forceSleepState
          <5> QED
            BY <1>2, <5>1 DEF countLinks, StandByLinks
        <4>2. CASE UNCHANGED maintainer
          BY <1>2, <4>2 DEF maintainer, mLoop
        <4> QED
          BY <4>1, <4>2, Frames DEF Next, vars
      <3>2. linkState[l] = "Ready" => Coming(l)
        BY <2>2, <3>1 DEF ScanInv
      <3> QED
        BY <1>2, <2>2, <3>2, ComingKept
    <2> QED
      BY <2>1, <2>2
  <1> QED
    BY <1>1, <1>2 DEF ScanInv

\* A TryActivate that will find the brain Running hands its neuron on, unless
\* the neuron is Active; where a scan has missed links of the complete group,
\* their LinkReady is on its way.
LEMMA TryActivateKept ==
  ASSUME TypeOK, TrigInCall, ScanInv, [Next]_vars, NEW n \in Neurons, Complete(n), Complete(n)',
         Pending(TryActivate(n)) \/ mEvent = TryActivate(n),
         \/ state = "Running" /\ mPc \notin {"sleepNeurons", "setSleeping"}
         \/ mPc \in {"countNeurons", "countLinks", "setRunning"},
         ~(tryActivateNeuron /\ mEvent.id = n /\ neuronState[n] = "Active")
  PROVE  Attended(n)'
  <1> USE DEF TypeOK
  <1> DEFINE Heard == \E l \in InLinks(n) : Coming(l)
             Awake == \/ state' = "Running" /\ mPc' \notin {"sleepNeurons", "setSleeping"}
                      \/ mPc' \in {"countNeurons", "countLinks", "setRunning"}
  <1>1. PICK g \in TriggerGroups[n] : g # {} /\ g \subseteq InLinks(n) /\ g \subseteq Links
                                        /\ \A l \in g : linkState[l] = "Ready"
    BY GroupsAssumption DEF Complete, InLinks
  <1>2. ~forceSleepLinks
    BY GroupsAssumption DEF forceSleepLinks, Complete
  <1>3. Heard => Attended(n)'
    BY LinkReadyKept DEF Coming
  <1>4. Awake \/ Heard
    <2>1. CASE Maintainer
      <3>1. CASE runBrainMaintainer
        <4>1. Head(bQueue).action \notin {"sleepNeurons", "setSleeping"}
          BY <3>1, RangeTail, EventFields DEF runBrainMaintainer, QueuesOK
        <4> QED
          BY <3>1, <4>1 DEF runBrainMaintainer, status
      <3>2. CASE countLinks
        <4>1. CASE mPc' = "sleep"
          <5>1. mPc = "countLinks" /\ mLeft \cap StandByLinks = {}
            BY <3>2, <4>1 DEF countLinks
          <5>2. \A l \in g : l \notin mLeft
            BY <1>1, <5>1 DEF StandByLinks
          <5> QED
            BY <1>1, <5>1, <5>2 DEF ScanInv
        <4> QED
          BY <3>2, <4>1 DEF countLinks
      <3>3. CASE setRunning
        BY <3>3 DEF setRunning
      <3>4. CASE ~runBrainMaintainer /\ ~countLinks /\ ~setRunning
        BY <1>2, <2>1, <3>4 DEF Maintainer, handleLinkReady, tryActivateNeuron, shouldActivate,
          testGroup, NextGroup, AcceptGroup, publishEnd, enqueueNeuron, neuronCast, castSelected,
          castWrite, castSend, castUnselected, castRest, castReset, NextVisit, countNeurons,
          publishSleep, forceSleepNeurons, forceSleepState, HandlerDone, status
      <3> QED
        BY <3>1, <3>2, <3>3, <3>4
    <2>2. ASSUME NEW w \in Workers, Worker(w) PROVE UNCHANGED << state, mPc >>
      BY <2>2 DEF Worker, runNeuronWorker, setActivated, setInLinksInit, setOutLinksWait,
        ContinueCast, processOk, processError, publishTryCast, status, maintainer, mLoop
    <2>3. ASSUME NEW c \in Clients, Client(c)
          PROVE  mPc' = mPc /\ (state' = state \/ state' = "Running")
      BY <2>3 DEF Client, ClientStep, trigLinks, trigLink, trigLinkRead, trigLinkWrite,
        trigLinkSend, clientCountNeurons, clientCountLinks, ClientScans, clientSetRunning,
        clientPublishSleep, callWait, waitReturns, status, maintainer, mLoop
    <2>4. ASSUME NEW m \in Neurons, RetryCast(m) PROVE UNCHANGED << state, mPc >>
      BY <2>4 DEF RetryCast, status, maintainer, mLoop
    <2> HIDE DEF Heard
    <2> QED
      BY <2>1, <2>2, <2>3, <2>4 DEF Next, vars, status, maintainer, mLoop
  <1> HIDE DEF Heard
  <1>5. CASE Pending(TryActivate(n)) /\ Awake
    BY <1>5, EventKept DEF Attended
  <1>6. CASE mEvent = TryActivate(n) /\ Awake
    <2>1. mPc \in {"try_activate_neuron"} \cup TestPcs /\ mEvent.id = n
      BY <1>6, EventPc DEF TryActivate
    <2>2. CASE mEvent' = mEvent
      BY <1>6, <2>2 DEF Attended, TryActivate
    <2>3. CASE Maintainer /\ mEvent' # mEvent
      <3>1. publishEnd \/ enqueueNeuron \/ testGroup \/ shouldActivate
        BY <2>1, <2>3 DEF Maintainer, TestPcs, runBrainMaintainer, handleLinkReady,
          tryActivateNeuron, neuronCast, castSelected, castWrite, castSend, castUnselected,
          castRest, castReset, countNeurons, countLinks, setRunning, publishSleep,
          forceSleepLinks, forceSleepNeurons, forceSleepState
      <3>2. CASE publishEnd
        BY <3>2, EventTypes, SendRange DEF publishEnd, Attended, Pending, BrainSleep
      <3>3. CASE enqueueNeuron
        <4>1. n \in Neurons \ {EndNeuron}
          BY <2>1, <3>3 DEF enqueueNeuron, MaintainerOK, EventOK
        <4>2. n \in Range(nQueue')
          BY <2>1, <3>3, <4>1, RangeAppend
            DEF enqueueNeuron, publishEventActivateNeuron, QueuesOK
        <4> QED
          BY <4>2 DEF Attended, Queued
      <3>4. CASE shouldActivate
        BY <1>1, <2>1, <2>3, <3>4 DEF shouldActivate, NextGroup
      <3>5. CASE testGroup
        <4>1. mTodo = {} /\ ~(mLeft \subseteq ReadyLinks) /\ mPc = "group"
          BY <2>3, <3>5 DEF testGroup, NextGroup, AcceptGroup
        <4>2. ~(mLeft \subseteq g)
          BY <1>1, <4>1 DEF ReadyLinks
        <4>3. Heard
          BY <1>1, <2>1, <4>1, <4>2 DEF ScanInv, Heard
        <4> QED
          BY <1>3, <4>3
      <3> QED
        BY <3>1, <3>2, <3>3, <3>4, <3>5
    <2> QED
      BY <2>2, <2>3, Frames DEF Next, vars, maintainer, mLoop
  <1> QED
    BY <1>3, <1>4, <1>5, <1>6

\* An activation on its way takes the neuron's links, and nothing else ends it.
LEMMA ActivationKept ==
  ASSUME TypeOK, [Next]_vars, NEW n \in Neurons, Complete(n)',
         \/ Queued(n)
         \/ \E w \in Workers : wNeuron[w] = n /\ wPc[w] \in {"activate", "inLinks"}
  PROVE  Attended(n)'
  <1> USE DEF TypeOK
  <1>1. CASE Queued(n)
    <2>1. ASSUME NEW w \in Workers, runNeuronWorker(w)
          PROVE  Queued(n)' \/ (wNeuron'[w] = n /\ wPc'[w] = "activate")
      BY <1>1, <2>1, RangeTail DEF runNeuronWorker, Queued, QueuesOK, WorkersOK
    <2>2. CASE enqueueNeuron
      <3>1. mEvent.id \in Neurons \ {EndNeuron}
        BY <2>2, HandledEvent DEF enqueueNeuron, MaintainerOK, EventOK, TestPcs
      <3> QED
        BY <1>1, <2>2, <3>1, RangeAppend
          DEF enqueueNeuron, publishEventActivateNeuron, QueuesOK, Queued, Attended
    <2>3. CASE nQueue' = nQueue
      BY <1>1, <2>3 DEF Queued, Attended
    <2>4. CASE Maintainer
      BY <2>2, <2>3, <2>4 DEF Attended, Maintainer, runBrainMaintainer, handleLinkReady,
        tryActivateNeuron, shouldActivate, testGroup, NextGroup, AcceptGroup, publishEnd,
        neuronCast, castSelected, castWrite, castSend, castUnselected, castRest, castReset,
        NextVisit, SetLinks, countNeurons, countLinks, setRunning, publishSleep, forceSleepLinks,
        forceSleepNeurons, forceSleepState
    <2>5. ASSUME NEW w \in Workers, Worker(w), ~runNeuronWorker(w) PROVE nQueue' = nQueue
      BY <2>5 DEF Worker, setActivated, setInLinksInit, setOutLinksWait, ContinueCast, processOk,
        processError, publishTryCast
    <2> QED
      BY <2>1, <2>3, <2>4, <2>5, Frames DEF Next, vars, Attended
  <1>2. ASSUME NEW w \in Workers, wNeuron[w] = n, wPc[w] \in {"activate", "inLinks"}
        PROVE  Attended(n)'
    <2>1. ASSUME NEW v \in Workers, Worker(v), v # w
          PROVE  wNeuron'[w] = wNeuron[w] /\ wPc'[w] = wPc[w]
      BY <2>1 DEF Worker, runNeuronWorker, setActivated, setInLinksInit, setOutLinksWait,
        ContinueCast, processOk, processError, publishTryCast, workers, WorkersOK
    <2>2. ASSUME Worker(w)
          PROVE  wNeuron'[w] = n /\ wPc'[w] = "inLinks"
      <3>1. ~setInLinksInit(w)
        BY <1>2, GroupsAssumption DEF setInLinksInit, Complete, InLinks
      <3> QED
        BY <1>2, <2>2, <3>1 DEF Worker, runNeuronWorker, setActivated, setOutLinksWait,
          ContinueCast, processOk, processError, publishTryCast, workers, WorkersOK
    <2>3. wNeuron'[w] = n /\ wPc'[w] \in {"activate", "inLinks"}
      BY <1>2, <2>1, <2>2, Frames DEF Next, vars, workers
    <2> QED
      BY <2>3 DEF Attended
  <1> QED
    BY <1>1, <1>2
\* A reset of all links that is asked for is carried out.
LEMMA ResetKept ==
  ASSUME TypeOK, [Next]_vars, NEW n \in Neurons, Complete(n)',
         Pending(BrainSleep) \/ mPc = "brain_sleep"
  PROVE  Attended(n)'
  <1> USE DEF TypeOK
  <1>1. CASE Pending(BrainSleep)
    <2>1. BrainSleep.action = "brain_sleep"
      BY DEF BrainSleep
    <2> QED
      BY <1>1, <2>1, EventKept DEF Attended
  <1>2. CASE mPc = "brain_sleep"
    <2>1. ~forceSleepLinks
      BY GroupsAssumption DEF forceSleepLinks, Complete
    <2>2. ~Maintainer
      BY <1>2, <2>1 DEF Maintainer, runBrainMaintainer, handleLinkReady, tryActivateNeuron,
        shouldActivate, testGroup, NextGroup, AcceptGroup, publishEnd, enqueueNeuron, neuronCast,
        castSelected, castWrite, castSend, castUnselected, castRest, castReset, NextVisit,
        SetLinks, countNeurons, countLinks, setRunning, publishSleep, forceSleepNeurons,
        forceSleepState
    <2>3. mPc' = mPc
      BY <2>2, Frames DEF Next, vars, maintainer, mLoop
    <2> QED
      BY <1>2, <2>3 DEF Attended
  <1> QED
    BY <1>1, <1>2

\* No step strands a neuron but the one that finds it Active.
LEMMA StrandedStep ==
  ASSUME TypeOK, TrigInCall, ScanInv, [Next]_vars, NEW n \in Neurons, ~Stranded(n), Stranded(n)'
  PROVE  tryActivateNeuron /\ mEvent.id = n /\ neuronState[n] = "Active"
  <1>1. Complete(n)' /\ ~Attended(n)'
    BY DEF Stranded
  <1>2. Complete(n) /\ Attended(n)
    BY <1>1, NewlyComplete DEF Stranded
  <1> QED
    BY <1>1, <1>2, LinkReadyKept, TryActivateKept, ActivationKept, ResetKept DEF Attended

\* The goroutines of trigLinks end before trigLinks returns.
LEMMA TrigInCallAlways == Spec => []TrigInCall
  <1>1. Init => TrigInCall
    BY DEF Init, TrigInCall
  <1>2. TypeOK /\ TrigInCall /\ [Next]_vars => TrigInCall'
    BY TrigStep DEF TrigInCall
  <1> QED
    BY <1>1, <1>2, TypeCorrect, PTL DEF Spec

\* What a scan has passed over is announced.
LEMMA ScanAlways == Spec => []ScanInv
  <1>1. Init => ScanInv
    BY DEF Init, ScanInv
  <1> QED
    BY <1>1, ScanStep, TypeCorrect, TrigInCallAlways, PTL DEF Spec

\* A complete trigger group is forgotten only by tryActivateNeuron, and only
\* while its neuron is Active; the maintainer's scans read link by link and
\* lose none.
THEOREM OnlyActiveNeuronStrands == Spec => StrandedOnlyWhileActive
  <1> DEFINE Dropped == \A n \in Neurons : ~Stranded(n) /\ Stranded(n)' =>
                           tryActivateNeuron /\ mEvent.id = n /\ neuronState[n] = "Active"
  <1>1. TypeOK /\ TrigInCall /\ ScanInv /\ [Next]_vars => Dropped
    BY StrandedStep
  <1> HIDE DEF Dropped
  <1>2. Spec => [][Dropped]_vars
    BY <1>1, TypeCorrect, TrigInCallAlways, ScanAlways, PTL DEF Spec
  <1> QED
    BY <1>2 DEF StrandedOnlyWhileActive, Dropped

-----------------------------------------------------------------------------
(* What is left when everything has drained.                                *)

\* tryActivateNeuron returns early for a neuron that has a complete group.
DropsTrigger ==
    /\ tryActivateNeuron /\ neuronState[mEvent.id] = "Active"
    /\ Complete(mEvent.id)

NoneStranded == \A n \in Neurons : ~Stranded(n)

\* Nobody attends to anything when everything has drained.
LEMMA QuietUnattended ==
  ASSUME TypeOK, TrigInCall, Quiet, NEW n \in Neurons
  PROVE  ~Attended(n)
  <1>1. mEvent = NoEvent /\ bQueue = << >> /\ nQueue = << >> /\ mPc = "idle"
    BY DEF Quiet, TypeOK, MaintainerOK, EventOK, CastOK, ScanOK
  <1>2. \A e : ~Pending(e)
    BY <1>1 DEF Pending, Range
  <1>3. ~Queued(n)
    BY <1>1 DEF Queued, Range
  <1>4. \A l \in InLinks(n) : l \in Links
    BY GroupsAssumption DEF InLinks
  <1>5. \A c \in Clients, l \in Links : cTrig[c][l] # "send"
    BY DEF TrigInCall, Quiet
  <1>6. \A l : NoEvent # LinkReady(l)
    BY DEF NoEvent, LinkReady
  <1> QED
    BY <1>1, <1>2, <1>3, <1>4, <1>5, <1>6 DEF Attended, Quiet, NoEvent, TryActivate

\* If tryActivateNeuron never meets an Active neuron with a complete group, then
\* no neuron is left with one when everything has drained.
THEOREM DroppedOrActivated == Spec /\ [][~DropsTrigger]_vars => []NoStrandedTrigger
  <1>1. Init => NoneStranded
    BY GroupsAssumption DEF Init, NoneStranded, Stranded, Complete
  <1>2. TypeOK /\ TrigInCall /\ ScanInv /\ NoneStranded /\ [Next]_vars /\ [~DropsTrigger]_vars
          => NoneStranded'
    <2> SUFFICES ASSUME TypeOK, TrigInCall, ScanInv, NoneStranded, [Next]_vars, [~DropsTrigger]_vars,
                        NEW n \in Neurons, Stranded(n)'
                 PROVE  FALSE
      BY DEF NoneStranded
    <2>1. tryActivateNeuron /\ mEvent.id = n /\ neuronState[n] = "Active"
      BY StrandedStep DEF NoneStranded
    <2>2. Complete(n)
      BY <2>1 DEF Stranded, Complete, tryActivateNeuron, status
    <2>3. mPc' # mPc
      BY <2>1 DEF tryActivateNeuron, HandlerDone
    <2> QED
      BY <2>1, <2>2, <2>3 DEF DropsTrigger, vars, maintainer, mLoop
  <1>3. TypeOK /\ TrigInCall /\ NoneStranded => NoStrandedTrigger
    BY QuietUnattended DEF NoneStranded, Stranded, NoStrandedTrigger
  <1> QED
    BY <1>1, <1>2, <1>3, TypeCorrect, TrigInCallAlways, ScanAlways, PTL DEF Spec
-----------------------------------------------------------------------------
(* A brain is left Running for ever only by a late write or a failure.      *)

\* The maintainer's refreshState has found something busy and is about to write
\* Running: a link still is, or a neuron still runs or has announced its end, or
\* some processor has failed.
FreshCount ==
    mPc = "setRunning" => \/ StandByLinks # {} \/ bQueue # << >> \/ failed # {}
                          \/ \E w \in Workers : wPc[w] # "idle"

\* A worker that becomes idle has sent an event or met an error.
LEMMA WorkerEnds ==
  ASSUME TypeOK, NEW w \in Workers, Worker(w)
  PROVE  \/ wPc'[w] # "idle"
         \/ bQueue' # << >>
         \/ processError(w)
  <1> USE DEF TypeOK
  <1>1. CASE publishTryCast(w)
    <2>1. TryCast(wNeuron[w]) \in Events
      BY <1>1, EventTypes DEF publishTryCast, WorkersOK
    <2> QED
      BY <1>1, <2>1, SendRange DEF publishTryCast
  <1>2. CASE ~publishTryCast(w) /\ ~processError(w)
    BY <1>2 DEF Worker, runNeuronWorker, setActivated, setInLinksInit, setOutLinksWait,
      ContinueCast, processOk, workers, WorkersOK
  <1> QED
    BY <1>1, <1>2

\* Only the maintainer takes events out of the queue.
LEMMA QueueKept ==
  ASSUME TypeOK, [Next]_vars, ~Maintainer, bQueue # << >>
  PROVE  bQueue' # << >>
  <1> USE DEF TypeOK
  <1>1. ASSUME NEW e, publishEvent(e) PROVE bQueue' # << >>
    <2>1. bQueue' = Append(bQueue, e) /\ bQueue \in Seq(Events)
      BY <1>1 DEF publishEvent, QueuesOK
    <2> QED
      BY <2>1
  <1>2. ASSUME NEW w \in Workers, Worker(w) PROVE bQueue' # << >>
    BY <1>1, <1>2 DEF Worker, runNeuronWorker, setActivated, setInLinksInit, setOutLinksWait,
      ContinueCast, processOk, processError, publishTryCast
  <1>3. ASSUME NEW n \in Neurons, RetryCast(n) PROVE bQueue' # << >>
    BY <1>1, <1>3 DEF RetryCast
  <1>4. ASSUME NEW c \in Clients, Client(c) PROVE bQueue' # << >>
    BY <1>1, <1>4 DEF Client, ClientStep, trigLinks, trigLink, trigLinkRead, trigLinkWrite,
      trigLinkSend, clientCountNeurons, clientCountLinks, ClientScans, clientSetRunning,
      clientPublishSleep, callWait, waitReturns
  <1> QED
    BY <1>2, <1>3, <1>4 DEF Next, vars

\* The count stays fresh until the maintainer uses it.
LEMMA FreshStep == TypeOK /\ ActiveHasWorker /\ FreshCount /\ [Next]_vars => FreshCount'
  <1> SUFFICES ASSUME TypeOK, ActiveHasWorker, FreshCount, [Next]_vars, mPc' = "setRunning"
               PROVE  \/ StandByLinks' # {} \/ bQueue' # << >> \/ failed' # {}
                      \/ \E w \in Workers : wPc'[w] # "idle"
    BY DEF FreshCount
  <1> USE DEF TypeOK
  <1>1. CASE Maintainer
    <2>1. CASE runBrainMaintainer
      <3>1. Head(bQueue) \in Events
        BY <2>1, RangeTail DEF runBrainMaintainer, QueuesOK
      <3> QED
        BY <2>1, <3>1, EventFields DEF runBrainMaintainer
    <2>2. CASE countNeurons
      BY <2>2 DEF countNeurons, ActiveNeurons, ActiveHasWorker, workers
    <2>3. CASE countLinks
      BY <2>3 DEF countLinks, StandByLinks, status
    <2>4. ASSUME ~runBrainMaintainer, ~countNeurons, ~countLinks PROVE FALSE
      BY <1>1, <2>4 DEF Maintainer, handleLinkReady, tryActivateNeuron, shouldActivate, testGroup,
        NextGroup, AcceptGroup, publishEnd, enqueueNeuron, neuronCast, castSelected, castWrite,
        castSend, castUnselected, castRest, castReset, NextVisit, setRunning, publishSleep,
        forceSleepLinks, forceSleepNeurons, forceSleepState, HandlerDone
    <2> QED
      BY <2>1, <2>2, <2>3, <2>4
  <1>2. ASSUME ~Maintainer PROVE mPc = "setRunning"
    BY <1>2, Frames DEF Next, vars, maintainer, mLoop
  <1>3. ASSUME NEW w \in Workers, Worker(w), ~Maintainer
        PROVE  \/ bQueue' # << >> \/ failed' # {} \/ \E v \in Workers : wPc'[v] # "idle"
    BY <1>3, WorkerEnds DEF processError
  <1>4. ASSUME UNCHANGED << workers, failed >>, ~Maintainer, StandByLinks \subseteq StandByLinks'
        PROVE  \/ StandByLinks' # {} \/ bQueue' # << >> \/ failed' # {}
               \/ \E v \in Workers : wPc'[v] # "idle"
    BY <1>2, <1>4, QueueKept DEF FreshCount, workers
  <1>5. ASSUME NEW n \in Neurons, RetryCast(n)
        PROVE  UNCHANGED << workers, failed >> /\ StandByLinks \subseteq StandByLinks'
    BY <1>5 DEF RetryCast, StandByLinks, status
  <1>6. ASSUME NEW c \in Clients, Client(c)
        PROVE  UNCHANGED << workers, failed >> /\ StandByLinks \subseteq StandByLinks'
    <2>1. ASSUME NEW l \in Links, trigLinkWrite(c, l)
          PROVE  UNCHANGED << workers, failed >> /\ StandByLinks \subseteq StandByLinks'
      BY <2>1 DEF trigLinkWrite, StandByLinks, StatusOK, counts
    <2>2. CASE \A l \in Links : ~trigLinkWrite(c, l)
      <3>1. UNCHANGED << workers, failed, linkState >>
        BY <1>6, <2>2 DEF Client, ClientStep, trigLinks, trigLink, trigLinkRead, trigLinkSend,
          clientCountNeurons, clientCountLinks, ClientScans, clientSetRunning, clientPublishSleep,
          callWait, waitReturns, counts, status
      <3> QED
        BY <3>1 DEF StandByLinks
    <2> QED
      BY <2>1, <2>2
  <1>7. CASE UNCHANGED vars
    BY <1>7 DEF vars, status, counts, workers, maintainer, FreshCount, StandByLinks
  <1>8. CASE Next /\ ~Maintainer
    BY <1>3, <1>4, <1>5, <1>6, <1>8 DEF Next
  <1> QED
    BY <1>1, <1>7, <1>8

\* A step that forsakes the brain is one of the three.
LEMMA ForsakenStep ==
  ASSUME TypeOK, FreshCount, [Next]_vars, ~Forsaken, Forsaken'
  PROVE  \/ \E c \in Clients : clientSetRunning(c)
         \/ \E w \in Workers : processError(w)
         \/ setRunning /\ failed # {}
  <1> USE DEF TypeOK
  <1>0. /\ state' = "Running" /\ ActiveNeurons' = {} /\ StandByLinks' = {}
        /\ bQueue' = << >> /\ mPc' = "idle" /\ \A w \in Workers : wPc'[w] = "idle"
    BY DEF Forsaken
  <1>1. CASE Maintainer
    <2>1. CASE runBrainMaintainer
      <3>1. Head(bQueue).action # "idle"
        BY <2>1, RangeTail, EventFields DEF runBrainMaintainer, QueuesOK
      <3> QED
        BY <1>0, <2>1, <3>1 DEF runBrainMaintainer
    <2>2. CASE publishSleep
      BY <1>0, <2>2, EventTypes, SendRange DEF publishSleep
    <2>3. CASE setRunning
      <3>1. mPc = "setRunning" /\ StandByLinks = {} /\ bQueue = << >>
        BY <1>0, <2>3 DEF setRunning, StandByLinks
      <3>2. \A w \in Workers : wPc[w] = "idle"
        BY <1>0, <2>3 DEF setRunning, workers
      <3> QED
        BY <2>3, <3>1, <3>2 DEF FreshCount
    <2>4. CASE forceSleepState
      BY <1>0, <2>4 DEF forceSleepState
    <2>5. ASSUME ~runBrainMaintainer, ~publishSleep, ~setRunning, ~forceSleepState
          PROVE  mPc' # "idle"
      BY <1>1, <2>5 DEF Maintainer, handleLinkReady, tryActivateNeuron, shouldActivate, testGroup,
        NextGroup, AcceptGroup, publishEnd, enqueueNeuron, neuronCast, castSelected, castWrite,
        castSend, castUnselected, castRest, castReset, NextVisit, SetLinks, countNeurons,
        countLinks, forceSleepLinks, forceSleepNeurons, HandlerDone
    <2> QED
      BY <1>0, <2>1, <2>2, <2>3, <2>4, <2>5
  <1>2. ASSUME NEW w \in Workers, Worker(w) PROVE processError(w)
    BY <1>0, <1>2, WorkerEnds
  <1>3. ASSUME NEW n \in Neurons, RetryCast(n) PROVE FALSE
    BY <1>0, <1>3, EventTypes, SendRange DEF RetryCast
  <1>4. ASSUME NEW c \in Clients, Client(c), ~clientSetRunning(c) PROVE FALSE
    <2>1. ASSUME NEW l \in Links, trigLinkWrite(c, l) PROVE FALSE
      <3>1. linkState'[l] = "Ready"
        BY <2>1 DEF trigLinkWrite, StatusOK
      <3> QED
        BY <1>0, <3>1 DEF StandByLinks
    <2>2. ASSUME NEW l \in Links, trigLinkSend(c, l) PROVE FALSE
      BY <1>0, <2>2, EventTypes, SendRange DEF trigLinkSend
    <2>3. ~clientPublishSleep(c)
      BY <1>0, EventTypes, SendRange DEF clientPublishSleep
    <2>4. UNCHANGED << status, bQueue, mPc, wPc >>
      BY <1>4, <2>1, <2>2, <2>3 DEF Client, ClientStep, trigLinks, trigLink, trigLinkRead,
        clientCountNeurons, clientCountLinks, ClientScans, callWait, waitReturns, maintainer,
        mLoop, workers
    <2> QED
      BY <1>0, <2>4 DEF Forsaken, status, ActiveNeurons, StandByLinks
  <1>5. CASE UNCHANGED vars
    BY <1>0, <1>5 DEF Forsaken, vars, status, maintainer, mLoop, workers, ActiveNeurons,
      StandByLinks
  <1> QED
    BY <1>1, <1>2, <1>3, <1>4, <1>5 DEF Next

\* Every count of refreshState is fresh when it is used.
LEMMA FreshAlways == Spec => []FreshCount
  <1>1. Init => FreshCount
    BY DEF Init, FreshCount
  <1> QED
    BY <1>1, FreshStep, TypeCorrect, ActiveNeuronHasWorker, PTL DEF Spec

\* A brain stays Running with nothing left to do only after a client's late
\* write or the failure of a processor.
THEOREM OnlyLateWriteForsakes == Spec => ForsakenOnlyByLateWrite
  <1> DEFINE Cause == ~Forsaken /\ Forsaken' =>
                         \/ \E c \in Clients : clientSetRunning(c)
                         \/ \E w \in Workers : processError(w)
                         \/ setRunning /\ failed # {}
  <1>1. TypeOK /\ FreshCount /\ [Next]_vars => Cause
    BY ForsakenStep
  <1> HIDE DEF Cause
  <1>2. Spec => [][Cause]_vars
    BY <1>1, TypeCorrect, FreshAlways, PTL DEF Spec
  <1> QED
    BY <1>2 DEF ForsakenOnlyByLateWrite, Cause

\* A client's refreshState writes Running over a brain that is still busy.
PromptWrite ==
    \A c \in Clients : clientSetRunning(c) => ActiveNeurons # {} \/ StandByLinks # {}

\* Where no processor fails and no client writes Running after the brain has
\* become idle, a brain that has drained with nothing busy sleeps: Wait returns.
THEOREM SleepsUnlessLateWrite ==
    Spec /\ [](failed = {}) /\ [][PromptWrite]_vars => []AutoSleep
  <1> DEFINE NoFailure == failed = {}
             Kept == ~Forsaken
  <1>1. Init => Kept
    BY DEF Init, Forsaken
  <1>2. TypeOK /\ FreshCount /\ NoFailure /\ NoFailure' /\ Kept /\ [Next]_vars
          /\ [PromptWrite]_vars => Kept'
    <2> SUFFICES ASSUME TypeOK, FreshCount, NoFailure, NoFailure', Kept, [Next]_vars,
                        [PromptWrite]_vars, Forsaken'
                 PROVE  FALSE
      OBVIOUS
    <2>1. PICK c \in Clients : clientSetRunning(c)
      BY ForsakenStep DEF processError
    <2>2. cPc' # cPc
      BY <2>1 DEF clientSetRunning, TypeOK, ClientsOK
    <2>3. ActiveNeurons # {} \/ StandByLinks # {}
      BY <2>1, <2>2 DEF PromptWrite, vars, clients
    <2> QED
      BY <2>1, <2>3 DEF clientSetRunning, Forsaken, ActiveNeurons, StandByLinks
  <1>3. TypeOK /\ Kept => AutoSleep
    BY DEF AutoSleep, Quiet, Forsaken, TypeOK, StatusOK
  <1> HIDE DEF NoFailure, Kept
  <1>4. Spec /\ []NoFailure /\ [][PromptWrite]_vars => []AutoSleep
    BY <1>1, <1>2, <1>3, TypeCorrect, FreshAlways, PTL DEF Spec
  <1> QED
    BY <1>4 DEF NoFailure

=============================================================================
