-------------------------- MODULE BrainFunnelProofs --------------------------
(***************************************************************************)
(* The brains in which one call of Entry strands no trigger group: every   *)
(* neuron that casts to other neurons is reached by one link only, so that *)
(* it runs at most once, and any two trigger groups of a neuron share a    *)
(* link, so that a run spoils them all.                                    *)
(***************************************************************************)
EXTENDS BrainRefinement, BrainCauseProofs

USE DEF CastPcs

-----------------------------------------------------------------------------
(* The topologies.                                                          *)

\* A neuron that is reached by one link only.
Once(m) ==
    /\ m \in Neurons \ {EndNeuron}
    /\ \A j, k \in Links : To[j] = m /\ To[k] = m => j = k

\* One call of Entry, no ContinueCast; joins lead to END or nowhere, and two
\* trigger groups of a neuron always have a link in common.
Funnel ==
    /\ MaxCalls <= 1 /\ MaxContinueCast = 0
    /\ \A ls \in Calls : ls \subseteq EntryLinks
    /\ \A l \in Links : To[l] # EndNeuron => isEntryLink(l) \/ Once(From[l])
    /\ \A n \in Neurons \ {EndNeuron} : \A g, h \in TriggerGroups[n] :
         g # {} /\ h # {} => g \cap h # {}

-----------------------------------------------------------------------------
(* What is under way for a neuron: before its processor is done, and after. *)

Knocks(m) == {LinkReady(l) : l \in {k \in Links : To[k] = m}} \cup {TryActivate(m)}
QueuedKnocks(m) == Cardinality(Positions(bQueue, Knocks(m)))
HeldKnock(m) == Count(mEvent \in Knocks(m))
OwedKnock(m) == Count(mPc = "castSend" /\ To[mGroup[mIdx - 1]] = m)
CalledKnock(m) == Count(\E c \in Clients, l \in Links : To[l] = m /\ cTrig[c][l] = "send")
Working(m) == CountWorkers(m, {"activate", "inLinks", "outLinks", "process"})

Before(m) == QueuedKnocks(m) + HeldKnock(m) + OwedKnock(m) + CalledKnock(m) + QueuedDue(m)
               + Working(m)
After(m) == QueuedCasts(m) + HeldCast(m) + Casting(m)

PlacesOK ==
    \A m : /\ QueuedKnocks(m) \in Nat /\ HeldKnock(m) \in {0, 1} /\ OwedKnock(m) \in {0, 1}
           /\ CalledKnock(m) \in {0, 1} /\ QueuedDue(m) \in Nat /\ Working(m) \in Nat
           /\ QueuedCasts(m) \in Nat /\ HeldCast(m) \in {0, 1} /\ Casting(m) \in Nat

\* The parts are numbers,
LEMMA PlaceTypes == TypeOK => PlacesOK
  <1> SUFFICES ASSUME TypeOK, NEW m
               PROVE  QueuedKnocks(m) \in Nat /\ Working(m) \in Nat
    BY PartTypes DEF PlacesOK, PartsOK, HeldKnock, OwedKnock, CalledKnock, Count
  <1>1. QueuedKnocks(m) \in Nat
    BY PositionsFinite DEF QueuedKnocks, TypeOK, QueuesOK
  <1>2. WorkersAt(m, {"activate", "inLinks", "outLinks", "process"}) \subseteq Workers
    BY DEF WorkersAt
  <1>3. Working(m) \in Nat
    BY <1>2, GoroutinesAssumption, FS_Subset, FS_CardinalityType
      DEF Working, CountWorkers, WorkersAt
  <1> QED
    BY <1>1, <1>3

\* after a step, too.
LEMMA PlaceTypesNext == TypeOK' => PlacesOK'
  BY PlaceTypes, PTL

\* Which events knock at a neuron's door.
LEMMA KnockKinds ==
  ASSUME NEW m \in Neurons
  PROVE  /\ \A l \in Links : LinkReady(l) \in Knocks(m) <=> To[l] = m
         /\ \A n : TryActivate(n) \in Knocks(m) <=> n = m
         /\ \A n : TryCast(n) \notin Knocks(m) /\ CastAnyway(n) \notin Knocks(m)
         /\ BrainSleep \notin Knocks(m) /\ NoEvent \notin Knocks(m)
  BY DEF Knocks, LinkReady, TryActivate, TryCast, CastAnyway, BrainSleep, NoEvent

\* What a send and a receive do to the knocks in the queue.
LEMMA KnockSent ==
  ASSUME QueuesOK, NEW e \in Events, publishEvent(e), NEW m
  PROVE  QueuedKnocks(m)' = QueuedKnocks(m) + Count(e \in Knocks(m))
  <1>1. bQueue' = Append(bQueue, e) /\ bQueue \in Seq(Events)
    BY DEF QueuesOK, publishEvent
  <1>2. QueuedKnocks(m)' = Cardinality(Positions(Append(bQueue, e), Knocks(m)))
    BY <1>1 DEF QueuedKnocks, Knocks, LinkReady, TryActivate
  <1> QED
    BY <1>1, <1>2, CountAppend DEF QueuedKnocks

\* The event at the head leaves the queue.
LEMMA KnockReceived ==
  ASSUME QueuesOK, bQueue # << >>, bQueue' = Tail(bQueue), NEW m
  PROVE  QueuedKnocks(m) = QueuedKnocks(m)' + Count(Head(bQueue) \in Knocks(m))
  <1>1. bQueue \in Seq(Events)
    BY DEF QueuesOK
  <1>2. QueuedKnocks(m)' = Cardinality(Positions(Tail(bQueue), Knocks(m)))
    BY DEF QueuedKnocks, Knocks, LinkReady, TryActivate
  <1> QED
    BY <1>1, <1>2, CountTail DEF QueuedKnocks

\* What stays when a variable stays.
LEMMA KnockStays ==
  ASSUME NEW m
  PROVE  /\ UNCHANGED bQueue => QueuedKnocks(m)' = QueuedKnocks(m)
         /\ UNCHANGED mEvent => HeldKnock(m)' = HeldKnock(m) /\ HeldCast(m)' = HeldCast(m)
         /\ UNCHANGED << mPc, mGroup, mIdx >> => OwedKnock(m)' = OwedKnock(m)
         /\ mPc # "castSend" => OwedKnock(m) = 0
         /\ mPc' # "castSend" => OwedKnock(m)' = 0
         /\ UNCHANGED cTrig => CalledKnock(m)' = CalledKnock(m)
         /\ UNCHANGED workers => Working(m)' = Working(m)
  <1>1. UNCHANGED bQueue => QueuedKnocks(m)' = QueuedKnocks(m)
    BY DEF QueuedKnocks, Knocks, Positions, LinkReady, TryActivate
  <1>2. UNCHANGED mEvent => HeldKnock(m)' = HeldKnock(m) /\ HeldCast(m)' = HeldCast(m)
    BY DEF HeldKnock, HeldCast, Knocks, LinkReady, TryActivate, TryCast, CastAnyway
  <1>3. /\ UNCHANGED << mPc, mGroup, mIdx >> => OwedKnock(m)' = OwedKnock(m)
        /\ mPc # "castSend" => OwedKnock(m) = 0
        /\ mPc' # "castSend" => OwedKnock(m)' = 0
    BY DEF OwedKnock, Count
  <1>4. UNCHANGED cTrig => CalledKnock(m)' = CalledKnock(m)
    BY DEF CalledKnock
  <1>5. UNCHANGED workers => Working(m)' = Working(m)
    BY DEF Working, CountWorkers, workers
  <1> QED
    BY <1>1, <1>2, <1>3, <1>4, <1>5

\* An event that is dropped no longer counts.
LEMMA EventDropped ==
  ASSUME TypeOK, NEW m \in Neurons, mEvent' \in {mEvent, NoEvent}
  PROVE  HeldKnock(m)' <= HeldKnock(m) /\ HeldCast(m)' <= HeldCast(m)
  <1>1. CASE mEvent' = mEvent
    BY <1>1, KnockStays, PlaceTypes DEF PlacesOK
  <1>2. CASE mEvent' = NoEvent
    <2>1. HeldKnock(m)' = Count(NoEvent \in Knocks(m))
      BY <1>2 DEF HeldKnock, Knocks, LinkReady, TryActivate
    <2>2. HeldCast(m)' = Count(NoEvent \in {TryCast(m), CastAnyway(m)})
      BY <1>2 DEF HeldCast, TryCast, CastAnyway
    <2>3. HeldKnock(m)' = 0 /\ HeldCast(m)' = 0
      BY <2>1, <2>2, KnockKinds DEF Count, NoEvent, TryCast, CastAnyway
    <2> QED
      BY <2>3, PlaceTypes DEF PlacesOK
  <1> QED
    BY <1>1, <1>2

\* The sum of the parts, in the order in which the maintainer handles them.
LEMMA PlacesOfMaintainer ==
  ASSUME TypeOK, TypeOK', Maintainer, NEW m \in Neurons
  PROVE  /\ PlacesOK /\ PlacesOK'
         /\ CalledKnock(m)' = CalledKnock(m) /\ Working(m)' = Working(m)
         /\ Casting(m)' = Casting(m)
  <1>1. UNCHANGED << workers, cTrig >>
    BY Frames DEF clients
  <1> QED
    BY <1>1, KnockStays, Stays, PlaceTypes, PlaceTypesNext

\* A knock moves from the queue to the maintainer, from LinkReady to
\* TryActivate, and on to the queue of the neurons; or it is dropped.
LEMMA KnockMoves ==
  ASSUME TypeOK, TypeOK', Maintainer, ~castWrite, NEW m \in Neurons
  PROVE  QueuedKnocks(m)' + HeldKnock(m)' + OwedKnock(m)' + QueuedDue(m)'
            <= QueuedKnocks(m) + HeldKnock(m) + OwedKnock(m) + QueuedDue(m)
  <1> USE DEF TypeOK
  <1>0. PlacesOK /\ PlacesOK'
    BY PlaceTypes, PlaceTypesNext
  <1>1. CASE runBrainMaintainer
    <2>1. QueuedKnocks(m) = QueuedKnocks(m)' + Count(Head(bQueue) \in Knocks(m))
      BY <1>1, KnockReceived DEF runBrainMaintainer
    <2>2. HeldKnock(m)' = Count(Head(bQueue) \in Knocks(m))
      BY <1>1 DEF runBrainMaintainer, HeldKnock, Knocks, LinkReady, TryActivate
    <2>3. Head(bQueue).action # "castSend"
      BY <1>1, RangeTail, EventFields DEF runBrainMaintainer, QueuesOK
    <2>4. OwedKnock(m)' = 0 /\ QueuedDue(m)' = QueuedDue(m)
      BY <1>1, <2>3, KnockStays, Stays DEF runBrainMaintainer
    <2> QED
      BY <1>0, <2>1, <2>2, <2>4 DEF PlacesOK
  <1>2. CASE handleLinkReady
    <2>1. mEvent.id \in Links /\ mEvent \in Events /\ mEvent.action = "link_ready"
      BY <1>2, HandledEvent DEF handleLinkReady, MaintainerOK, EventOK, CastOK, ScanOK
    <2>2. mEvent = LinkReady(mEvent.id)
      BY <2>1 DEF Events, LinkReady, TryActivate, TryCast, CastAnyway, BrainSleep
    <2>3. To[mEvent.id] \in Neurons
      BY <2>1, TopologyAssumption
    <2>4. QueuedKnocks(m)' = QueuedKnocks(m) + Count(TryActivate(To[mEvent.id]) \in Knocks(m))
      BY <1>2, <2>3, KnockSent, EventTypes DEF handleLinkReady
    <2>5. HeldKnock(m) = Count(LinkReady(mEvent.id) \in Knocks(m))
      BY <2>2 DEF HeldKnock
    <2>6. HeldKnock(m)' = Count(NoEvent \in Knocks(m))
      BY <1>2 DEF handleLinkReady, HandlerDone, HeldKnock, Knocks, LinkReady, TryActivate
    <2>7. Count(TryActivate(To[mEvent.id]) \in Knocks(m)) = Count(LinkReady(mEvent.id) \in Knocks(m))
          /\ HeldKnock(m)' = 0
      BY <2>1, <2>6, KnockKinds DEF Count
    <2>8. OwedKnock(m)' = 0 /\ QueuedDue(m)' = QueuedDue(m)
      BY <1>2, KnockStays, Stays DEF handleLinkReady, HandlerDone
    <2> QED
      BY <1>0, <2>4, <2>5, <2>7, <2>8 DEF PlacesOK
  <1>3. CASE enqueueNeuron
    <2>1. mEvent.id \in Neurons \ {EndNeuron} /\ mEvent \in Events
          /\ mEvent.action = "try_activate_neuron"
      BY <1>3, HandledEvent DEF enqueueNeuron, MaintainerOK, EventOK, TestPcs
    <2>2. mEvent = TryActivate(mEvent.id)
      BY <2>1 DEF Events, LinkReady, TryActivate, TryCast, CastAnyway, BrainSleep
    <2>3. QueuedDue(m)' = QueuedDue(m) + Count(mEvent.id = m)
      BY <1>3, <2>1, NeuronQueueCounts DEF enqueueNeuron
    <2>4. HeldKnock(m) = Count(mEvent.id = m)
      <3>1. HeldKnock(m) = Count(TryActivate(mEvent.id) \in Knocks(m))
        BY <2>2 DEF HeldKnock
      <3> QED
        BY <3>1, KnockKinds DEF Count
    <2>5. HeldKnock(m)' = Count(NoEvent \in Knocks(m))
      BY <1>3 DEF enqueueNeuron, HandlerDone, HeldKnock, Knocks, LinkReady, TryActivate
    <2>6. HeldKnock(m)' = 0
      BY <2>5, KnockKinds DEF Count
    <2>7. OwedKnock(m)' = 0 /\ QueuedKnocks(m)' = QueuedKnocks(m)
      BY <1>3, KnockStays DEF enqueueNeuron, HandlerDone
    <2> QED
      BY <1>0, <2>3, <2>4, <2>6, <2>7 DEF PlacesOK, Count
  <1>4. CASE castSend
    <2>1. mGroup[mIdx - 1] \in Links
      BY <1>4 DEF castSend, MaintainerOK, EventOK, CastOK, ScanOK
    <2>2. QueuedKnocks(m)' = QueuedKnocks(m) + Count(LinkReady(mGroup[mIdx - 1]) \in Knocks(m))
      BY <1>4, <2>1, KnockSent, EventTypes DEF castSend
    <2>3. OwedKnock(m) = Count(LinkReady(mGroup[mIdx - 1]) \in Knocks(m))
      BY <1>4, <2>1, KnockKinds DEF castSend, OwedKnock, Count
    <2>4. /\ OwedKnock(m)' = 0 /\ QueuedDue(m)' = QueuedDue(m) /\ HeldKnock(m)' = HeldKnock(m)
      BY <1>4, KnockStays, Stays DEF castSend
    <2> QED
      BY <1>0, <2>2, <2>3, <2>4 DEF PlacesOK
  <1>5. ASSUME ~runBrainMaintainer, ~handleLinkReady, ~enqueueNeuron, ~castSend
        PROVE  /\ bQueue' = bQueue \/ publishEvent(BrainSleep)
               /\ mEvent' \in {mEvent, NoEvent} /\ UNCHANGED nQueue
               /\ mPc' # "castSend"
    BY <1>5 DEF Maintainer, tryActivateNeuron, shouldActivate, testGroup, NextGroup, AcceptGroup,
      publishEnd, neuronCast, castSelected, castUnselected, castRest, castReset, NextVisit,
      SetLinks, countNeurons, countLinks, setRunning, publishSleep, forceSleepLinks,
      forceSleepNeurons, forceSleepState, HandlerDone
  <1>6. CASE ~runBrainMaintainer /\ ~handleLinkReady /\ ~enqueueNeuron /\ ~castSend
    <2>1. QueuedKnocks(m)' = QueuedKnocks(m)
      <3>1. publishEvent(BrainSleep) =>
               QueuedKnocks(m)' = QueuedKnocks(m) + Count(BrainSleep \in Knocks(m))
        BY KnockSent, EventTypes
      <3>2. Count(BrainSleep \in Knocks(m)) = 0
        BY KnockKinds DEF Count
      <3> QED
        BY <1>0, <1>5, <1>6, <3>1, <3>2, KnockStays DEF PlacesOK
    <2>2. /\ HeldKnock(m)' <= HeldKnock(m) /\ OwedKnock(m)' = 0 /\ QueuedDue(m)' = QueuedDue(m)
      BY <1>5, <1>6, EventDropped, KnockStays, Stays
    <2> QED
      BY <1>0, <2>1, <2>2 DEF PlacesOK
  <1> QED
    BY <1>1, <1>2, <1>3, <1>4, <1>6

\* The maintainer takes casts from the queue and makes none.
LEMMA CastMoves ==
  ASSUME TypeOK, TypeOK', Maintainer, NEW m \in Neurons
  PROVE  QueuedCasts(m)' + HeldCast(m)' <= QueuedCasts(m) + HeldCast(m)
  <1> USE DEF TypeOK
  <1>0. PlacesOK /\ PlacesOK'
    BY PlaceTypes, PlaceTypesNext
  <1>1. CASE runBrainMaintainer
    <2>1. QueuedCasts(m) = QueuedCasts(m)'
                             + Count(Head(bQueue) \in {TryCast(m), CastAnyway(m)})
      BY <1>1, ReceiveCounts DEF runBrainMaintainer
    <2>2. HeldCast(m)' = Count(Head(bQueue) \in {TryCast(m), CastAnyway(m)})
      BY <1>1 DEF runBrainMaintainer, HeldCast, TryCast, CastAnyway
    <2> QED
      BY <1>0, <2>1, <2>2 DEF PlacesOK
  <1>2. CASE ~runBrainMaintainer
    <2>1. /\ mEvent' \in {mEvent, NoEvent}
          /\ \/ bQueue' = bQueue
             \/ publishEvent(BrainSleep)
             \/ mPc = "link_ready" /\ publishEvent(TryActivate(To[mEvent.id]))
             \/ mPc = "castSend" /\ publishEvent(LinkReady(mGroup[mIdx - 1]))
      BY <1>2 DEF Maintainer, handleLinkReady, tryActivateNeuron, shouldActivate, testGroup,
        NextGroup, AcceptGroup, publishEnd, enqueueNeuron, neuronCast, castSelected, castWrite,
        castSend, castUnselected, castRest, castReset, NextVisit, SetLinks, countNeurons,
        countLinks, setRunning, publishSleep, forceSleepLinks, forceSleepNeurons, forceSleepState,
        HandlerDone
    <2>2. mPc = "link_ready" => To[mEvent.id] \in Neurons
      BY HandledEvent, TopologyAssumption
    <2>3. mPc = "castSend" => mGroup[mIdx - 1] \in Links
      BY DEF MaintainerOK, EventOK, CastOK, ScanOK
    <2>4. publishEvent(BrainSleep) => QueuedCasts(m)' = QueuedCasts(m)
      BY SentCounts
    <2>5. QueuedCasts(m)' = QueuedCasts(m)
      BY <2>1, <2>2, <2>3, <2>4, SentCounts, Stays
    <2>6. HeldCast(m)' <= HeldCast(m)
      BY <2>1, EventDropped
    <2> QED
      BY <1>0, <2>5, <2>6 DEF PlacesOK
  <1> QED
    BY <1>1, <1>2

\* A step of the maintainer adds to what is under way only by writing a link.
LEMMA MaintainerPlaces ==
  ASSUME TypeOK, TypeOK', Maintainer, NEW m \in Neurons
  PROVE  /\ After(m)' <= After(m)
         /\ ~castWrite => Before(m)' <= Before(m)
         /\ castWrite => Before(m)' = Before(m) + Count(To[mGroup[mIdx]] = m)
  <1>0. /\ PlacesOK /\ PlacesOK'
        /\ CalledKnock(m)' = CalledKnock(m) /\ Working(m)' = Working(m)
        /\ Casting(m)' = Casting(m)
    BY PlacesOfMaintainer
  <1>1. After(m)' <= After(m)
    BY <1>0, CastMoves DEF After, PlacesOK
  <1>2. ASSUME ~castWrite PROVE Before(m)' <= Before(m)
    BY <1>0, <1>2, KnockMoves DEF Before, PlacesOK
  <1>3. ASSUME castWrite PROVE Before(m)' = Before(m) + Count(To[mGroup[mIdx]] = m)
    <2>1. mIdx \in Nat /\ mPc' = "castSend" /\ mIdx' = mIdx + 1 /\ mGroup' = mGroup
      BY <1>3 DEF castWrite, TypeOK, MaintainerOK, EventOK, CastOK, ScanOK
    <2>2. OwedKnock(m)' = Count(To[mGroup[mIdx]] = m)
      BY <2>1 DEF OwedKnock, Count
    <2>3. /\ OwedKnock(m) = 0 /\ QueuedKnocks(m)' = QueuedKnocks(m)
          /\ HeldKnock(m)' = HeldKnock(m) /\ QueuedDue(m)' = QueuedDue(m)
      BY <1>3, KnockStays, Stays DEF castWrite
    <2>4. Count(To[mGroup[mIdx]] = m) \in Nat
      BY DEF Count
    <2> QED
      BY <1>0, <2>2, <2>3, <2>4 DEF Before, PlacesOK
  <1> QED
    BY <1>1, <1>2, <1>3

\* A worker takes a neuron from its queue, runs it, and sends one TryCast.
LEMMA WorkerPlaces ==
  ASSUME TypeOK, TypeOK', NEW w \in Workers, Worker(w), MaxContinueCast = 0, NEW m \in Neurons
  PROVE  /\ Before(m)' <= Before(m)
         /\ Before(m)' + After(m)' <= Before(m) + After(m)
         /\ processOk(w) \/ processError(w) => Before(m)' = Before(m) - Count(wNeuron[w] = m)
         /\ ~(processOk(w) /\ wNeuron[w] = m) => After(m)' <= After(m)
  <1> USE DEF TypeOK
  <1> DEFINE run == {"activate", "inLinks", "outLinks", "process"}
  <1>0. PlacesOK /\ PlacesOK'
    BY PlaceTypes, PlaceTypesNext
  <1>1. /\ HeldKnock(m)' = HeldKnock(m) /\ OwedKnock(m)' = OwedKnock(m)
        /\ CalledKnock(m)' = CalledKnock(m) /\ HeldCast(m)' = HeldCast(m)
    <2>1. UNCHANGED << mEvent, mPc, mGroup, mIdx, cTrig >>
      BY Frames DEF maintainer, mLoop, clients
    <2> QED
      BY <2>1, KnockStays
  <1>2. ~ContinueCast(w)
    <2>1. wPc[w] = "process" => wNeuron[w] \in Neurons
      BY DEF WorkersOK
    <2> QED
      BY <2>1 DEF ContinueCast, CountsOK
  <1>3. \A v \in Workers \ {w} : wPc'[v] = wPc[v] /\ wNeuron'[v] = wNeuron[v]
    BY DEF Worker, runNeuronWorker, setActivated, setInLinksInit, setOutLinksWait, ContinueCast,
      processOk, processError, publishTryCast, workers, WorkersOK
  <1>4. /\ Working(m) + Count(wNeuron'[w] = m /\ wPc'[w] \in run)
             = Working(m)' + Count(wNeuron[w] = m /\ wPc[w] \in run)
        /\ Casting(m) + Count(wNeuron'[w] = m /\ wPc'[w] \in {"cast"})
             = Casting(m)' + Count(wNeuron[w] = m /\ wPc[w] \in {"cast"})
    BY <1>3, WorkerCounts DEF Working, Casting
  <1>5. CASE runNeuronWorker(w)
    <2>1. QueuedDue(m) = QueuedDue(m)' + Count(Head(nQueue) = m)
      BY <1>5, NeuronQueueCounts DEF runNeuronWorker
    <2>2. wNeuron'[w] = Head(nQueue) /\ wPc'[w] = "activate" /\ wPc[w] = "idle"
      BY <1>5 DEF runNeuronWorker, WorkersOK
    <2>3. Working(m)' = Working(m) + Count(Head(nQueue) = m) /\ Casting(m)' = Casting(m)
      BY <1>0, <1>4, <2>2 DEF PlacesOK, Count
    <2>4. QueuedKnocks(m)' = QueuedKnocks(m) /\ QueuedCasts(m)' = QueuedCasts(m)
      BY <1>5, KnockStays, Stays DEF runNeuronWorker
    <2>5. ~processOk(w) /\ ~processError(w)
      BY <2>2 DEF processOk, processError
    <2> QED
      BY <1>0, <1>1, <2>1, <2>3, <2>4, <2>5 DEF Before, After, PlacesOK, Count
  <1>6. CASE setActivated(w) \/ setInLinksInit(w) \/ setOutLinksWait(w)
    <2>1. /\ wNeuron'[w] = wNeuron[w] /\ wPc[w] \in run /\ wPc'[w] \in run
          /\ wPc[w] # "cast" /\ wPc'[w] # "cast" /\ wPc[w] # "process"
      BY <1>6 DEF setActivated, setInLinksInit, setOutLinksWait, WorkersOK
    <2>2. Working(m)' = Working(m) /\ Casting(m)' = Casting(m)
      BY <1>0, <1>4, <2>1 DEF PlacesOK, Count
    <2>3. /\ QueuedKnocks(m)' = QueuedKnocks(m) /\ QueuedCasts(m)' = QueuedCasts(m)
          /\ QueuedDue(m)' = QueuedDue(m)
      BY <1>6, KnockStays, Stays DEF setActivated, setInLinksInit, setOutLinksWait
    <2>4. ~processOk(w) /\ ~processError(w)
      BY <2>1 DEF processOk, processError
    <2> QED
      BY <1>0, <1>1, <2>2, <2>3, <2>4 DEF Before, After, PlacesOK
  <1>7. CASE processOk(w)
    <2>1. wNeuron'[w] = wNeuron[w] /\ wPc[w] = "process" /\ wPc'[w] = "cast"
      BY <1>7 DEF processOk, WorkersOK
    <2>2. /\ Working(m)' = Working(m) - Count(wNeuron[w] = m)
          /\ Casting(m)' = Casting(m) + Count(wNeuron[w] = m)
      BY <1>0, <1>4, <2>1 DEF PlacesOK, Count
    <2>3. /\ QueuedKnocks(m)' = QueuedKnocks(m) /\ QueuedCasts(m)' = QueuedCasts(m)
          /\ QueuedDue(m)' = QueuedDue(m)
      BY <1>7, KnockStays, Stays DEF processOk
    <2> QED
      BY <1>0, <1>1, <1>7, <2>2, <2>3 DEF Before, After, PlacesOK, Count
  <1>8. CASE processError(w)
    <2>1. wPc[w] = "process" /\ wPc'[w] = "idle"
      BY <1>8 DEF processError, WorkersOK
    <2>2. Working(m)' = Working(m) - Count(wNeuron[w] = m) /\ Casting(m)' = Casting(m)
      BY <1>0, <1>4, <2>1 DEF PlacesOK, Count
    <2>3. /\ QueuedKnocks(m)' = QueuedKnocks(m) /\ QueuedCasts(m)' = QueuedCasts(m)
          /\ QueuedDue(m)' = QueuedDue(m)
      BY <1>8, KnockStays, Stays DEF processError
    <2> QED
      BY <1>0, <1>1, <2>2, <2>3 DEF Before, After, PlacesOK, Count
  <1>9. CASE publishTryCast(w)
    <2>1. wPc[w] = "cast" /\ wPc'[w] = "idle" /\ wNeuron[w] \in Neurons
      BY <1>9 DEF publishTryCast, WorkersOK
    <2>2. Casting(m)' = Casting(m) - Count(wNeuron[w] = m) /\ Working(m)' = Working(m)
      BY <1>0, <1>4, <2>1 DEF PlacesOK, Count
    <2>3. QueuedCasts(m)' = QueuedCasts(m) + Count(wNeuron[w] = m)
      BY <1>9, <2>1, SentCounts DEF publishTryCast
    <2>4. QueuedKnocks(m)' = QueuedKnocks(m) + Count(TryCast(wNeuron[w]) \in Knocks(m))
      BY <1>9, <2>1, KnockSent, EventTypes DEF publishTryCast
    <2>5. Count(TryCast(wNeuron[w]) \in Knocks(m)) = 0
      BY KnockKinds DEF Count
    <2>6. QueuedDue(m)' = QueuedDue(m)
      BY <1>9, Stays DEF publishTryCast
    <2>7. ~processOk(w) /\ ~processError(w)
      BY <2>1 DEF processOk, processError
    <2> QED
      BY <1>0, <1>1, <2>2, <2>3, <2>4, <2>5, <2>6, <2>7 DEF Before, After, PlacesOK, Count
  <1> QED
    BY <1>2, <1>5, <1>6, <1>7, <1>8, <1>9 DEF Worker

\* Only one client is triggering links, and none before the first call.
OneCall ==
    /\ calls = 0 => \A c \in Clients, l \in Links : cTrig[c][l] = "none"
    /\ \A c, d \in Clients, l, k \in Links :
         cTrig[c][l] # "none" /\ cTrig[d][k] # "none" => c = d

\* A client adds to what is under way for a neuron only by writing its link.
LEMMA ClientPlaces ==
  ASSUME TypeOK, TypeOK', OneCall, NEW c \in Clients, Client(c), NEW m \in Neurons, Once(m)
  PROVE  /\ After(m)' = After(m) /\ Before(m)' <= Before(m) + 1
         /\ (\A l \in Links : To[l] = m => ~trigLinkWrite(c, l)) => Before(m)' <= Before(m)
  <1> USE DEF TypeOK
  <1>0. PlacesOK /\ PlacesOK'
    BY PlaceTypes, PlaceTypesNext
  <1>1. /\ HeldKnock(m)' = HeldKnock(m) /\ OwedKnock(m)' = OwedKnock(m)
        /\ HeldCast(m)' = HeldCast(m) /\ Working(m)' = Working(m) /\ Casting(m)' = Casting(m)
        /\ QueuedDue(m)' = QueuedDue(m)
    <2>1. UNCHANGED << mEvent, mPc, mGroup, mIdx, workers, nQueue >>
      BY Frames DEF maintainer, mLoop
    <2> QED
      BY <2>1, KnockStays, Stays
  <1>2. ASSUME NEW l \in Links, trigLinkSend(c, l)
        PROVE  /\ QueuedCasts(m)' = QueuedCasts(m)
               /\ QueuedKnocks(m)' + CalledKnock(m)' <= QueuedKnocks(m) + CalledKnock(m)
    <2>1. QueuedCasts(m)' = QueuedCasts(m)
      BY <1>2, SentCounts DEF trigLinkSend
    <2>2. QueuedKnocks(m)' = QueuedKnocks(m) + Count(LinkReady(l) \in Knocks(m))
      BY <1>2, KnockSent, EventTypes DEF trigLinkSend
    <2>3. \A d \in Clients, k \in Links : cTrig'[d][k] = "send" => cTrig[d][k] = "send"
      BY <1>2 DEF trigLinkSend, ClientsOK
    <2>4. CASE To[l] # m
      <3>1. Count(LinkReady(l) \in Knocks(m)) = 0
        BY <2>4, KnockKinds DEF Count
      <3>2. CalledKnock(m)' <= CalledKnock(m)
        BY <2>3 DEF CalledKnock, Count
      <3> QED
        BY <1>0, <2>1, <2>2, <3>1, <3>2 DEF PlacesOK
    <2>5. CASE To[l] = m
      <3>1. CalledKnock(m) = 1
        BY <1>2, <2>5 DEF trigLinkSend, CalledKnock, Count
      <3>2. cTrig'[c][l] = "none"
        BY <1>2 DEF trigLinkSend, ClientsOK
      <3>3. ASSUME NEW d \in Clients, NEW k \in Links, To[k] = m, cTrig'[d][k] = "send" PROVE FALSE
        <4>1. k = l
          BY <2>5, <3>3 DEF Once
        <4>2. d = c
          BY <1>2, <2>3, <3>3 DEF OneCall, trigLinkSend
        <4> QED
          BY <3>2, <3>3, <4>1, <4>2
      <3>4. CalledKnock(m)' = 0
        BY <3>3 DEF CalledKnock, Count
      <3>5. Count(LinkReady(l) \in Knocks(m)) \in {0, 1}
        BY DEF Count
      <3> QED
        BY <1>0, <2>1, <2>2, <3>1, <3>4, <3>5 DEF PlacesOK
    <2> QED
      BY <2>4, <2>5
  <1>3. CASE clientPublishSleep(c)
    <2>1. QueuedKnocks(m)' = QueuedKnocks(m) + Count(BrainSleep \in Knocks(m))
      BY <1>3, KnockSent, EventTypes DEF clientPublishSleep
    <2>2. Count(BrainSleep \in Knocks(m)) = 0
      BY KnockKinds DEF Count
    <2>3. QueuedCasts(m)' = QueuedCasts(m)
      BY <1>3, SentCounts DEF clientPublishSleep
    <2>4. CalledKnock(m)' = CalledKnock(m)
      BY <1>3, KnockStays DEF clientPublishSleep
    <2> QED
      BY <1>0, <1>1, <2>1, <2>2, <2>3, <2>4 DEF Before, After, PlacesOK
  <1>4. ASSUME bQueue' = bQueue, \A l \in Links : To[l] = m => ~trigLinkWrite(c, l)
        PROVE  CalledKnock(m)' <= CalledKnock(m)
    <2>1. ASSUME NEW d \in Clients, NEW k \in Links, To[k] = m, cTrig'[d][k] = "send"
          PROVE  cTrig[d][k] = "send"
      <3>1. ASSUME NEW ls \in Calls, trigLinks(c, ls) PROVE cTrig[d][k] = "send"
        BY <2>1, <3>1 DEF trigLinks, ClientsOK
      <3>2. ASSUME NEW j \in Links, trigLinkRead(c, j) \/ trigLinkSend(c, j)
            PROVE  cTrig[d][k] = "send"
        BY <2>1, <3>2 DEF trigLinkRead, trigLinkSend, ClientsOK
      <3>3. ASSUME NEW j \in Links, trigLinkWrite(c, j) PROVE cTrig[d][k] = "send"
        BY <1>4, <2>1, <3>3 DEF trigLinkWrite, ClientsOK
      <3>4. CASE ClientStep(c) \/ callWait(c)
        BY <2>1, <3>4 DEF ClientStep, clientCountNeurons, clientCountLinks, ClientScans,
          clientSetRunning, clientPublishSleep, callWait, waitReturns
      <3> QED
        BY <3>1, <3>2, <3>3, <3>4 DEF Client, trigLink
    <2> QED
      BY <2>1 DEF CalledKnock, Count
  <1>5. CASE bQueue' = bQueue
    <2>1. QueuedKnocks(m)' = QueuedKnocks(m) /\ QueuedCasts(m)' = QueuedCasts(m)
      BY <1>5, KnockStays, Stays
    <2> QED
      BY <1>0, <1>1, <1>4, <1>5, <2>1 DEF Before, After, PlacesOK
  <1>6. CASE \E l \in Links : trigLinkSend(c, l)
    BY <1>0, <1>1, <1>2, <1>6 DEF Before, After, PlacesOK
  <1>7. \/ bQueue' = bQueue \/ clientPublishSleep(c)
        \/ \E l \in Links : trigLinkSend(c, l)
    BY DEF Client, ClientStep, trigLinks, trigLink, trigLinkRead, trigLinkWrite, trigLinkSend,
      clientCountNeurons, clientCountLinks, ClientScans, clientSetRunning, clientPublishSleep,
      callWait, waitReturns
  <1> QED
    BY <1>3, <1>5, <1>6, <1>7

\* A second call is never made.
LEMMA OneCallStep ==
  ASSUME TypeOK, OneCall, [Next]_vars, MaxCalls <= 1
  PROVE  OneCall' /\ (calls > 0 => calls' > 0)
  <1> USE DEF TypeOK
  <1>1. CASE UNCHANGED << calls, cTrig >>
    BY <1>1 DEF OneCall
  <1>2. ASSUME NEW c \in Clients, NEW ls \in Calls, trigLinks(c, ls)
        PROVE  OneCall' /\ (calls > 0 => calls' > 0)
    <2>1. calls = 0 /\ calls' = 1
      BY <1>2, BoundsAssumption DEF trigLinks, CountsOK
    <2>2. \A d \in Clients, l \in Links : cTrig'[d][l] # "none" => d = c
      BY <1>2, <2>1 DEF trigLinks, ClientsOK, OneCall
    <2> QED
      BY <2>1, <2>2 DEF OneCall
  <1>3. ASSUME NEW c \in Clients, NEW l \in Links, trigLink(c, l)
        PROVE  OneCall' /\ (calls > 0 => calls' > 0)
    <2>1. \A d \in Clients, k \in Links : cTrig'[d][k] # "none" => cTrig[d][k] # "none"
      BY <1>3 DEF trigLink, trigLinkRead, trigLinkWrite, trigLinkSend, ClientsOK
    <2>2. calls' = calls /\ calls # 0
      BY <1>3 DEF trigLink, trigLinkRead, trigLinkWrite, trigLinkSend, counts, OneCall
    <2> QED
      BY <2>1, <2>2 DEF OneCall
  <1>4. ASSUME NEW c \in Clients, ClientStep(c) \/ callWait(c) PROVE UNCHANGED << calls, cTrig >>
    BY <1>4 DEF ClientStep, clientCountNeurons, clientCountLinks, ClientScans, clientSetRunning,
      clientPublishSleep, callWait, waitReturns, counts
  <1>5. CASE Maintainer
    <2>1. UNCHANGED << calls, cTrig >>
      BY <1>5 DEF clients, counts, Maintainer, runBrainMaintainer, handleLinkReady,
        tryActivateNeuron, shouldActivate, testGroup, NextGroup, AcceptGroup, publishEnd,
        enqueueNeuron, neuronCast, castSelected, castWrite, castSend, castUnselected, castRest,
        castReset, NextVisit, SetLinks, countNeurons, countLinks, setRunning, publishSleep,
        forceSleepLinks, forceSleepNeurons, forceSleepState
    <2> QED
      BY <1>1, <2>1
  <1>6. ASSUME NEW w \in Workers, Worker(w) PROVE UNCHANGED << calls, cTrig >>
    BY <1>6 DEF clients, counts, Worker, runNeuronWorker, setActivated, setInLinksInit,
      setOutLinksWait, ContinueCast, processOk, processError, publishTryCast
  <1> QED
    BY <1>1, <1>2, <1>3, <1>4, <1>5, <1>6 DEF Next, Client, RetryCast, vars, clients, counts

-----------------------------------------------------------------------------
(* A link that nobody will make Ready again.                                *)

\* The cast of s is over, as far as l is concerned.
CastOver(s, l) ==
    /\ s \in succeeded /\ ~Pending(TryCast(s))
    /\ \A w \in Workers : ~(wPc[w] = "cast" /\ wNeuron[w] = s)
    /\ mEvent = TryCast(s) => l \in Visited

Spent(l) ==
    \/ isEntryLink(l) /\ calls > 0 /\ \A c \in Clients : cTrig[c][l] \notin {"read", "write"}
    \/ ~isEntryLink(l) /\ CastOver(From[l], l)

\* A neuron with one in-link: at most one thing is under way for it, nothing
\* before its processor once that is done, and its link is spent when it begins.
Tally(m) ==
    /\ Before(m) + After(m) <= 1
    /\ m \in succeeded \cup failed => Before(m) = 0
    /\ m \in failed => After(m) = 0 /\ m \notin succeeded
    /\ Before(m) + After(m) > 0 \/ m \in succeeded \cup failed =>
         \A l \in Links : To[l] = m => Spent(l)
Tallied == \A m \in Neurons : Once(m) => Tally(m)

\* neuronCast writes no link twice.
Unvisited == mPc = "castWrite" /\ Once(mEvent.id) => mGroup[mIdx] \notin Visited

ReadySpent == \A l \in Links : linkState[l] = "Ready" /\ To[l] # EndNeuron => Spent(l)

\* An activation on its way has a group of spent links, and a run that has taken
\* its links has one whose links are not Ready.
GroupSpent(n) == \E g \in TriggerGroups[n] : g # {} /\ \A l \in g : Spent(l)
GroupTaken(n) ==
    \E g \in TriggerGroups[n] : g # {} /\ \A l \in g : Spent(l) /\ linkState[l] # "Ready"
Chosen(n) ==
    \/ mPc = "enqueue" /\ mEvent.id = n
    \/ Queued(n)
    \/ \E w \in Workers : wNeuron[w] = n /\ wPc[w] \in {"activate", "inLinks"}
Taken(n) == \E w \in Workers : wNeuron[w] = n /\ wPc[w] \in {"outLinks", "process"}

\* What ifNeuronShouldActivate has read of the group it tests is spent.
GroupSeen(n) ==
    \E g \in TriggerGroups[n] : g # {} /\ mLeft \subseteq g /\ \A l \in g \ mLeft : Spent(l)

FunnelInv ==
    /\ Funnel /\ OneCall /\ CastSource /\ CalledLinks
    /\ Tallied /\ Unvisited /\ ReadySpent
    /\ \A n \in Neurons \ {EndNeuron} : /\ Chosen(n) => GroupSpent(n)
                                        /\ Taken(n) => GroupTaken(n)
                                        /\ mPc = "group" /\ mEvent.id = n => GroupSeen(n)

\* What the counts say of the places themselves.
LEMMA PlacesSeen ==
  ASSUME TypeOK, NEW m \in Neurons
  PROVE  /\ Before(m) \in Nat /\ After(m) \in Nat
         /\ Pending(TryCast(m)) => QueuedCasts(m) > 0
         /\ mEvent = TryCast(m) => HeldCast(m) = 1
         /\ \A w \in Workers : wNeuron[w] = m =>
              /\ wPc[w] = "cast" => Casting(m) > 0
              /\ wPc[w] \in {"activate", "inLinks", "outLinks", "process"} => Working(m) > 0
  <1>0. PlacesOK
    BY PlaceTypes
  <1>1. Before(m) \in Nat /\ After(m) \in Nat
    BY <1>0 DEF PlacesOK, Before, After
  <1>2. ASSUME Pending(TryCast(m)) PROVE QueuedCasts(m) > 0
    <2> DEFINE P == Positions(bQueue, {TryCast(m), CastAnyway(m)})
    <2>1. P # {}
      BY <1>2 DEF Pending, Range, Positions
    <2>2. IsFiniteSet(P)
      BY PositionsFinite DEF TypeOK, QueuesOK
    <2>3. Cardinality(P) # 0
      BY <2>1, <2>2, FS_EmptySet
    <2> QED
      BY <1>0, <2>3 DEF PlacesOK, QueuedCasts
  <1>3. mEvent = TryCast(m) => HeldCast(m) = 1
    BY DEF HeldCast, Count
  <1>4. ASSUME NEW w \in Workers, wNeuron[w] = m, NEW pcs, wPc[w] \in pcs
        PROVE  CountWorkers(m, pcs) # 0
    <2> DEFINE P == WorkersAt(m, pcs)
    <2>1. P # {} /\ P \subseteq Workers
      BY <1>4 DEF WorkersAt
    <2>2. IsFiniteSet(P)
      BY <2>1, GoroutinesAssumption, FS_Subset
    <2>3. Cardinality(P) # 0
      BY <2>1, <2>2, FS_EmptySet
    <2> QED
      BY <2>3 DEF CountWorkers, WorkersAt
  <1>5. ASSUME NEW w \in Workers, wNeuron[w] = m
        PROVE  /\ wPc[w] = "cast" => Casting(m) > 0
               /\ wPc[w] \in {"activate", "inLinks", "outLinks", "process"} => Working(m) > 0
    BY <1>0, <1>4, <1>5 DEF PlacesOK, Casting, Working
  <1> QED
    BY <1>1, <1>2, <1>3, <1>5

\* No ContinueCast: the maintainer handles no CastAnyway and nothing is retried.
LEMMA NoCastAnyway ==
  ASSUME TypeOK, CastSource, MaxContinueCast = 0
  PROVE  /\ \A n \in Neurons : retries[n] = 0 /\ continued[n] = 0
         /\ \A n \in Neurons : ~RetryCast(n)
         /\ mPc \in CastPcs \cup {"try_cast", "cast_anyway"} =>
              mEvent = TryCast(mEvent.id) /\ mEvent.id \in Neurons
  <1>1. \A n \in Neurons : continued[n] = 0
    BY DEF TypeOK, CountsOK
  <1>2. \A n \in Neurons : retries[n] = 0
    BY <1>1, BoundsAssumption DEF TypeOK, CountsOK, CastSource
  <1>3. ASSUME mPc \in CastPcs \cup {"try_cast", "cast_anyway"}
        PROVE  mEvent = TryCast(mEvent.id) /\ mEvent.id \in Neurons
    <2>1. mEvent.id \in Neurons /\ mEvent \in Events
      BY <1>3, HandledEvent DEF TypeOK
    <2>2. mEvent.action \in {"try_cast", "cast_anyway"}
      BY <1>3 DEF TypeOK, MaintainerOK, EventOK, CastOK, ScanOK
    <2>3. mEvent \in {TryCast(mEvent.id), CastAnyway(mEvent.id)}
      BY <2>1, <2>2 DEF Events, LinkReady, TryActivate, TryCast, CastAnyway, BrainSleep
    <2> QED
      BY <1>1, <2>1, <2>3 DEF CastSource
  <1> QED
    BY <1>1, <1>2, <1>3 DEF RetryCast

\* What neuronCast has visited it does not forget.
LEMMA VisitedGrows ==
  ASSUME TypeOK, [Next]_vars, NEW s \in Neurons, mEvent = TryCast(s), mEvent' = TryCast(s)
  PROVE  Visited \subseteq Visited'
  <1> USE DEF TypeOK
  <1>1. mEvent.action = "try_cast" /\ mEvent'.action = "try_cast"
    BY DEF TryCast
  <1>2. mIdx \in Nat
    BY DEF MaintainerOK, EventOK, CastOK, ScanOK
  <1>3. CASE UNCHANGED << mGroup, mIdx >>
    BY <1>3 DEF Visited
  <1>4. CASE Maintainer
    <2>1. mPc \notin {"idle", "countNeurons", "countLinks", "sleep"}
      BY <1>1 DEF MaintainerOK, EventOK, NoEvent
    <2>2. CASE neuronCast
      <3>1. mIdx = 0
        BY <2>2 DEF neuronCast, MaintainerOK, EventOK, CastOK, ScanOK
      <3> QED
        BY <3>1 DEF Visited
    <2>3. CASE castSelected \/ castWrite
      <3>1. mGroup' = mGroup /\ (mIdx' = mIdx \/ mIdx' = mIdx + 1)
        BY <2>3 DEF castSelected, castWrite
      <3> QED
        BY <1>2, <3>1 DEF Visited
    <2>4. CASE castUnselected \/ castRest \/ castReset
      BY <1>1, <1>3, <2>4 DEF castUnselected, castRest, castReset, NextVisit, HandlerDone, NoEvent
    <2>5. CASE tryActivateNeuron \/ shouldActivate \/ testGroup
      BY <1>1, <1>3, <2>5 DEF tryActivateNeuron, shouldActivate, testGroup, NextGroup, AcceptGroup,
        HandlerDone, NoEvent, mLoop
    <2>6. CASE handleLinkReady \/ publishEnd \/ enqueueNeuron \/ forceSleepState
      BY <1>1, <2>6 DEF handleLinkReady, publishEnd, enqueueNeuron, forceSleepState, HandlerDone,
        NoEvent
    <2> QED
      BY <1>3, <1>4, <2>1, <2>2, <2>3, <2>4, <2>5, <2>6 DEF Maintainer, runBrainMaintainer, castSend,
        countNeurons, countLinks, setRunning, publishSleep, forceSleepLinks, forceSleepNeurons,
        mLoop
  <1> QED
    BY <1>3, <1>4, Frames DEF Next, vars, maintainer, mLoop

\* A spent link stays spent.
LEMMA SpentStep ==
  ASSUME TypeOK, FunnelInv, [Next]_vars, NEW l \in Links, To[l] # EndNeuron, Spent(l)
  PROVE  Spent(l)'
  <1> USE DEF TypeOK
  <1>1. CASE isEntryLink(l)
    <2>1. calls > 0 /\ \A c \in Clients : cTrig[c][l] \notin {"read", "write"}
      BY <1>1 DEF Spent
    <2>2. calls' > 0
      BY <2>1, OneCallStep DEF FunnelInv, Funnel
    <2>3. ASSUME NEW c \in Clients, Client(c), NEW d \in Clients
          PROVE  cTrig'[d][l] \notin {"read", "write"}
      <3>1. ASSUME NEW ls \in Calls, trigLinks(c, ls) PROVE FALSE
        BY <2>1, <3>1, BoundsAssumption DEF trigLinks, CountsOK, FunnelInv, Funnel
      <3>2. ASSUME NEW k \in Links, trigLink(c, k) PROVE cTrig'[d][l] \notin {"read", "write"}
        BY <2>1, <3>2 DEF trigLink, trigLinkRead, trigLinkWrite, trigLinkSend, ClientsOK
      <3>3. CASE ClientStep(c) \/ callWait(c)
        BY <2>1, <3>3 DEF ClientStep, clientCountNeurons, clientCountLinks, ClientScans,
          clientSetRunning, clientPublishSleep, callWait, waitReturns
      <3> QED
        BY <2>3, <3>1, <3>2, <3>3 DEF Client
    <2>4. \A d \in Clients : cTrig'[d][l] \notin {"read", "write"}
      BY <2>1, <2>3, Frames DEF Next, vars, clients
    <2> QED
      BY <1>1, <2>2, <2>4 DEF Spent, isEntryLink
  <1>2. CASE ~isEntryLink(l)
    <2> DEFINE s == From[l]
    <2>1. Once(s) /\ s \in Neurons /\ CastOver(s, l)
      BY <1>2 DEF FunnelInv, Funnel, Spent, Once
    <2>2. Tally(s) /\ s \in succeeded
      BY <2>1 DEF FunnelInv, Tallied, CastOver
    <2>3. Before(s) = 0
      BY <2>2 DEF Tally
    <2> HIDE DEF s
    <2>4. s \in succeeded'
      BY <2>2, CountsGrow
    <2>5. \A w \in Workers : wNeuron[w] = s => wPc[w] # "process"
      <3>1. Working(s) = 0
        BY <2>1, <2>3, PlaceTypes DEF PlacesOK, Before
      <3> QED
        BY <2>1, <3>1, PlacesSeen
    <2>6. ASSUME NEW w \in Workers PROVE ~(wPc'[w] = "cast" /\ wNeuron'[w] = s)
      <3>1. ~(wPc[w] = "cast" /\ wNeuron[w] = s)
        BY <2>1 DEF CastOver
      <3>2. ASSUME NEW v \in Workers, Worker(v) PROVE ~(wPc'[w] = "cast" /\ wNeuron'[w] = s)
        BY <2>5, <3>1, <3>2 DEF Worker, runNeuronWorker, setActivated, setInLinksInit,
          setOutLinksWait, ContinueCast, processOk, processError, publishTryCast, workers,
          WorkersOK
      <3> QED
        BY <3>1, <3>2, Frames DEF Next, vars, workers
    <2>7. /\ TryCast(s) \notin Range(bQueue')
          /\ mEvent' = TryCast(s) => mEvent = TryCast(s)
      <3>1. TryCast(s) \notin Range(bQueue)
        BY <2>1 DEF CastOver, Pending
      <3>2. CASE Maintainer
        BY <2>1, <3>1, <3>2, MaintainerEvents
      <3>3. CASE \/ \E w \in Workers : Worker(w)
                 \/ \E m \in Neurons : RetryCast(m)
                 \/ \E c \in Clients : Client(c)
        <4>1. TryCast(s) # CastAnyway(s)
          BY DEF TryCast, CastAnyway
        <4>2. ASSUME NEW w \in Workers, publishTryCast(w), wNeuron[w] = s PROVE FALSE
          BY <2>1, <4>2 DEF publishTryCast, CastOver
        <4>3. UNCHANGED maintainer /\ TryCast(s) \notin Range(bQueue')
          BY <2>1, <3>1, <3>3, <4>1, <4>2, OtherEvents
        <4> QED
          BY <4>3 DEF maintainer, mLoop
      <3>4. CASE UNCHANGED vars
        BY <3>1, <3>4 DEF vars, maintainer, mLoop
      <3> QED
        BY <3>2, <3>3, <3>4 DEF Next
    <2>8. mEvent' = TryCast(s) => l \in Visited'
      BY <2>1, <2>7, VisitedGrows DEF CastOver
    <2>9. CastOver(s, l)'
      BY <2>4, <2>6, <2>7, <2>8 DEF CastOver, Pending, TryCast
    <2> QED
      BY <1>2, <2>9 DEF Spent, isEntryLink, s
  <1> QED
    BY <1>1, <1>2

\* A cast writes only a link that is not spent, and spends it.
LEMMA CastSpends ==
  ASSUME TypeOK, FunnelInv, castWrite, NEW l \in Links, l = mGroup[mIdx], To[l] # EndNeuron
  PROVE  ~Spent(l) /\ Spent(l)'
  <1> USE DEF TypeOK
  <1> DEFINE s == From[l]
  <1>1. mEvent.id = s /\ s \in Neurons /\ mIdx \in 1..Len(mGroup)
    BY SelectedLink DEF castWrite, MaintainerOK, EventOK, CastOK, ScanOK
  <1>2. mEvent = TryCast(s)
    BY <1>1, NoCastAnyway DEF castWrite, FunnelInv, Funnel
  <1>3. ~isEntryLink(l)
    BY <1>1, TopologyAssumption DEF isEntryLink
  <1>4. Once(s) /\ Tally(s)
    BY <1>1, <1>3 DEF FunnelInv, Funnel, Tallied
  <1>5. l \notin Visited
    BY <1>1, <1>4 DEF FunnelInv, Unvisited, castWrite
  <1>6. s \in succeeded
    BY <1>1, <1>2 DEF FunnelInv, CastSource
  <1>7. QueuedCasts(s) = 0 /\ Casting(s) = 0
    <2>1. HeldCast(s) = 1 /\ Before(s) \in Nat
      BY <1>1, <1>2, PlacesSeen
    <2> QED
      BY <1>4, <2>1, PlaceTypes DEF Tally, After, PlacesOK
  <1>8. ~Pending(TryCast(s)) /\ \A w \in Workers : ~(wPc[w] = "cast" /\ wNeuron[w] = s)
    BY <1>1, <1>7, PlacesSeen
  <1>9. /\ mEvent' = mEvent /\ mGroup' = mGroup /\ mIdx' = mIdx + 1
        /\ UNCHANGED << bQueue, succeeded, wPc, wNeuron >>
    BY DEF castWrite, counts, workers
  <1>10. l \in Visited'
    BY <1>1, <1>9 DEF Visited
  <1>11. ~Spent(l)
    BY <1>1, <1>2, <1>3, <1>5 DEF Spent, CastOver
  <1>12. CastOver(s, l)'
    BY <1>6, <1>8, <1>9, <1>10 DEF CastOver, Pending, TryCast
  <1> QED
    BY <1>3, <1>11, <1>12 DEF Spent, isEntryLink

\* So does a client.
LEMMA CallSpends ==
  ASSUME TypeOK, FunnelInv, NEW c \in Clients, NEW l \in Links, trigLinkWrite(c, l)
  PROVE  ~Spent(l) /\ Spent(l)'
  <1> USE DEF TypeOK
  <1>1. cTrig[c][l] = "write"
    BY DEF trigLinkWrite
  <1>2. isEntryLink(l)
    BY <1>1 DEF FunnelInv, Funnel, CalledLinks, EntryLinks
  <1>3. calls > 0
    BY <1>1, BoundsAssumption DEF FunnelInv, OneCall, CountsOK
  <1>4. \A d \in Clients : cTrig'[d][l] \notin {"read", "write"}
    <2>1. ASSUME NEW d \in Clients, d # c PROVE cTrig'[d][l] = "none"
      BY <1>1, <2>1 DEF trigLinkWrite, ClientsOK, FunnelInv, OneCall
    <2>2. cTrig'[c][l] = "send"
      BY DEF trigLinkWrite, ClientsOK
    <2> QED
      BY <2>1, <2>2
  <1>5. calls' = calls
    BY DEF trigLinkWrite, counts
  <1> QED
    BY <1>1, <1>2, <1>3, <1>4, <1>5 DEF Spent, isEntryLink

\* A link that becomes Ready was not spent, and is.
LEMMA WriteSpends ==
  ASSUME TypeOK, FunnelInv, [Next]_vars, NEW l \in Links, To[l] # EndNeuron,
         linkState[l] # "Ready", linkState'[l] = "Ready"
  PROVE  ~Spent(l) /\ Spent(l)'
  <1>1. CASE castWrite /\ l = mGroup[mIdx]
    BY <1>1, CastSpends
  <1>2. ASSUME NEW c \in Clients, trigLinkWrite(c, l) PROVE ~Spent(l) /\ Spent(l)'
    BY <1>2, CallSpends
  <1> QED
    BY <1>1, <1>2, LinkWriters

\* The tally is kept by a step that adds nothing and ends no run of the neuron,
LEMMA TallyKept ==
  ASSUME TypeOK, TypeOK', FunnelInv, [Next]_vars, NEW m \in Neurons, Once(m),
         Before(m)' <= Before(m), After(m)' <= After(m),
         m \in succeeded' <=> m \in succeeded, m \in failed' <=> m \in failed
  PROVE  Tally(m)'
  <1>1. Tally(m) /\ Before(m) \in Nat /\ After(m) \in Nat
    BY PlacesSeen DEF FunnelInv, Tallied
  <1>2. Before(m)' \in Nat /\ After(m)' \in Nat
    BY PlaceTypesNext DEF PlacesOK, Before, After
  <1>3. ASSUME Before(m)' + After(m)' > 0 \/ m \in succeeded' \cup failed', NEW l \in Links,
               To[l] = m
        PROVE  Spent(l)'
    <2>1. Before(m) + After(m) > 0 \/ m \in succeeded \cup failed
      BY <1>1, <1>2, <1>3
    <2>2. Spent(l) /\ To[l] # EndNeuron
      BY <1>1, <1>3, <2>1 DEF Tally, Once
    <2> QED
      BY <2>2, SpentStep
  <1>4. /\ Before(m)' + After(m)' <= 1
        /\ m \in succeeded' \cup failed' => Before(m)' = 0
        /\ m \in failed' => After(m)' = 0 /\ m \notin succeeded'
    BY <1>1, <1>2 DEF Tally
  <1> QED
    BY <1>3, <1>4 DEF Tally

\* by the step that writes its link,
LEMMA TallyBegins ==
  ASSUME TypeOK, TypeOK', FunnelInv, NEW m \in Neurons, Once(m), NEW k \in Links, To[k] = m,
         ~Spent(k), Spent(k)', Before(m)' <= Before(m) + 1, After(m)' <= After(m),
         UNCHANGED << succeeded, failed >>
  PROVE  Tally(m)'
  <1>1. Tally(m) /\ Before(m) \in Nat /\ After(m) \in Nat
    BY PlacesSeen DEF FunnelInv, Tallied
  <1>2. Before(m)' \in Nat /\ After(m)' \in Nat
    BY PlaceTypesNext DEF PlacesOK, Before, After
  <1>3. Before(m) = 0 /\ After(m) = 0 /\ m \notin succeeded \cup failed
    BY <1>1 DEF Tally
  <1>4. \A l \in Links : To[l] = m => Spent(l)'
    BY DEF Once
  <1>5. Before(m)' + After(m)' <= 1 /\ m \notin succeeded' \cup failed'
    BY <1>1, <1>2, <1>3
  <1> QED
    BY <1>4, <1>5 DEF Tally

\* and by the step in which its processor returns.
LEMMA TallyEnds ==
  ASSUME TypeOK, TypeOK', FunnelInv, [Next]_vars, NEW w \in Workers,
         processOk(w) \/ processError(w), NEW m \in Neurons, Once(m), wNeuron[w] = m
  PROVE  Tally(m)'
  <1>1. Tally(m) /\ Before(m) \in Nat /\ After(m) \in Nat
    BY PlacesSeen DEF FunnelInv, Tallied
  <1>2. Before(m)' \in Nat /\ After(m)' \in Nat
    BY PlaceTypesNext DEF PlacesOK, Before, After
  <1>3. Working(m) > 0
    BY PlacesSeen DEF processOk, processError
  <1>4. Before(m) = 1 /\ After(m) = 0 /\ m \notin succeeded \cup failed
    <2>1. Before(m) > 0
      BY <1>3, PlaceTypes DEF PlacesOK, Before
    <2> QED
      BY <1>1, <2>1 DEF Tally
  <1>5. ASSUME NEW l \in Links, To[l] = m PROVE Spent(l)'
    <2>1. Spent(l) /\ To[l] # EndNeuron
      BY <1>1, <1>4, <1>5 DEF Tally, Once
    <2> QED
      BY <2>1, SpentStep
  <1>6. /\ Before(m)' = 0 /\ Before(m)' + After(m)' <= 1
        /\ processError(w) => After(m)' = 0
    <2>1. Worker(w) /\ MaxContinueCast = 0
      BY DEF Worker, FunnelInv, Funnel
    <2>2. /\ Before(m)' + After(m)' <= Before(m) + After(m)
          /\ Before(m)' = Before(m) - Count(wNeuron[w] = m)
          /\ ~(processOk(w) /\ wNeuron[w] = m) => After(m)' <= After(m)
      BY <2>1, WorkerPlaces
    <2>3. processError(w) => ~processOk(w)
      BY DEF processError, processOk, TypeOK, WorkersOK
    <2> QED
      BY <1>2, <1>4, <2>2, <2>3 DEF Count
  <1>7. m \in failed' => processError(w) /\ m \notin succeeded'
    BY <1>4 DEF processOk, processError
  <1> QED
    BY <1>5, <1>6, <1>7 DEF Tally

\* Every neuron with one in-link is run once.
LEMMA TallyStep ==
  ASSUME TypeOK, TypeOK', FunnelInv, [Next]_vars
  PROVE  Tallied'
  <1> SUFFICES ASSUME NEW m \in Neurons, Once(m) PROVE Tally(m)'
    BY DEF Tallied, Once
  <1>0. /\ MaxContinueCast = 0 /\ OneCall /\ m # EndNeuron
        /\ Before(m) \in Nat /\ After(m) \in Nat
    BY PlacesSeen DEF FunnelInv, Funnel, Once
  <1>1. CASE Maintainer
    <2>1. UNCHANGED << succeeded, failed >>
      BY <1>1 DEF counts, Maintainer, runBrainMaintainer, handleLinkReady, tryActivateNeuron,
        shouldActivate, testGroup, NextGroup, AcceptGroup, publishEnd, enqueueNeuron, neuronCast,
        castSelected, castWrite, castSend, castUnselected, castRest, castReset, NextVisit,
        SetLinks, countNeurons, countLinks, setRunning, publishSleep, forceSleepLinks,
        forceSleepNeurons, forceSleepState
    <2>2. /\ After(m)' <= After(m)
          /\ ~castWrite => Before(m)' <= Before(m)
          /\ castWrite => Before(m)' = Before(m) + Count(To[mGroup[mIdx]] = m)
      BY <1>1, MaintainerPlaces
    <2>3. CASE castWrite /\ To[mGroup[mIdx]] = m
      <3>1. PICK l \in Links : l = mGroup[mIdx]
        BY <2>3, SelectedLink DEF castWrite, TypeOK, MaintainerOK, EventOK, CastOK, ScanOK
      <3>2. ~Spent(l) /\ Spent(l)'
        BY <1>0, <2>3, <3>1, CastSpends
      <3>3. Before(m)' <= Before(m) + 1
        BY <1>0, <2>2, <2>3 DEF Count
      <3> QED
        BY <2>1, <2>2, <2>3, <3>1, <3>2, <3>3, TallyBegins
    <2>4. CASE ~(castWrite /\ To[mGroup[mIdx]] = m)
      <3>1. Before(m)' <= Before(m)
        BY <1>0, <2>2, <2>4 DEF Count
      <3> QED
        BY <2>1, <2>2, <3>1, TallyKept
    <2> QED
      BY <2>3, <2>4
  <1>2. ASSUME NEW w \in Workers, Worker(w) PROVE Tally(m)'
    <2>1. CASE (processOk(w) \/ processError(w)) /\ wNeuron[w] = m
      BY <2>1, TallyEnds
    <2>2. CASE ~((processOk(w) \/ processError(w)) /\ wNeuron[w] = m)
      <3>1. Before(m)' <= Before(m) /\ After(m)' <= After(m)
        BY <1>0, <1>2, <2>2, WorkerPlaces
      <3>2. (m \in succeeded' <=> m \in succeeded) /\ (m \in failed' <=> m \in failed)
        BY <1>2, <2>2 DEF counts, Worker, runNeuronWorker, setActivated, setInLinksInit,
          setOutLinksWait, ContinueCast, processOk, processError, publishTryCast
      <3> QED
        BY <3>1, <3>2, TallyKept
    <2> QED
      BY <2>1, <2>2
  <1>3. ASSUME NEW c \in Clients, Client(c) PROVE Tally(m)'
    <2>1. /\ After(m)' = After(m) /\ Before(m)' <= Before(m) + 1
          /\ (\A l \in Links : To[l] = m => ~trigLinkWrite(c, l)) => Before(m)' <= Before(m)
      BY <1>0, <1>3, ClientPlaces
    <2>2. UNCHANGED << succeeded, failed >>
      BY <1>3 DEF counts, Client, ClientStep, trigLinks, trigLink, trigLinkRead, trigLinkWrite,
        trigLinkSend, clientCountNeurons, clientCountLinks, ClientScans, clientSetRunning,
        clientPublishSleep, callWait, waitReturns
    <2>3. ASSUME NEW l \in Links, To[l] = m, trigLinkWrite(c, l) PROVE Tally(m)'
      <3>1. ~Spent(l) /\ Spent(l)'
        BY <2>3, CallSpends
      <3>2. After(m)' <= After(m)
        BY <1>0, <2>1
      <3> QED
        BY <2>1, <2>2, <2>3, <3>1, <3>2, TallyBegins
    <2>4. CASE \A l \in Links : To[l] = m => ~trigLinkWrite(c, l)
      <3>1. After(m)' <= After(m)
        BY <1>0, <2>1
      <3> QED
        BY <2>1, <2>2, <2>4, <3>1, TallyKept
    <2> QED
      BY <2>3, <2>4
  <1>4. ASSUME NEW n \in Neurons, RetryCast(n) PROVE FALSE
    BY <1>4, NoCastAnyway DEF FunnelInv, Funnel
  <1>5. CASE UNCHANGED vars
    <2>1. /\ UNCHANGED << bQueue, nQueue, mEvent, mPc, mGroup, mIdx, cTrig, workers >>
          /\ UNCHANGED << succeeded, failed >>
      BY <1>5 DEF vars, counts, maintainer, mLoop, clients
    <2>2. Before(m)' <= Before(m) /\ After(m)' <= After(m)
      <3>1. Before(m)' = Before(m) /\ After(m)' = After(m)
        BY <2>1, KnockStays, Stays DEF Before, After
      <3> QED
        BY <1>0, <3>1
    <2> QED
      BY <2>1, <2>2, TallyKept
  <1> QED
    BY <1>1, <1>2, <1>3, <1>4, <1>5 DEF Next

\* A link on Wait that neuronCast reads has not been visited.
LEMMA UnvisitedStep ==
  ASSUME TypeOK, TypeOK', WaitLinkOwned, FunnelInv, [Next]_vars
  PROVE  Unvisited'
  <1> USE DEF TypeOK
  <1> SUFFICES ASSUME mPc' = "castWrite", Once(mEvent'.id)
               PROVE  mGroup'[mIdx'] \notin Visited'
    BY DEF Unvisited, Once
  <1>1. CASE UNCHANGED maintainer
    BY <1>1 DEF maintainer, mLoop, FunnelInv, Unvisited, Visited
  <1>2. CASE Maintainer
    <2>1. castSelected /\ UNCHANGED << mGroup, mIdx, mEvent >>
      BY <1>2, RangeTail, EventFields DEF Maintainer, runBrainMaintainer, handleLinkReady,
        tryActivateNeuron, shouldActivate, testGroup, NextGroup, AcceptGroup, publishEnd,
        enqueueNeuron, neuronCast, castSelected, castWrite, castSend, castUnselected, castRest,
        castReset, NextVisit, SetLinks, countNeurons, countLinks, setRunning, publishSleep,
        forceSleepLinks, forceSleepNeurons, forceSleepState, HandlerDone, QueuesOK
    <2> DEFINE l == mGroup[mIdx]
               s == mEvent.id
    <2>2. l \in Links /\ From[l] = s /\ s \in Neurons
      BY <2>1, SelectedLink DEF castSelected
    <2>3. mEvent = TryCast(s) /\ continued[s] = 0
      BY <2>1, NoCastAnyway DEF castSelected, FunnelInv, Funnel
    <2>4. ~isCastAnyway
      BY <2>3 DEF isCastAnyway, TryCast
    <2>5. linkState[l] = "Wait"
      BY <2>1, <2>4 DEF castSelected
    <2>6. Once(s) /\ Tally(s)
      BY <2>1, <2>2 DEF FunnelInv, Tallied
    <2>7. /\ Before(s) = 0 /\ QueuedCasts(s) = 0 /\ Casting(s) = 0 /\ s \notin failed
      <3>1. HeldCast(s) = 1 /\ Before(s) \in Nat
        BY <2>2, <2>3, PlacesSeen
      <3> QED
        BY <2>6, <3>1, PlaceTypes DEF Tally, After, PlacesOK
    <2>8. ~Runs(s)
      <3>1. Working(s) = 0
        BY <2>7, PlaceTypes DEF Before, PlacesOK
      <3> QED
        BY <2>2, <2>7, <3>1, PlacesSeen DEF Runs, WorkersOK
    <2>9. ~Pending(TryCast(s))
      BY <2>2, <2>7, PlacesSeen
    <2>10. l \notin Visited
      BY <2>2, <2>3, <2>5, <2>7, <2>8, <2>9 DEF WaitLinkOwned, CastAhead, Visited
    <2> QED
      BY <2>1, <2>10 DEF Visited
  <1> QED
    BY <1>1, <1>2, Frames DEF Next, vars

\* Only spent links become Ready.
LEMMA ReadySpentStep ==
  ASSUME TypeOK, FunnelInv, [Next]_vars
  PROVE  ReadySpent'
  <1> SUFFICES ASSUME NEW l \in Links, linkState'[l] = "Ready", To[l] # EndNeuron
               PROVE  Spent(l)'
    BY DEF ReadySpent
  <1> QED
    BY SpentStep, WriteSpends DEF FunnelInv, ReadySpent

\* A group of spent links stays one, and no link of it becomes Ready again.
LEMMA GroupStep ==
  ASSUME TypeOK, FunnelInv, [Next]_vars, NEW n \in Neurons \ {EndNeuron}
  PROVE  /\ GroupSpent(n) => GroupSpent(n)'
         /\ GroupTaken(n) => GroupTaken(n)'
  <1>1. \A g \in TriggerGroups[n] : \A l \in g : l \in Links /\ To[l] # EndNeuron
    BY GroupsAssumption
  <1>2. \A l \in Links : To[l] # EndNeuron /\ Spent(l) => Spent(l)'
    BY SpentStep
  <1>3. \A l \in Links : To[l] # EndNeuron /\ Spent(l) /\ linkState[l] # "Ready"
                           => linkState'[l] # "Ready"
    BY WriteSpends
  <1> QED
    BY <1>1, <1>2, <1>3 DEF GroupSpent, GroupTaken

\* A test begins with a whole group, and goes on over links that are Ready.
LEMMA GroupSeenStep ==
  ASSUME TypeOK, FunnelInv, [Next]_vars, NEW n \in Neurons \ {EndNeuron},
         mPc' = "group", mEvent'.id = n
  PROVE  GroupSeen(n)'
  <1> USE DEF TypeOK
  <1>0. \A g \in TriggerGroups[n] : \A l \in g : l \in Links /\ To[l] = n
    BY GroupsAssumption
  <1>1. ASSUME mPc = "group", mEvent' = mEvent, mLeft' = mLeft \/ mLeft' = mLeft \ ReadyLinks
        PROVE  GroupSeen(n)'
    <2>1. PICK g \in TriggerGroups[n] : g # {} /\ mLeft \subseteq g /\ \A l \in g \ mLeft : Spent(l)
      BY <1>1 DEF FunnelInv, GroupSeen
    <2>2. \A l \in g \ mLeft' : Spent(l)
      BY <1>0, <1>1, <2>1 DEF FunnelInv, ReadySpent, ReadyLinks
    <2>3. \A l \in g \ mLeft' : Spent(l)'
      BY <1>0, <2>2, SpentStep
    <2>4. mLeft' \subseteq g
      BY <1>1, <2>1
    <2> QED
      BY <2>1, <2>3, <2>4 DEF GroupSeen
  <1>2. ASSUME NEW gs, NextGroup(gs), gs \subseteq TriggerGroups[mEvent.id] \ {{}}
        PROVE  GroupSeen(n)'
    <2>1. PICK g \in gs : mLeft' = g /\ mEvent' = mEvent
      BY <1>2 DEF NextGroup, HandlerDone
    <2> QED
      BY <1>2, <2>1 DEF GroupSeen
  <1>3. CASE shouldActivate
    BY <1>2, <1>3 DEF shouldActivate, HandlerDone
  <1>4. CASE testGroup
    <2>1. CASE NextGroup(mTodo)
      BY <1>2, <1>4, <2>1 DEF testGroup, MaintainerOK, ScanOK
    <2>2. CASE ~NextGroup(mTodo)
      BY <1>1, <1>4, <2>2 DEF testGroup, AcceptGroup
    <2> QED
      BY <2>1, <2>2
  <1>5. CASE mPc = "group" /\ UNCHANGED maintainer
    BY <1>1, <1>5 DEF maintainer, mLoop
  <1> QED
    BY <1>3, <1>4, <1>5, PcStep

\* An activation begins in testGroup, when the rest of a group is Ready.
LEMMA ChosenBegins ==
  ASSUME TypeOK, [Next]_vars, NEW n \in Neurons, ~Chosen(n), Chosen(n)'
  PROVE  mPc = "group" /\ mEvent.id = n /\ mLeft \subseteq ReadyLinks
  <1> USE DEF TypeOK
  <1>1. mPc' = "enqueue" /\ mEvent'.id = n =>
          mPc = "group" /\ mEvent.id = n /\ mLeft \subseteq ReadyLinks
    <2>1. mPc' = "enqueue" /\ testGroup =>
            mPc = "group" /\ mEvent' = mEvent /\ mLeft \subseteq ReadyLinks
      BY DEF testGroup, NextGroup, AcceptGroup, HandlerDone
    <2>2. ~(mPc = "enqueue" /\ UNCHANGED maintainer /\ mEvent'.id = n)
      BY DEF Chosen, maintainer, mLoop
    <2> QED
      BY <2>1, <2>2, PcStep
  <1>2. ~Queued(n)'
    <2>1. ~Queued(n)
      BY DEF Chosen
    <2>2. CASE enqueueNeuron
      <3>1. mEvent.id \in Neurons \ {EndNeuron} /\ mEvent.id # n
        BY <2>2, HandledEvent DEF enqueueNeuron, MaintainerOK, EventOK, TestPcs, Chosen
      <3> QED
        BY <2>1, <2>2, <3>1, RangeAppend DEF enqueueNeuron, publishEventActivateNeuron, Queued,
          QueuesOK
    <2>3. ASSUME NEW w \in Workers, runNeuronWorker(w) PROVE ~Queued(n)'
      BY <2>1, <2>3, RangeTail DEF runNeuronWorker, Queued, QueuesOK
    <2>4. CASE nQueue' = nQueue
      BY <2>1, <2>4 DEF Queued
    <2>5. Maintainer => enqueueNeuron \/ nQueue' = nQueue
      BY DEF Maintainer, runBrainMaintainer, handleLinkReady, tryActivateNeuron, shouldActivate,
        testGroup, NextGroup, AcceptGroup, publishEnd, neuronCast, castSelected, castWrite,
        castSend, castUnselected, castRest, castReset, NextVisit, SetLinks, countNeurons,
        countLinks, setRunning, publishSleep, forceSleepLinks, forceSleepNeurons, forceSleepState
    <2>6. \A w \in Workers : Worker(w) => runNeuronWorker(w) \/ nQueue' = nQueue
      BY DEF Worker, setActivated, setInLinksInit, setOutLinksWait, ContinueCast, processOk,
        processError, publishTryCast
    <2> QED
      BY <2>2, <2>3, <2>4, <2>5, <2>6, Frames DEF Next, vars
  <1>3. ASSUME NEW v \in Workers, wNeuron'[v] = n, wPc'[v] \in {"activate", "inLinks"}
        PROVE  FALSE
    <2>1. ~(wNeuron[v] = n /\ wPc[v] \in {"activate", "inLinks"}) /\ ~Queued(n)
      BY DEF Chosen
    <2>2. ASSUME NEW w \in Workers, runNeuronWorker(w) PROVE FALSE
      <3>1. Head(nQueue) \in Range(nQueue)
        BY <2>2, RangeTail DEF runNeuronWorker, QueuesOK
      <3> QED
        BY <1>3, <2>1, <2>2, <3>1 DEF runNeuronWorker, Queued, WorkersOK
    <2>3. ASSUME NEW w \in Workers, Worker(w) PROVE FALSE
      BY <1>3, <2>1, <2>2, <2>3 DEF Worker, setActivated, setInLinksInit, setOutLinksWait,
        ContinueCast, processOk, processError, publishTryCast, workers, WorkersOK
    <2>4. CASE UNCHANGED workers
      BY <1>3, <2>1, <2>4 DEF workers
    <2> QED
      BY <2>3, <2>4, Frames DEF Next, vars
  <1> QED
    BY <1>1, <1>2, <1>3 DEF Chosen

\* The groups of the activations and of the runs.
LEMMA RunGroupsStep ==
  ASSUME TypeOK, FunnelInv, [Next]_vars, NEW n \in Neurons \ {EndNeuron}
  PROVE  /\ Chosen(n)' => GroupSpent(n)'
         /\ Taken(n)' => GroupTaken(n)'
  <1> USE DEF TypeOK
  <1>0. /\ Chosen(n) => GroupSpent(n)
        /\ Taken(n) => GroupTaken(n)
        /\ \A g \in TriggerGroups[n] : \A l \in g : l \in Links /\ To[l] = n
    BY GroupsAssumption DEF FunnelInv
  <1>1. ASSUME Chosen(n)' PROVE GroupSpent(n)'
    <2>1. CASE Chosen(n)
      BY <1>0, <2>1, GroupStep
    <2>2. CASE ~Chosen(n)
      <3>1. mPc = "group" /\ mEvent.id = n /\ mLeft \subseteq ReadyLinks
        BY <1>1, <2>2, ChosenBegins
      <3>2. GroupSpent(n)
        BY <1>0, <3>1 DEF GroupSeen, ReadyLinks, GroupSpent, FunnelInv, ReadySpent
      <3> QED
        BY <3>2, GroupStep
    <2> QED
      BY <2>1, <2>2
  <1>2. ASSUME Taken(n)' PROVE GroupTaken(n)'
    <2>1. CASE Taken(n)
      BY <1>0, <2>1, GroupStep
    <2>2. CASE ~Taken(n)
      <3>1. PICK v \in Workers : wNeuron'[v] = n /\ wPc'[v] \in {"outLinks", "process"}
        BY <1>2 DEF Taken
      <3>2. ~(wNeuron[v] = n /\ wPc[v] \in {"outLinks", "process"})
        BY <2>2 DEF Taken
      <3>3. setInLinksInit(v) /\ wNeuron[v] = n
        <4>1. ASSUME NEW w \in Workers, Worker(w) PROVE setInLinksInit(v) /\ wNeuron[v] = n
          BY <3>1, <3>2, <4>1 DEF Worker, runNeuronWorker, setActivated, setInLinksInit,
            setOutLinksWait, ContinueCast, processOk, processError, publishTryCast, workers,
            WorkersOK
        <4>2. CASE UNCHANGED workers
          BY <3>1, <3>2, <4>2 DEF workers
        <4> QED
          BY <4>1, <4>2, Frames DEF Next, vars
      <3>4. GroupSpent(n)
        BY <1>0, <3>3 DEF Chosen, setInLinksInit
      <3>5. PICK g \in TriggerGroups[n] : g # {} /\ \A l \in g : Spent(l)
        BY <3>4 DEF GroupSpent
      <3>6. \A l \in g : linkState'[l] = "Init"
        BY <1>0, <3>3 DEF setInLinksInit, InLinks
      <3>7. \A l \in g : Spent(l)'
        BY <1>0, <3>5, SpentStep
      <3> QED
        BY <3>5, <3>6, <3>7 DEF GroupTaken
    <2> QED
      BY <2>1, <2>2
  <1> QED
    BY <1>1, <1>2

-----------------------------------------------------------------------------
(* A funnel strands no trigger group.                                       *)

\* Nothing is under way in a brain that has just been started.
LEMMA FunnelInit == Init /\ Funnel => FunnelInv
  <1> SUFFICES ASSUME Init, Funnel PROVE FunnelInv
    OBVIOUS
  <1>1. TypeOK
    BY TypeInit
  <1>2. OneCall /\ CalledLinks /\ Unvisited /\ ReadySpent
    BY DEF Init, OneCall, CalledLinks, Unvisited, ReadySpent
  <1>3. CastSource
    BY DEF Init, CastSource, Pending, Range, NoEvent, TryCast, CastAnyway
  <1>4. ASSUME NEW m \in Neurons PROVE Tally(m)
    <2>1. /\ QueuedKnocks(m) = 0 /\ QueuedDue(m) = 0 /\ QueuedCasts(m) = 0
      BY FS_EmptySet DEF Init, QueuedKnocks, QueuedDue, QueuedCasts, Positions
    <2>2. HeldKnock(m) = 0 /\ HeldCast(m) = 0
      BY KnockKinds DEF Init, HeldKnock, HeldCast, Count, NoEvent, TryCast, CastAnyway
    <2>3. OwedKnock(m) = 0 /\ CalledKnock(m) = 0
      BY DEF Init, OwedKnock, CalledKnock, Count
    <2>4. Working(m) = 0 /\ Casting(m) = 0
      <3>1. /\ {w \in Workers : wNeuron[w] = m /\ wPc[w] \in {"cast"}} = {}
            /\ {w \in Workers : wNeuron[w] = m
                  /\ wPc[w] \in {"activate", "inLinks", "outLinks", "process"}} = {}
        BY DEF Init
      <3> QED
        BY <3>1, FS_EmptySet DEF Working, Casting, CountWorkers
    <2> QED
      BY <2>1, <2>2, <2>3, <2>4 DEF Tally, Before, After, Init
  <1>5. \A n \in Neurons \ {EndNeuron} : ~Chosen(n) /\ ~Taken(n)
    BY DEF Init, Chosen, Taken, Queued, Range
  <1>6. mPc # "group"
    BY DEF Init
  <1> QED
    BY <1>2, <1>3, <1>4, <1>5, <1>6 DEF FunnelInv, Tallied

\* FunnelInv is inductive, given what is known of every brain.
LEMMA FunnelStep ==
  ASSUME TypeOK, TypeOK', WaitLinkOwned, FunnelInv, [Next]_vars
  PROVE  FunnelInv'
  <1>1. Funnel'
    BY DEF FunnelInv, Funnel, Once, isEntryLink, EntryLinks
  <1>2. OneCall' /\ CastSource' /\ CalledLinks'
    BY OneCallStep, CastSourceStep, CalledLinksStep DEF FunnelInv, Funnel
  <1>3. Tallied' /\ Unvisited' /\ ReadySpent'
    BY TallyStep, UnvisitedStep, ReadySpentStep
  <1>4. \A n \in Neurons \ {EndNeuron} : /\ Chosen(n)' => GroupSpent(n)'
                                         /\ Taken(n)' => GroupTaken(n)'
                                         /\ mPc' = "group" /\ mEvent'.id = n => GroupSeen(n)'
    BY RunGroupsStep, GroupSeenStep
  <1> QED
    BY <1>1, <1>2, <1>3, <1>4 DEF FunnelInv

\* FunnelInv holds of every funnel.
LEMMA FunnelAlways == Spec /\ Funnel => []FunnelInv
  <1>1. TypeOK /\ TypeOK' /\ WaitLinkOwned /\ FunnelInv /\ [Next]_vars => FunnelInv'
    BY FunnelStep
  <1> QED
    BY <1>1, FunnelInit, TypeCorrect, WaitingLinkHasOwner, PTL DEF Spec

\* An Active neuron whose event is dropped has no complete group: either its run
\* has yet to take the links, or it has, and every group shares one with it.
LEMMA DroppedInVain ==
  ASSUME TypeOK, ActiveHasWorker, FunnelInv, NEW n \in Neurons, tryActivateNeuron,
         neuronState[n] = "Active"
  PROVE  ~Stranded(n)'
  <1> SUFFICES ASSUME Stranded(n)' PROVE FALSE
    OBVIOUS
  <1>1. UNCHANGED << linkState, wPc, wNeuron >>
    BY DEF tryActivateNeuron, status, workers
  <1>2. PICK w \in Workers : wNeuron[w] = n /\ wPc[w] \in {"inLinks", "outLinks", "process"}
    BY DEF ActiveHasWorker
  <1>3. n # EndNeuron
    BY <1>2 DEF TypeOK, WorkersOK
  <1>4. CASE wPc[w] = "inLinks"
    <2>1. Attended(n)'
      BY <1>1, <1>2, <1>4 DEF Attended
    <2> QED
      BY <2>1 DEF Stranded
  <1>5. CASE wPc[w] \in {"outLinks", "process"}
    <2>1. PICK g \in TriggerGroups[n] : g # {} /\ \A l \in g : linkState[l] # "Ready"
      BY <1>2, <1>3, <1>5 DEF FunnelInv, Taken, GroupTaken
    <2>2. PICK h \in TriggerGroups[n] : h # {} /\ \A l \in h : linkState[l] = "Ready"
      BY <1>1 DEF Stranded, Complete
    <2>3. g \cap h # {}
      BY <1>3, <2>1, <2>2 DEF FunnelInv, Funnel
    <2> QED
      BY <2>1, <2>2, <2>3
  <1> QED
    BY <1>2, <1>4, <1>5

\* One call of Entry on a funnel: every trigger group that becomes complete is
\* acted on, so that none is left when everything has drained, whatever fails and
\* however the goroutines interleave.
THEOREM FunnelNeverStrands == Spec /\ Funnel => []NoStrandedTrigger
  <1>1. Init => NoneStranded
    BY GroupsAssumption DEF Init, NoneStranded, Stranded, Complete
  <1>2. TypeOK /\ TrigInCall /\ ScanInv /\ ActiveHasWorker /\ FunnelInv /\ NoneStranded
          /\ [Next]_vars
          => NoneStranded'
    <2> SUFFICES ASSUME TypeOK, TrigInCall, ScanInv, ActiveHasWorker, FunnelInv, NoneStranded,
                        [Next]_vars, NEW n \in Neurons, Stranded(n)'
                 PROVE  FALSE
      BY DEF NoneStranded
    <2>1. tryActivateNeuron /\ neuronState[n] = "Active"
      BY StrandedStep DEF NoneStranded
    <2> QED
      BY <2>1, DroppedInVain
  <1>3. TypeOK /\ TrigInCall /\ NoneStranded => NoStrandedTrigger
    BY QuietUnattended DEF NoneStranded, Stranded, NoStrandedTrigger
  <1> QED
    BY <1>1, <1>2, <1>3, TypeCorrect, TrigInCallAlways, ScanAlways, ActiveNeuronHasWorker,
      FunnelAlways, PTL DEF Spec

\* A funnel in which no neuron but END joins links: README.md:471 is kept, a
\* neuron is taken up at most once.
THEOREM TreeActivatesOnce ==
    Spec /\ Funnel /\ (\A n \in Neurons \ {EndNeuron} : Once(n)) => ActivatedOnce
  <1> DEFINE Tree == \A n \in Neurons \ {EndNeuron} : Once(n)
             First == \A w \in Workers : wPc[w] = "idle" /\ wPc'[w] = "activate" =>
                         wNeuron'[w] \notin succeeded /\ ~Runs(wNeuron'[w])
  <1>1. TypeOK /\ FunnelInv /\ Tree /\ [Next]_vars => [First]_vars
    <2> SUFFICES ASSUME TypeOK, FunnelInv, Tree, Next, NEW w \in Workers,
                        wPc[w] = "idle", wPc'[w] = "activate"
                 PROVE  wNeuron'[w] \notin succeeded /\ ~Runs(wNeuron'[w])
      OBVIOUS
    <2> USE DEF TypeOK
    <2>1. runNeuronWorker(w)
      <3>1. ASSUME NEW v \in Workers, Worker(v) PROVE runNeuronWorker(w)
        BY <3>1 DEF Worker, runNeuronWorker, setActivated, setInLinksInit, setOutLinksWait,
          ContinueCast, processOk, processError, publishTryCast, workers, WorkersOK
      <3>2. wPc' # wPc
        OBVIOUS
      <3> QED
        BY <3>1, <3>2, Frames DEF Next, workers
    <2>2. PICK m \in Neurons \ {EndNeuron} : m = Head(nQueue)
      BY <2>1, RangeTail DEF runNeuronWorker, QueuesOK
    <2>3. wNeuron'[w] = m
      BY <2>1, <2>2 DEF runNeuronWorker, WorkersOK
    <2>4. QueuedDue(m) > 0
      <3>1. QueuedDue(m) = QueuedDue(m)' + 1
        BY <2>1, <2>2, NeuronQueueCounts DEF runNeuronWorker, Count
      <3>2. QueuedDue(m)' \in Nat
        <4>1. nQueue' \in Seq(Neurons \ {EndNeuron})
          BY <2>1, RangeTail DEF runNeuronWorker, QueuesOK
        <4>2. Cardinality(Positions(nQueue', {m})) \in Nat
          BY <4>1, PositionsFinite
        <4> QED
          BY <4>2 DEF QueuedDue, Positions
      <3> QED
        BY <3>1, <3>2
    <2>5. Tally(m)
      BY DEF FunnelInv, Tallied
    <2>6. Working(m) = 0 /\ Casting(m) = 0 /\ m \notin succeeded
      BY <2>4, <2>5, PlaceTypes DEF PlacesOK, Tally, Before, After
    <2>7. ~Runs(m)
      BY <2>6, PlacesSeen DEF Runs, WorkersOK
    <2> QED
      BY <2>3, <2>6, <2>7
  <1>2. Tree /\ [Next]_vars => Tree'
    BY DEF Once
  <1>3. Spec /\ Funnel /\ Tree => [][First]_vars
    BY <1>1, <1>2, TypeCorrect, FunnelAlways, PTL DEF Spec
  <1> QED
    BY <1>3 DEF ActivatedOnce

=============================================================================
