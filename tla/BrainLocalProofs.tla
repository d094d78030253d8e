-------------------------- MODULE BrainLocalProofs --------------------------
(***************************************************************************)
(* Safety of BrainLocal for every topology, number of workers and clients, *)
(* and length of the queues.                                               *)
(***************************************************************************)
EXTENDS BrainLocal, TLAPS

USE DEF CastPcs

-----------------------------------------------------------------------------
(* Queues and events.                                                       *)

\* A send adds its element to those of the queue.
LEMMA RangeAppend ==
  ASSUME NEW S, NEW s \in Seq(S), NEW e \in S
  PROVE  /\ Append(s, e) \in Seq(S) /\ Len(Append(s, e)) = Len(s) + 1
         /\ Range(Append(s, e)) = Range(s) \cup {e}
         /\ Append(s, e) # << >>
  <1> DEFINE t == Append(s, e)
  <1>1. /\ t \in Seq(S) /\ Len(t) = Len(s) + 1 /\ t # << >>
        /\ t[Len(t)] = e /\ \A i \in 1..Len(s) : t[i] = s[i]
    OBVIOUS
  <1>2. Range(s) \cup {e} \subseteq Range(t)
    BY <1>1 DEF Range
  <1>3. Range(t) \subseteq Range(s) \cup {e}
    <2> SUFFICES ASSUME NEW i \in 1..Len(t) PROVE t[i] \in Range(s) \cup {e}
      BY <1>1 DEF Range
    <2>1. CASE i = Len(t)
      BY <1>1, <2>1
    <2>2. CASE i # Len(t)
      <3>1. i \in 1..Len(s) /\ t[i] = s[i]
        BY <1>1, <2>2
      <3> QED
        BY <3>1 DEF Range
    <2> QED
      BY <2>1, <2>2
  <1> QED
    BY <1>1, <1>2, <1>3

\* A receive takes the head and leaves the other elements.
LEMMA RangeTail ==
  ASSUME NEW S, NEW s \in Seq(S), s # << >>
  PROVE  /\ Head(s) \in S /\ Tail(s) \in Seq(S) /\ Len(Tail(s)) = Len(s) - 1
         /\ Range(s) = Range(Tail(s)) \cup {Head(s)}
  <1>1. Range(s) \subseteq Range(Tail(s)) \cup {Head(s)}
    <2> SUFFICES ASSUME NEW i \in 1..Len(s), i # 1 PROVE s[i] \in Range(Tail(s))
      <3>1. Head(s) = s[1] /\ DOMAIN s = 1..Len(s)
        OBVIOUS
      <3> QED
        BY <3>1 DEF Range
    <2>1. i - 1 \in 1..Len(Tail(s)) /\ Tail(s)[i - 1] = s[i]
      OBVIOUS
    <2>2. DOMAIN Tail(s) = 1..Len(Tail(s))
      OBVIOUS
    <2> QED
      BY <2>1, <2>2 DEF Range
  <1>2. Range(Tail(s)) \subseteq Range(s)
    <2> SUFFICES ASSUME NEW i \in 1..Len(Tail(s)) PROVE Tail(s)[i] \in Range(s)
      BY DEF Range
    <2>1. i + 1 \in 1..Len(s) /\ Tail(s)[i] = s[i + 1]
      OBVIOUS
    <2> QED
      BY <2>1 DEF Range
  <1>3. Head(s) \in Range(s)
    BY DEF Range
  <1> QED
    BY <1>1, <1>2, <1>3

\* The elements of a queue are of its type.
LEMMA RangeType ==
  ASSUME NEW S, NEW s \in Seq(S)
  PROVE  Range(s) \subseteq S
  BY DEF Range

\* What the action of an event says about it.
LEMMA EventFields ==
  ASSUME NEW e \in Events
  PROVE  /\ e.action \in {"link_ready", "try_activate_neuron", "try_cast", "cast_anyway",
                          "brain_sleep"}
         /\ e.action = "link_ready" => e.id \in Links
         /\ e.action \in {"try_activate_neuron", "try_cast", "cast_anyway"} => e.id \in Neurons
         /\ e.action = "try_cast" <=> e = TryCast(e.id)
         /\ e.action = "cast_anyway" <=> e = CastAnyway(e.id)
         /\ e.action = "brain_sleep" <=> e = BrainSleep
  BY DEF Events, LinkReady, TryActivate, TryCast, CastAnyway, BrainSleep

\* The events the code sends.
LEMMA EventTypes ==
  /\ \A l \in Links : LinkReady(l) \in Events
  /\ \A n \in Neurons : {TryActivate(n), TryCast(n), CastAnyway(n)} \subseteq Events
  /\ BrainSleep \in Events
  /\ NoEvent.action = "none" /\ BrainSleep.action = "brain_sleep"
  BY DEF Events, NoEvent, BrainSleep

-----------------------------------------------------------------------------
(* Type correctness.                                                        *)

\* The initial state has the types.
LEMMA TypeInit == Init => TypeOK
  <1> SUFFICES ASSUME Init PROVE TypeOK
    OBVIOUS
  <1>1. StatusOK /\ QueuesOK /\ WorkersOK /\ CountsOK
    BY BoundsAssumption DEF Init, StatusOK, QueuesOK, WorkersOK, CountsOK
  <1>2. MaintainerOK
    BY DEF Init, MaintainerOK, EventOK, CastOK, ScanOK, MaintainerPcs, TestPcs
  <1>3. ClientsOK
    BY DEF Init, ClientsOK
  <1> QED
    BY <1>1, <1>2, <1>3 DEF TypeOK

\* The fields of the event the maintainer handles.
LEMMA HandledEvent ==
  ASSUME MaintainerOK
  PROVE  /\ mPc = "link_ready" => mEvent.id \in Links
         /\ mPc \in {"try_activate_neuron", "try_cast", "cast_anyway"} \cup TestPcs \cup CastPcs
               => mEvent.id \in Neurons
         /\ mPc \in {"link_ready", "try_activate_neuron", "try_cast", "cast_anyway",
                     "brain_sleep"} \cup TestPcs \cup CastPcs => mEvent \in Events
  <1>1. mEvent = NoEvent => mPc \notin {"link_ready", "try_activate_neuron", "try_cast",
              "cast_anyway", "brain_sleep"} \cup TestPcs \cup CastPcs
    BY EventTypes DEF MaintainerOK, EventOK, CastOK, TestPcs
  <1> QED
    BY <1>1, EventFields DEF MaintainerOK, EventOK, CastOK, TestPcs

\* A send keeps the type and the bound of its queue.
LEMMA SendType ==
  ASSUME QueuesOK, NEW e \in Events, publishEvent(e), UNCHANGED nQueue
  PROVE  QueuesOK'
  <1>1. bQueue' = Append(bQueue, e) /\ Len(bQueue) < BQueueLen /\ bQueue \in Seq(Events)
    BY DEF QueuesOK, publishEvent
  <1>2. bQueue' \in Seq(Events) /\ Len(bQueue') = Len(bQueue) + 1
    BY <1>1, RangeAppend
  <1> QED
    BY <1>1, <1>2, BoundsAssumption DEF QueuesOK

\* The same for the queue of neurons.
LEMMA EnqueueType ==
  ASSUME QueuesOK, NEW n \in Neurons \ {EndNeuron}, publishEventActivateNeuron(n),
         UNCHANGED bQueue
  PROVE  QueuesOK'
  <1> DEFINE S == Neurons \ {EndNeuron}
  <1>1. nQueue' = Append(nQueue, n) /\ Len(nQueue) < NQueueLen /\ nQueue \in Seq(S)
    BY DEF QueuesOK, publishEventActivateNeuron
  <1>2. nQueue' \in Seq(S) /\ Len(nQueue') = Len(nQueue) + 1
    <2> HIDE DEF S
    <2>1. n \in S
      BY DEF S
    <2> QED
      BY <1>1, <2>1, RangeAppend
  <1> QED
    BY <1>1, <1>2, BoundsAssumption DEF QueuesOK

\* When a handler is done the maintainer holds no event and no group.
LEMMA HandlerDoneType ==
  ASSUME HandlerDone
  PROVE  MaintainerOK'
  BY DEF HandlerDone, MaintainerOK, EventOK, CastOK, ScanOK, MaintainerPcs, TestPcs

\* The maintainer's types depend on its own variables alone.
LEMMA MaintainerKept ==
  ASSUME MaintainerOK, UNCHANGED maintainer
  PROVE  MaintainerOK'
  <1>1. UNCHANGED << mPc, mEvent, mGroup, mIdx, mTodo, mLeft >>
    BY DEF maintainer, mLoop
  <1>2. EventOK' /\ ScanOK'
    BY <1>1 DEF MaintainerOK, EventOK, ScanOK
  <1>3. Visits' = Visits /\ Unselected' = Unselected /\ isCastAnyway' = isCastAnyway
    BY <1>1 DEF Visits, Unselected, isCastAnyway
  <1>4. CastOK'
    BY <1>1, <1>3 DEF MaintainerOK, CastOK
  <1> QED
    BY <1>2, <1>4 DEF MaintainerOK

\* The next trigger group is one of those still to come.
LEMMA NextGroupType ==
  ASSUME MaintainerOK, mPc \in {"shouldActivate", "group"}, NEW gs, NextGroup(gs),
         gs \subseteq TriggerGroups[mEvent.id] \ {{}}
  PROVE  MaintainerOK'
  <1>1. CASE HandlerDone
    BY <1>1, HandlerDoneType
  <1>2. CASE ~HandlerDone
    <2>1. PICK g \in gs : mTodo' = gs \ {g} /\ mLeft' = g
      BY <1>2 DEF NextGroup
    <2>2. mPc' = "group" /\ UNCHANGED << mEvent, mGroup, mIdx >>
      BY <1>2 DEF NextGroup
    <2>3. g # {} /\ g \subseteq InLinks(mEvent.id)
      BY <2>1 DEF InLinks
    <2>4. EventOK' /\ CastOK'
      BY <2>2 DEF MaintainerOK, EventOK, CastOK, MaintainerPcs, TestPcs
    <2>5. ScanOK'
      BY <2>1, <2>2, <2>3 DEF ScanOK, InLinks
    <2> QED
      BY <2>4, <2>5 DEF MaintainerOK
  <1> QED
    BY <1>1, <1>2

\* The next visit is one of those still to come.
LEMMA NextVisitType ==
  ASSUME MaintainerOK, mPc \in {"cast", "castRest", "castReset"}, ~isCastAnyway,
         NEW vs, NextVisit(vs), vs \subseteq Visits
  PROVE  MaintainerOK'
  <1>1. CASE HandlerDone
    BY <1>1, HandlerDoneType
  <1>2. CASE ~HandlerDone
    <2>1. /\ mPc' = "castRest" /\ mTodo' = vs /\ mLeft' = {}
          /\ mEvent' = mEvent /\ mGroup' = mGroup /\ mIdx' = mIdx
      BY <1>2 DEF NextVisit
    <2>2. (~isCastAnyway)' /\ Visits' = Visits
      BY <2>1 DEF isCastAnyway, Visits, Unselected
    <2>3. EventOK'
      BY <2>1 DEF MaintainerOK, EventOK, MaintainerPcs, TestPcs
    <2>4. CastOK'
      BY <2>1, <2>2 DEF MaintainerOK, CastOK
    <2>5. ScanOK'
      BY <2>1 DEF ScanOK
    <2> QED
      BY <2>3, <2>4, <2>5 DEF MaintainerOK
  <1> QED
    BY <1>1, <1>2

\* The maintainer's steps keep the types.
LEMMA TypeMaintainer == TypeOK /\ Maintainer => TypeOK'
  <1> SUFFICES ASSUME TypeOK, Maintainer PROVE TypeOK'
    OBVIOUS
  <1> USE DEF TypeOK, status, counts, workers, clients
  <1>0. WorkersOK' /\ ClientsOK'
    <2>1. UNCHANGED << workers, clients >>
      BY DEF Maintainer, runBrainMaintainer, handleLinkReady, tryActivateNeuron, shouldActivate,
        testGroup, NextGroup, AcceptGroup, publishEnd, enqueueNeuron, neuronCast, castSelected,
        castWrite, castSend, castUnselected, castRest, castReset, NextVisit, SetLinks,
        countNeurons, countLinks, setRunning, publishSleep, forceSleepLinks, forceSleepNeurons,
        forceSleepState
    <2> QED
      BY <2>1 DEF WorkersOK, ClientsOK
  <1>1. CASE runBrainMaintainer
    <2>1. /\ Head(bQueue) \in Events /\ Tail(bQueue) \in Seq(Events)
          /\ Len(Tail(bQueue)) = Len(bQueue) - 1
      BY <1>1, RangeTail DEF runBrainMaintainer, QueuesOK
    <2>2. QueuesOK'
      BY <1>1, <2>1, BoundsAssumption DEF runBrainMaintainer, QueuesOK
    <2>3. MaintainerOK'
      <3>1. /\ mPc = "idle" /\ mPc' = Head(bQueue).action /\ mEvent' = Head(bQueue)
            /\ UNCHANGED << mGroup, mIdx, mTodo, mLeft >>
        BY <1>1 DEF runBrainMaintainer, mLoop
      <3>2. mPc' \in {"link_ready", "try_activate_neuron", "try_cast", "cast_anyway", "brain_sleep"}
        BY <2>1, <3>1, EventFields
      <3>3. EventOK'
        BY <2>1, <3>1, <3>2, EventFields DEF EventOK, MaintainerPcs, TestPcs
      <3>4. CastOK' /\ ScanOK'
        BY <3>1, <3>2 DEF MaintainerOK, CastOK, ScanOK
      <3> QED
        BY <3>3, <3>4 DEF MaintainerOK
    <2> QED
      BY <1>0, <1>1, <2>2, <2>3 DEF runBrainMaintainer, StatusOK, CountsOK
  <1>2. CASE handleLinkReady
    <2>1. TryActivate(To[mEvent.id]) \in Events
      BY <1>2, HandledEvent, EventTypes, TopologyAssumption DEF handleLinkReady
    <2>2. QueuesOK'
      BY <1>2, <2>1, SendType DEF handleLinkReady
    <2>3. MaintainerOK'
      BY <1>2, HandlerDoneType DEF handleLinkReady
    <2> QED
      BY <1>0, <1>2, <2>2, <2>3 DEF handleLinkReady, StatusOK, CountsOK
  <1>3. CASE tryActivateNeuron
    <2>1. MaintainerOK'
      <3>1. CASE HandlerDone
        BY <3>1, HandlerDoneType
      <3>2. CASE ~HandlerDone
        BY <1>3, <3>2 DEF tryActivateNeuron, mLoop, MaintainerOK, EventOK, CastOK, ScanOK,
          MaintainerPcs, TestPcs
      <3> QED
        BY <3>1, <3>2
    <2> QED
      BY <1>0, <1>3, <2>1 DEF tryActivateNeuron, StatusOK, QueuesOK, CountsOK
  <1>3a. CASE shouldActivate
    <2>1. MaintainerOK'
      BY <1>3a, HandlerDoneType, NextGroupType DEF shouldActivate
    <2> QED
      BY <1>0, <1>3a, <2>1 DEF shouldActivate, StatusOK, QueuesOK, CountsOK
  <1>3b. CASE testGroup
    <2>1. MaintainerOK'
      <3>1. CASE NextGroup(mTodo)
        BY <1>3b, <3>1, NextGroupType DEF testGroup, MaintainerOK, ScanOK
      <3>2. CASE AcceptGroup
        BY <1>3b, <3>2 DEF testGroup, AcceptGroup, MaintainerOK, EventOK, CastOK, ScanOK,
          MaintainerPcs, TestPcs
      <3>3. CASE ~NextGroup(mTodo) /\ ~AcceptGroup
        <4>1. /\ ScansOn(mLeft, Links \ ReadyLinks) /\ mLeft' = mLeft \ ReadyLinks
              /\ UNCHANGED << mPc, mEvent, mGroup, mIdx, mTodo >> /\ mPc = "group"
          BY <1>3b, <3>3 DEF testGroup
        <4>2. mLeft' # {} /\ mLeft' \subseteq mLeft
          BY <4>1 DEF ScansOn
        <4>3. EventOK' /\ CastOK'
          BY <4>1 DEF MaintainerOK, EventOK, CastOK
        <4>4. ScanOK'
          BY <4>1, <4>2 DEF MaintainerOK, ScanOK, InLinks
        <4> QED
          BY <4>3, <4>4 DEF MaintainerOK
      <3> QED
        BY <3>1, <3>2, <3>3
    <2> QED
      BY <1>0, <1>3b, <2>1 DEF testGroup, StatusOK, QueuesOK, CountsOK
  <1>4. CASE publishEnd
    <2>1. QueuesOK'
      BY <1>4, EventTypes, SendType DEF publishEnd
    <2>2. MaintainerOK'
      BY <1>4, HandlerDoneType DEF publishEnd
    <2> QED
      BY <1>0, <1>4, <2>1, <2>2 DEF publishEnd, StatusOK, CountsOK
  <1>5. CASE enqueueNeuron
    <2>1. mEvent.id \in Neurons \ {EndNeuron}
      BY <1>5, HandledEvent DEF enqueueNeuron, MaintainerOK, EventOK, TestPcs
    <2>2. QueuesOK'
      BY <1>5, <2>1, EnqueueType DEF enqueueNeuron
    <2>3. MaintainerOK'
      BY <1>5, HandlerDoneType DEF enqueueNeuron
    <2> QED
      BY <1>0, <1>5, <2>2, <2>3 DEF enqueueNeuron, StatusOK, CountsOK
  <1>6. CASE neuronCast
    <2>1. MaintainerOK'
      <3>1. CASE HandlerDone
        BY <3>1, HandlerDoneType
      <3>2. CASE ~HandlerDone
        <4>1. /\ mPc \in {"try_cast", "cast_anyway"} /\ mPc' = "cast" /\ mEvent' = mEvent
              /\ mIdx' = 1 /\ mGroup' \in Selections[mEvent.id] /\ UNCHANGED << mTodo, mLeft >>
          BY <1>6, <3>2 DEF neuronCast
        <4>2. mGroup' \in Seq(Links)
          BY <4>1, HandledEvent, GroupsAssumption
        <4>3. mIdx' \in 1..(Len(mGroup') + 1)
          BY <4>1, <4>2
        <4> QED
          BY <4>1, <4>2, <4>3 DEF MaintainerOK, EventOK, CastOK, ScanOK, MaintainerPcs, TestPcs
      <3> QED
        BY <3>1, <3>2
    <2> QED
      BY <1>0, <1>6, <2>1 DEF neuronCast, StatusOK, QueuesOK, CountsOK
  <1>7. CASE castSelected
    <2>1. mIdx \in 1..Len(mGroup) /\ mGroup \in Seq(Links) /\ mEvent.id \in Neurons
      BY <1>7, HandledEvent DEF castSelected, MaintainerOK, EventOK, CastOK, ScanOK
    <2>2. retries' \in [Neurons -> 0..MaxRetries]
      <3>1. /\ retries \in [Neurons -> 0..MaxRetries]
            /\ retries' = retries \/ (/\ retries[mEvent.id] < MaxRetries
                 /\ retries' = [retries EXCEPT ![mEvent.id] = retries[mEvent.id] + 1])
        BY <1>7 DEF castSelected, CountsOK
      <3>2. retries[mEvent.id] < MaxRetries => retries[mEvent.id] + 1 \in 0..MaxRetries
        BY <2>1, <3>1, BoundsAssumption
      <3> QED
        BY <2>1, <3>1, <3>2
    <2>3. /\ mPc = "cast" /\ UNCHANGED << mEvent, mGroup, mTodo, mLeft >>
          /\ (mPc' = "castWrite" /\ mIdx' = mIdx) \/ (mPc' = "cast" /\ mIdx' = mIdx + 1)
      BY <1>7 DEF castSelected
    <2>4. /\ mIdx' \in 1..(Len(mGroup') + 1)
          /\ mPc' = "castWrite" => mIdx' <= Len(mGroup')
      BY <2>1, <2>3
    <2>5. MaintainerOK'
      BY <2>1, <2>3, <2>4 DEF MaintainerOK, EventOK, CastOK, ScanOK, MaintainerPcs, TestPcs
    <2> QED
      BY <1>0, <1>7, <2>2, <2>5 DEF castSelected, StatusOK, QueuesOK, CountsOK
  <1>7a. CASE castWrite
    <2>1. mIdx \in 1..Len(mGroup) /\ mGroup \in Seq(Links)
      BY <1>7a DEF castWrite, MaintainerOK, EventOK, CastOK, ScanOK
    <2>2. StatusOK'
      BY <1>7a DEF castWrite, StatusOK
    <2>3. mIdx' \in 1..(Len(mGroup') + 1) /\ mIdx' > 1
      BY <1>7a, <2>1 DEF castWrite
    <2>4. MaintainerOK'
      BY <1>7a, <2>1, <2>3 DEF castWrite, MaintainerOK, EventOK, CastOK, ScanOK,
        MaintainerPcs, TestPcs
    <2> QED
      BY <1>0, <1>7a, <2>2, <2>4 DEF castWrite, QueuesOK, CountsOK
  <1>8. CASE castSend
    <2>1. mIdx - 1 \in 1..Len(mGroup) /\ mGroup \in Seq(Links)
      BY <1>8 DEF castSend, MaintainerOK, EventOK, CastOK, ScanOK
    <2>2. LinkReady(mGroup[mIdx - 1]) \in Events
      BY <2>1, EventTypes
    <2>3. QueuesOK'
      BY <1>8, <2>2, SendType DEF castSend
    <2>4. MaintainerOK'
      BY <1>8 DEF castSend, mLoop, MaintainerOK, EventOK, CastOK, ScanOK, MaintainerPcs, TestPcs
    <2> QED
      BY <1>0, <1>8, <2>3, <2>4 DEF castSend, StatusOK, CountsOK
  <1>9. CASE castUnselected
    <2>1. StatusOK'
      BY <1>9 DEF castUnselected, SetLinks, StatusOK
    <2>2. MaintainerOK'
      BY <1>9, HandlerDoneType, NextVisitType DEF castUnselected
    <2> QED
      BY <1>0, <1>9, <2>1, <2>2 DEF castUnselected, QueuesOK, CountsOK
  <1>9a. CASE castRest
    <2>1. PICK v \in mTodo :
            \/ /\ mPc' = "castReset" /\ mLeft' = {v[2]} /\ mTodo' = mTodo \ {v}
               /\ UNCHANGED << mEvent, mGroup, mIdx >>
            \/ NextVisit(mTodo \ {v})
      BY <1>9a DEF castRest
    <2>2. mPc = "castRest" /\ ~isCastAnyway /\ mTodo \subseteq Visits
      BY <1>9a DEF castRest, MaintainerOK, CastOK
    <2>3. v[2] \in Unselected
      BY <2>1, <2>2 DEF Visits
    <2>4. MaintainerOK'
      <3>1. CASE NextVisit(mTodo \ {v})
        BY <2>2, <3>1, NextVisitType
      <3>2. CASE ~NextVisit(mTodo \ {v})
        <4>1. /\ mPc' = "castReset" /\ mLeft' = {v[2]} /\ mTodo' = mTodo \ {v}
              /\ mEvent' = mEvent /\ mGroup' = mGroup /\ mIdx' = mIdx
          BY <2>1, <3>2
        <4>2. (~isCastAnyway)' /\ Visits' = Visits /\ Unselected' = Unselected
          BY <2>2, <4>1 DEF isCastAnyway, Visits, Unselected
        <4>3. EventOK'
          BY <2>2, <4>1 DEF MaintainerOK, EventOK, MaintainerPcs, TestPcs
        <4>4. CastOK'
          BY <2>2, <2>3, <4>1, <4>2 DEF MaintainerOK, CastOK
        <4>5. ScanOK'
          BY <4>1 DEF ScanOK
        <4> QED
          BY <4>3, <4>4, <4>5 DEF MaintainerOK
      <3> QED
        BY <3>1, <3>2
    <2> QED
      BY <1>0, <1>9a, <2>4 DEF castRest, StatusOK, QueuesOK, CountsOK
  <1>9b. CASE castReset
    <2>1. StatusOK'
      BY <1>9b DEF castReset, SetLinks, StatusOK
    <2>2. MaintainerOK'
      BY <1>9b, NextVisitType DEF castReset, MaintainerOK, CastOK
    <2> QED
      BY <1>0, <1>9b, <2>1, <2>2 DEF castReset, QueuesOK, CountsOK
  <1>10. CASE countNeurons
    <2>1. MaintainerOK'
      BY <1>10 DEF countNeurons, MaintainerOK, EventOK, CastOK, ScanOK, MaintainerPcs, TestPcs
    <2> QED
      BY <1>0, <1>10, <2>1 DEF countNeurons, StatusOK, QueuesOK, CountsOK
  <1>11. CASE countLinks
    <2>1. MaintainerOK'
      BY <1>11 DEF countLinks, MaintainerOK, EventOK, CastOK, ScanOK, MaintainerPcs, TestPcs
    <2> QED
      BY <1>0, <1>11, <2>1 DEF countLinks, StatusOK, QueuesOK, CountsOK
  <1>11a. CASE setRunning
    BY <1>0, <1>11a DEF setRunning, mLoop, StatusOK, QueuesOK, MaintainerOK, EventOK, CastOK,
      ScanOK, MaintainerPcs, TestPcs, CountsOK
  <1>12. CASE publishSleep
    <2>1. QueuesOK'
      BY <1>12, EventTypes, SendType DEF publishSleep
    <2>2. MaintainerOK'
      BY <1>12 DEF publishSleep, MaintainerOK, EventOK, CastOK, ScanOK, MaintainerPcs, mLoop,
        TestPcs
    <2> QED
      BY <1>0, <1>12, <2>1, <2>2 DEF publishSleep, StatusOK, CountsOK
  <1>13. CASE forceSleepLinks
    BY <1>0, <1>13 DEF forceSleepLinks, StatusOK, QueuesOK, MaintainerOK, EventOK, CastOK, ScanOK,
      mLoop, MaintainerPcs, TestPcs, CountsOK
  <1>14. CASE forceSleepNeurons
    BY <1>0, <1>14 DEF forceSleepNeurons, StatusOK, QueuesOK, MaintainerOK, EventOK, CastOK,
      ScanOK, mLoop, MaintainerPcs, TestPcs, CountsOK
  <1>15. CASE forceSleepState
    BY <1>0, <1>15 DEF forceSleepState, StatusOK, QueuesOK, MaintainerOK, EventOK, CastOK, ScanOK,
      mLoop, MaintainerPcs, TestPcs, CountsOK
  <1> QED
    BY <1>1, <1>2, <1>3, <1>3a, <1>3b, <1>4, <1>5, <1>6, <1>7, <1>7a, <1>8, <1>9, <1>9a, <1>9b,
       <1>10, <1>11, <1>11a, <1>12, <1>13, <1>14, <1>15 DEF Maintainer

\* The workers' steps keep the types.
LEMMA TypeWorker ==
  ASSUME TypeOK, NEW w \in Workers, Worker(w)
  PROVE  TypeOK'
  <1> USE DEF TypeOK, status, counts, maintainer, mLoop, clients
  <1>0. MaintainerOK' /\ ClientsOK'
    <2>1. UNCHANGED << maintainer, clients >>
      BY DEF Worker, runNeuronWorker, setActivated, setInLinksInit, setOutLinksWait,
        ContinueCast, processOk, processError, publishTryCast
    <2> QED
      BY <2>1, MaintainerKept DEF ClientsOK
  <1>1. CASE runNeuronWorker(w)
    <2>1. /\ Head(nQueue) \in Neurons \ {EndNeuron}
          /\ Tail(nQueue) \in Seq(Neurons \ {EndNeuron})
          /\ Len(Tail(nQueue)) = Len(nQueue) - 1
      BY <1>1 DEF runNeuronWorker, QueuesOK
    <2>2. QueuesOK'
      BY <1>1, <2>1, BoundsAssumption DEF runNeuronWorker, QueuesOK
    <2>3. WorkersOK'
      BY <1>1, <2>1 DEF runNeuronWorker, WorkersOK
    <2> QED
      BY <1>0, <1>1, <2>2, <2>3 DEF runNeuronWorker, StatusOK, CountsOK
  <1>2. CASE setActivated(w)
    BY <1>0, <1>2 DEF setActivated, StatusOK, QueuesOK, WorkersOK, CountsOK
  <1>3. CASE setInLinksInit(w)
    BY <1>0, <1>3 DEF setInLinksInit, StatusOK, QueuesOK, WorkersOK, CountsOK
  <1>4. CASE setOutLinksWait(w)
    BY <1>0, <1>4 DEF setOutLinksWait, StatusOK, QueuesOK, WorkersOK, CountsOK
  <1>5. CASE ContinueCast(w)
    <2>1. wNeuron[w] \in Neurons
      BY <1>5 DEF ContinueCast, WorkersOK
    <2>2. QueuesOK'
      BY <1>5, <2>1, EventTypes, SendType DEF ContinueCast
    <2>3. continued[wNeuron[w]] + 1 \in 0..MaxContinueCast
      BY <1>5, <2>1, BoundsAssumption DEF ContinueCast, CountsOK
    <2>4. CountsOK'
      BY <1>5, <2>1, <2>3 DEF ContinueCast, CountsOK
    <2> QED
      BY <1>0, <1>5, <2>2, <2>4 DEF ContinueCast, StatusOK, WorkersOK, workers
  <1>6. CASE processOk(w)
    BY <1>0, <1>6 DEF processOk, StatusOK, QueuesOK, WorkersOK, CountsOK
  <1>7. CASE processError(w)
    BY <1>0, <1>7 DEF processError, StatusOK, QueuesOK, WorkersOK, CountsOK
  <1>8. CASE publishTryCast(w)
    <2>1. TryCast(wNeuron[w]) \in Events
      BY <1>8, EventTypes DEF publishTryCast, WorkersOK
    <2>2. QueuesOK'
      BY <1>8, <2>1, SendType DEF publishTryCast
    <2> QED
      BY <1>0, <1>8, <2>2 DEF publishTryCast, StatusOK, WorkersOK, CountsOK
  <1> QED
    BY <1>1, <1>2, <1>3, <1>4, <1>5, <1>6, <1>7, <1>8 DEF Worker

\* A retry of cast_anyway keeps the types.
LEMMA TypeRetry ==
  ASSUME TypeOK, NEW n \in Neurons, RetryCast(n)
  PROVE  TypeOK'
  <1> USE DEF TypeOK, status, maintainer, mLoop, workers, clients
  <1>1. QueuesOK'
    BY EventTypes, SendType DEF RetryCast
  <1>2. retries[n] - 1 \in 0..MaxRetries
    BY BoundsAssumption DEF RetryCast, CountsOK
  <1>3. CountsOK'
    BY <1>2 DEF RetryCast, CountsOK
  <1> QED
    BY <1>1, <1>3, MaintainerKept DEF RetryCast, StatusOK, WorkersOK, ClientsOK

\* The clients' steps keep the types.
LEMMA TypeClient ==
  ASSUME TypeOK, NEW c \in Clients, Client(c)
  PROVE  TypeOK'
  <1> USE DEF TypeOK, status, counts, maintainer, mLoop, workers
  <1>0. MaintainerOK' /\ WorkersOK'
    <2>1. UNCHANGED << maintainer, workers >>
      BY DEF Client, ClientStep, trigLinks, trigLink, trigLinkRead, trigLinkWrite, trigLinkSend,
        clientCountNeurons, clientCountLinks, ClientScans, clientSetRunning, clientPublishSleep,
        callWait, waitReturns
    <2> QED
      BY <2>1, MaintainerKept DEF WorkersOK
  <1>1. ASSUME NEW ls \in Calls, trigLinks(c, ls) PROVE TypeOK'
    <2>1. ClientsOK'
      BY <1>1 DEF trigLinks, ClientsOK
    <2>2. CountsOK'
      BY <1>1, BoundsAssumption DEF trigLinks, CountsOK
    <2> QED
      BY <1>0, <1>1, <2>1, <2>2 DEF trigLinks, StatusOK, QueuesOK
  <1>2. ASSUME NEW l \in Links, trigLinkRead(c, l) PROVE TypeOK'
    BY <1>0, <1>2 DEF trigLinkRead, StatusOK, QueuesOK, ClientsOK, CountsOK
  <1>3. ASSUME NEW l \in Links, trigLinkWrite(c, l) PROVE TypeOK'
    BY <1>0, <1>3 DEF trigLinkWrite, StatusOK, QueuesOK, ClientsOK, CountsOK
  <1>4. ASSUME NEW l \in Links, trigLinkSend(c, l) PROVE TypeOK'
    <2>1. QueuesOK'
      BY <1>4, EventTypes, SendType DEF trigLinkSend
    <2> QED
      BY <1>0, <1>4, <2>1 DEF trigLinkSend, StatusOK, ClientsOK, CountsOK
  <1>5. ASSUME NEW pc, NEW left, ClientScans(c, pc, left), UNCHANGED cTrig,
               \/ pc = "trig" /\ left \subseteq Neurons
               \/ pc = "countLinks" /\ left \subseteq Links
               \/ pc \in {"setRunning", "sleep"} /\ left = {}
        PROVE  ClientsOK'
    <2>1. /\ cPc' = [cPc EXCEPT ![c] = pc] /\ cLeft' = [cLeft EXCEPT ![c] = left]
          /\ pc \in {"trig", "countLinks", "setRunning", "sleep"}
          /\ left \in SUBSET (Neurons \cup Links)
      BY <1>5 DEF ClientScans
    <2> QED
      BY <1>5, <2>1 DEF ClientsOK
  <1>6. CASE clientCountNeurons(c) \/ clientCountLinks(c)
    <2>1. ClientsOK'
      BY <1>5, <1>6 DEF clientCountNeurons, clientCountLinks, ClientsOK
    <2> QED
      BY <1>0, <1>6, <2>1 DEF clientCountNeurons, clientCountLinks, StatusOK, QueuesOK, CountsOK
  <1>7. CASE clientSetRunning(c)
    BY <1>0, <1>7 DEF clientSetRunning, StatusOK, QueuesOK, ClientsOK, CountsOK
  <1>8. CASE clientPublishSleep(c)
    <2>1. QueuesOK'
      BY <1>8, EventTypes, SendType DEF clientPublishSleep
    <2> QED
      BY <1>0, <1>8, <2>1 DEF clientPublishSleep, StatusOK, ClientsOK, CountsOK
  <1>9. CASE callWait(c) \/ waitReturns(c)
    BY <1>0, <1>9 DEF callWait, waitReturns, StatusOK, QueuesOK, ClientsOK, CountsOK
  <1> QED
    BY <1>1, <1>2, <1>3, <1>4, <1>5, <1>6, <1>7, <1>8, <1>9 DEF Client, ClientStep, trigLink

\* Every step keeps the types.
LEMMA TypeStep == TypeOK /\ [Next]_vars => TypeOK'
  <1> SUFFICES ASSUME TypeOK, [Next]_vars PROVE TypeOK'
    OBVIOUS
  <1>1. CASE UNCHANGED vars
    BY <1>1, MaintainerKept DEF vars, status, counts, workers, clients, TypeOK, StatusOK,
      QueuesOK, WorkersOK, ClientsOK, CountsOK
  <1> QED
    BY <1>1, TypeMaintainer, TypeWorker, TypeRetry, TypeClient DEF Next

\* Type correctness: among others, no step of any goroutine hands the END
\* neuron to a worker or overfills a queue.
THEOREM TypeCorrect == Spec => []TypeOK
  BY TypeInit, TypeStep, PTL DEF Spec

-----------------------------------------------------------------------------
(* How the event queue and the counters move.                               *)

\* A send adds exactly its event to the pending ones.
LEMMA SendRange ==
  ASSUME QueuesOK, NEW e \in Events, publishEvent(e)
  PROVE  Range(bQueue') = Range(bQueue) \cup {e} /\ bQueue' # << >>
  BY RangeAppend DEF QueuesOK, publishEvent

\* What a step of the maintainer sends is neither a TryCast nor a CastAnyway,
\* and an event it receives becomes the event it handles.
LEMMA MaintainerEvents ==
  ASSUME TypeOK, Maintainer, NEW n \in Neurons, NEW e \in {TryCast(n), CastAnyway(n)}
  PROVE  /\ e \in Range(bQueue') => e \in Range(bQueue)
         /\ mEvent' = e => mEvent = e \/ (e \in Range(bQueue) /\ mPc = "idle")
         /\ e \in Range(bQueue) =>
               e \in Range(bQueue') \/ (mEvent' = e /\ mPc' = e.action /\ mPc = "idle")
  <1> USE DEF TypeOK
  <1>0. /\ e # BrainSleep /\ e # NoEvent
        /\ \A l \in Links : e # LinkReady(l)
        /\ \A m \in Neurons : e # TryActivate(m)
    BY DEF TryCast, CastAnyway, BrainSleep, NoEvent, LinkReady, TryActivate
  <1>1. CASE runBrainMaintainer
    <2>1. Range(bQueue) = Range(Tail(bQueue)) \cup {Head(bQueue)}
      BY <1>1, RangeTail DEF runBrainMaintainer, QueuesOK
    <2> QED
      BY <1>1, <2>1 DEF runBrainMaintainer
  <1>2. CASE handleLinkReady
    <2>1. To[mEvent.id] \in Neurons
      BY <1>2, HandledEvent, TopologyAssumption DEF handleLinkReady
    <2>2. Range(bQueue') = Range(bQueue) \cup {TryActivate(To[mEvent.id])}
      BY <1>2, <2>1, EventTypes, SendRange DEF handleLinkReady
    <2> QED
      BY <1>0, <1>2, <2>1, <2>2 DEF handleLinkReady, HandlerDone
  <1>3. CASE publishEnd \/ publishSleep
    <2>1. Range(bQueue') = Range(bQueue) \cup {BrainSleep}
      BY <1>3, EventTypes, SendRange DEF publishEnd, publishSleep
    <2> QED
      BY <1>0, <1>3, <2>1 DEF publishEnd, publishSleep, HandlerDone
  <1>4. CASE castSend
    <2>1. mGroup[mIdx - 1] \in Links
      BY <1>4 DEF castSend, MaintainerOK, EventOK, CastOK, ScanOK
    <2>2. Range(bQueue') = Range(bQueue) \cup {LinkReady(mGroup[mIdx - 1])}
      BY <1>4, <2>1, EventTypes, SendRange DEF castSend
    <2> QED
      BY <1>0, <1>4, <2>1, <2>2 DEF castSend
  <1>5. CASE bQueue' = bQueue /\ mEvent' \in {mEvent, NoEvent}
    BY <1>0, <1>5
  <1> QED
    BY <1>1, <1>2, <1>3, <1>4, <1>5 DEF Maintainer, tryActivateNeuron, shouldActivate, testGroup,
      NextGroup, AcceptGroup, enqueueNeuron, neuronCast, castSelected, castWrite, castUnselected,
      castRest, castReset, NextVisit, SetLinks, countNeurons, countLinks, setRunning,
      forceSleepLinks, forceSleepNeurons, forceSleepState, HandlerDone

\* The other goroutines leave what is pending and what is handled alone, and
\* only a worker sends TryCast, only ContinueCast and its retries CastAnyway.
LEMMA OtherEvents ==
  ASSUME TypeOK, NEW n \in Neurons, NEW e \in {TryCast(n), CastAnyway(n)},
         \/ \E w \in Workers : Worker(w)
         \/ \E m \in Neurons : RetryCast(m)
         \/ \E c \in Clients : Client(c)
  PROVE  /\ UNCHANGED maintainer
         /\ Range(bQueue) \subseteq Range(bQueue')
         /\ e \in Range(bQueue') =>
               \/ e \in Range(bQueue)
               \/ e = TryCast(n) /\ \E w \in Workers : publishTryCast(w) /\ wNeuron[w] = n
               \/ e = CastAnyway(n) /\ \E w \in Workers : ContinueCast(w) /\ wNeuron[w] = n
               \/ e = CastAnyway(n) /\ RetryCast(n)
  <1> USE DEF TypeOK
  <1>0. /\ e # BrainSleep
        /\ \A l \in Links : e # LinkReady(l)
        /\ \A m \in Neurons : TryCast(m) = e => m = n /\ e = TryCast(n)
        /\ \A m \in Neurons : CastAnyway(m) = e => m = n /\ e = CastAnyway(n)
    BY DEF TryCast, CastAnyway, BrainSleep, LinkReady
  <1>1. ASSUME NEW w \in Workers, Worker(w)
        PROVE  /\ UNCHANGED maintainer
               /\ bQueue' = bQueue \/ publishTryCast(w) \/ ContinueCast(w)
    BY <1>1 DEF Worker, runNeuronWorker, setActivated, setInLinksInit, setOutLinksWait,
      ContinueCast, processOk, processError, publishTryCast
  <1>2. ASSUME NEW w \in Workers, publishTryCast(w)
        PROVE  Range(bQueue') = Range(bQueue) \cup {TryCast(wNeuron[w])} /\ wNeuron[w] \in Neurons
    <2>1. wNeuron[w] \in Neurons
      BY <1>2 DEF publishTryCast, WorkersOK
    <2> QED
      BY <1>2, <2>1, EventTypes, SendRange DEF publishTryCast
  <1>3. ASSUME NEW w \in Workers, ContinueCast(w)
        PROVE  Range(bQueue') = Range(bQueue) \cup {CastAnyway(wNeuron[w])} /\ wNeuron[w] \in Neurons
    <2>1. wNeuron[w] \in Neurons
      BY <1>3 DEF ContinueCast, WorkersOK
    <2> QED
      BY <1>3, <2>1, EventTypes, SendRange DEF ContinueCast
  <1>4. ASSUME NEW m \in Neurons, RetryCast(m)
        PROVE  UNCHANGED maintainer /\ Range(bQueue') = Range(bQueue) \cup {CastAnyway(m)}
    BY <1>4, EventTypes, SendRange DEF RetryCast
  <1>5. ASSUME NEW c \in Clients, Client(c)
        PROVE  /\ UNCHANGED maintainer
               /\ \/ Range(bQueue') = Range(bQueue)
                  \/ \E l \in Links : Range(bQueue') = Range(bQueue) \cup {LinkReady(l)}
                  \/ Range(bQueue') = Range(bQueue) \cup {BrainSleep}
    <2>1. ASSUME NEW l \in Links, trigLinkSend(c, l)
          PROVE  Range(bQueue') = Range(bQueue) \cup {LinkReady(l)}
      BY <2>1, EventTypes, SendRange DEF trigLinkSend
    <2>2. CASE clientPublishSleep(c)
      BY <2>2, EventTypes, SendRange DEF clientPublishSleep
    <2>3. /\ UNCHANGED maintainer
          /\ \/ \E l \in Links : trigLinkSend(c, l)
             \/ clientPublishSleep(c)
             \/ bQueue' = bQueue
      BY <1>5 DEF Client, ClientStep, trigLinks, trigLink, trigLinkRead, trigLinkWrite,
        trigLinkSend, clientCountNeurons, clientCountLinks, ClientScans, clientSetRunning,
        clientPublishSleep, callWait, waitReturns
    <2> QED
      BY <2>1, <2>2, <2>3
  <1>6. CASE \E w \in Workers : Worker(w)
    BY <1>0, <1>1, <1>2, <1>3, <1>6
  <1>7. CASE \E m \in Neurons : RetryCast(m)
    BY <1>0, <1>4, <1>7
  <1>8. CASE \E c \in Clients : Client(c)
    BY <1>0, <1>5, <1>8
  <1> QED
    BY <1>6, <1>7, <1>8

\* The counters only grow.
LEMMA CountsGrow ==
  ASSUME TypeOK, [Next]_vars
  PROVE  /\ succeeded \subseteq succeeded' /\ failed \subseteq failed'
         /\ \A n \in Neurons : continued[n] > 0 => continued'[n] > 0
  <1> USE DEF TypeOK, counts
  <1>1. CASE Maintainer
    BY <1>1 DEF Maintainer, runBrainMaintainer, handleLinkReady, tryActivateNeuron,
      shouldActivate, testGroup, NextGroup, AcceptGroup, publishEnd, enqueueNeuron, neuronCast,
      castSelected, castWrite, castSend, castUnselected, castRest, castReset, NextVisit, SetLinks,
      countNeurons, countLinks, setRunning, publishSleep, forceSleepLinks, forceSleepNeurons,
      forceSleepState
  <1>2. ASSUME NEW w \in Workers, Worker(w)
        PROVE  /\ succeeded \subseteq succeeded' /\ failed \subseteq failed'
               /\ \A n \in Neurons : continued[n] > 0 => continued'[n] > 0
    <2>1. CASE ContinueCast(w)
      <3>1. wNeuron[w] \in Neurons /\ continued \in [Neurons -> Nat]
        BY <2>1, BoundsAssumption DEF ContinueCast, WorkersOK, CountsOK
      <3> QED
        BY <2>1, <3>1 DEF ContinueCast
    <2>2. CASE ~ContinueCast(w)
      BY <1>2, <2>2 DEF Worker, runNeuronWorker, setActivated, setInLinksInit, setOutLinksWait,
        processOk, processError, publishTryCast
    <2> QED
      BY <2>1, <2>2
  <1>3. ASSUME NEW n \in Neurons, RetryCast(n)
        PROVE  UNCHANGED << succeeded, failed, continued >>
    BY <1>3 DEF RetryCast
  <1>4. ASSUME NEW c \in Clients, Client(c)
        PROVE  UNCHANGED << succeeded, failed, continued >>
    BY <1>4 DEF Client, ClientStep, trigLinks, trigLink, trigLinkRead, trigLinkWrite,
      trigLinkSend, clientCountNeurons, clientCountLinks, ClientScans, clientSetRunning,
      clientPublishSleep, callWait, waitReturns
  <1>5. CASE UNCHANGED vars
    BY <1>5 DEF vars
  <1> QED
    BY <1>1, <1>2, <1>3, <1>4, <1>5 DEF Next

-----------------------------------------------------------------------------
(* Who writes what.                                                         *)

\* What the steps of each goroutine leave alone.
LEMMA Frames ==
  /\ Maintainer => UNCHANGED << workers, clients >>
  /\ \A w \in Workers : Worker(w) => UNCHANGED << maintainer, clients >>
  /\ \A n \in Neurons : RetryCast(n) => UNCHANGED << status, nQueue, maintainer, workers, clients >>
  /\ \A c \in Clients : Client(c) => UNCHANGED << neuronState, nQueue, maintainer, workers >>
  <1>1. Maintainer => UNCHANGED << workers, clients >>
    BY DEF Maintainer, runBrainMaintainer, handleLinkReady, tryActivateNeuron, shouldActivate,
      testGroup, NextGroup, AcceptGroup, publishEnd, enqueueNeuron, neuronCast, castSelected,
      castWrite, castSend, castUnselected, castRest, castReset, NextVisit, SetLinks, countNeurons,
      countLinks, setRunning, publishSleep, forceSleepLinks, forceSleepNeurons, forceSleepState
  <1>2. ASSUME NEW w \in Workers, Worker(w) PROVE UNCHANGED << maintainer, clients >>
    BY <1>2 DEF Worker, runNeuronWorker, setActivated, setInLinksInit, setOutLinksWait,
      ContinueCast, processOk, processError, publishTryCast
  <1>3. ASSUME NEW n \in Neurons, RetryCast(n)
        PROVE  UNCHANGED << status, nQueue, maintainer, workers, clients >>
    BY <1>3 DEF RetryCast
  <1>4. ASSUME NEW c \in Clients, Client(c)
        PROVE  UNCHANGED << neuronState, nQueue, maintainer, workers >>
    BY <1>4 DEF Client, ClientStep, trigLinks, trigLink, trigLinkRead, trigLinkWrite,
      trigLinkSend, clientCountNeurons, clientCountLinks, ClientScans, clientSetRunning,
      clientPublishSleep, callWait, waitReturns, status
  <1> QED
    BY <1>1, <1>2, <1>3, <1>4

\* The seven places of the code that write the state of a link.
LEMMA LinkWriters ==
  ASSUME TypeOK, [Next]_vars, NEW l \in Links, linkState'[l] # linkState[l]
  PROVE  \/ castWrite /\ l = mGroup[mIdx] /\ linkState'[l] = "Ready"
         \/ castUnselected /\ isCastAnyway /\ l \in Unselected /\ linkState'[l] = "Wait"
         \/ castReset /\ l \in mLeft /\ linkState'[l] = "Init"
         \/ forceSleepLinks /\ linkState'[l] = "Init"
         \/ \E w \in Workers : /\ setInLinksInit(w) /\ l \in InLinks(wNeuron[w])
                               /\ linkState'[l] = "Init"
         \/ \E w \in Workers : /\ setOutLinksWait(w) /\ l \in OutLinks(wNeuron[w])
                               /\ linkState'[l] = "Wait"
         \/ \E c \in Clients : trigLinkWrite(c, l) /\ linkState'[l] = "Ready"
  <1> USE DEF TypeOK, status
  <1>1. CASE Maintainer
    <2>1. CASE castWrite
      BY <2>1 DEF castWrite, StatusOK
    <2>2. CASE castUnselected
      BY <2>2 DEF castUnselected, SetLinks
    <2>3. CASE castReset
      BY <2>3 DEF castReset, SetLinks
    <2>4. CASE forceSleepLinks
      BY <2>4 DEF forceSleepLinks
    <2> QED
      BY <1>1, <2>1, <2>2, <2>3, <2>4 DEF Maintainer, runBrainMaintainer, handleLinkReady,
        tryActivateNeuron, shouldActivate, testGroup, publishEnd, enqueueNeuron, neuronCast,
        castSelected, castSend, castRest, countNeurons, countLinks, setRunning,
        publishSleep, forceSleepNeurons, forceSleepState
  <1>2. ASSUME NEW w \in Workers, Worker(w)
        PROVE  \/ setInLinksInit(w) /\ l \in InLinks(wNeuron[w]) /\ linkState'[l] = "Init"
               \/ setOutLinksWait(w) /\ l \in OutLinks(wNeuron[w]) /\ linkState'[l] = "Wait"
    <2>1. CASE setInLinksInit(w)
      BY <2>1 DEF setInLinksInit
    <2>2. CASE setOutLinksWait(w)
      BY <2>2 DEF setOutLinksWait
    <2> QED
      BY <1>2, <2>1, <2>2 DEF Worker, runNeuronWorker, setActivated, ContinueCast, processOk,
        processError, publishTryCast
  <1>3. ASSUME NEW c \in Clients, Client(c)
        PROVE  trigLinkWrite(c, l) /\ linkState'[l] = "Ready"
    <2>1. ASSUME NEW k \in Links, trigLinkWrite(c, k) PROVE k = l /\ linkState'[l] = "Ready"
      BY <2>1 DEF trigLinkWrite, StatusOK
    <2>2. \E k \in Links : trigLinkWrite(c, k)
      BY <1>3 DEF Client, ClientStep, trigLinks, trigLink, trigLinkRead, trigLinkSend,
        clientCountNeurons, clientCountLinks, ClientScans, clientSetRunning, clientPublishSleep,
        callWait, waitReturns
    <2> QED
      BY <2>1, <2>2
  <1> QED
    BY <1>1, <1>2, <1>3 DEF Next, RetryCast, vars

-----------------------------------------------------------------------------
(* An Active neuron has a worker.                                           *)

\* Overlapping runs of a neuron share its status word: a step that leaves it
\* Active leaves it to a worker that will set it Inactive.
LEMMA ActiveStep == TypeOK /\ ActiveHasWorker /\ [Next]_vars => ActiveHasWorker'
  <1> SUFFICES ASSUME TypeOK, ActiveHasWorker, [Next]_vars PROVE ActiveHasWorker'
    OBVIOUS
  <1> USE DEF TypeOK
  <1>0. CASE UNCHANGED << neuronState, workers >>
    BY <1>0 DEF ActiveHasWorker, workers
  <1>1. CASE Maintainer
    <2>1. CASE forceSleepNeurons
      BY <2>1 DEF forceSleepNeurons, ActiveHasWorker
    <2>2. CASE ~forceSleepNeurons
      BY <1>0, <1>1, <2>2 DEF status, Maintainer, runBrainMaintainer, handleLinkReady,
        tryActivateNeuron, shouldActivate, testGroup, NextGroup, AcceptGroup, publishEnd,
        enqueueNeuron, neuronCast, castSelected, castWrite, castSend, castUnselected, castRest,
        castReset, NextVisit, SetLinks, countNeurons, countLinks, setRunning, publishSleep,
        forceSleepLinks, forceSleepState
    <2> QED
      BY <2>1, <2>2
  <1>2. ASSUME NEW w \in Workers, Worker(w) PROVE ActiveHasWorker'
    <2> SUFFICES ASSUME NEW n \in Neurons, neuronState'[n] = "Active"
                 PROVE  \E v \in Workers : /\ wNeuron'[v] = n
                                           /\ wPc'[v] \in {"inLinks", "outLinks", "process"}
      BY DEF ActiveHasWorker
    <2>1. CASE setActivated(w)
      BY <2>1 DEF setActivated, ActiveHasWorker, StatusOK, WorkersOK
    <2>2. CASE runNeuronWorker(w) \/ publishTryCast(w)
      BY <2>2 DEF runNeuronWorker, publishTryCast, status, ActiveHasWorker, WorkersOK
    <2>3. CASE setInLinksInit(w) \/ setOutLinksWait(w)
      BY <2>3 DEF setInLinksInit, setOutLinksWait, ActiveHasWorker, WorkersOK
    <2>4. CASE ContinueCast(w)
      BY <2>4 DEF ContinueCast, status, workers, ActiveHasWorker
    <2>5. CASE processOk(w) \/ processError(w)
      <3>1. n # wNeuron[w] /\ neuronState[n] = "Active"
        BY <2>5 DEF processOk, processError, StatusOK, WorkersOK
      <3> QED
        BY <2>5, <3>1 DEF processOk, processError, ActiveHasWorker, WorkersOK
    <2> QED
      BY <1>2, <2>1, <2>2, <2>3, <2>4, <2>5 DEF Worker
  <1>3. ASSUME NEW n \in Neurons, RetryCast(n) PROVE ActiveHasWorker'
    BY <1>0, <1>3 DEF RetryCast, status
  <1>4. ASSUME NEW c \in Clients, Client(c) PROVE ActiveHasWorker'
    BY <1>0, <1>4 DEF Client, ClientStep, trigLinks, trigLink, trigLinkRead, trigLinkWrite,
      trigLinkSend, clientCountNeurons, clientCountLinks, ClientScans, clientSetRunning,
      clientPublishSleep, callWait, waitReturns, status
  <1>5. CASE UNCHANGED vars
    BY <1>0, <1>5 DEF vars, status
  <1> QED
    BY <1>1, <1>2, <1>3, <1>4, <1>5 DEF Next

\* However the runs of a neuron overlap and whenever ForceSleep comes between,
\* a neuron marked Active is in the hands of a worker.
THEOREM ActiveNeuronHasWorker == Spec => []ActiveHasWorker
  <1>1. Init => ActiveHasWorker
    BY DEF Init, ActiveHasWorker
  <1> QED
    BY <1>1, ActiveStep, TypeCorrect, PTL DEF Spec

-----------------------------------------------------------------------------
(* A neuron runs only when a trigger group of it has been supplied.         *)

\* A TryCast on its way means that the neuron has succeeded, a CastAnyway that
\* its processor has called ContinueCast.
CastSource ==
    \A n \in Neurons :
        /\ \/ Pending(TryCast(n)) \/ mEvent = TryCast(n)
           \/ \E w \in Workers : wPc[w] = "cast" /\ wNeuron[w] = n
           => n \in succeeded
        /\ Pending(CastAnyway(n)) \/ mEvent = CastAnyway(n) \/ retries[n] > 0
           => continued[n] > 0

\* Only links of some call are on their way to be triggered by a client.
CalledLinks ==
    \A c \in Clients, l \in Links : cTrig[c][l] # "none" => \E ls \in Calls : l \in ls

GroupSupplied(n) == \E g \in TriggerGroups[n] : g # {} /\ \A l \in g : Supplied(l)

\* What the test of a trigger group has passed over was supplied.
TestSupplied(n) ==
    \E g \in TriggerGroups[n] :
        g # {} /\ mLeft \subseteq g /\ \A l \in g \ mLeft : Supplied(l)

\* UpstreamDone, strengthened by where Ready comes from, by the group under test
\* and by the neuron the maintainer is about to queue.
SupplyInv ==
    /\ CastSource /\ CalledLinks
    /\ \A l \in Links : linkState[l] = "Ready" => Supplied(l)
    /\ mPc = "group" => TestSupplied(mEvent.id)
    /\ mPc = "enqueue" => GroupSupplied(mEvent.id)
    /\ \A n \in Neurons : Queued(n) \/ Runs(n) => GroupSupplied(n)

\* What has been supplied stays supplied.
LEMMA SuppliedStable ==
  ASSUME TypeOK, [Next]_vars
  PROVE  /\ \A l \in Links : Supplied(l) => Supplied(l)'
         /\ \A n \in Neurons : GroupSupplied(n) => GroupSupplied(n)'
  <1>1. \A l \in Links : Supplied(l) => Supplied(l)'
    BY CountsGrow, TopologyAssumption DEF Supplied
  <1>2. \A n \in Neurons : \A g \in TriggerGroups[n] : g \subseteq Links
    BY GroupsAssumption
  <1> QED
    BY <1>1, <1>2 DEF GroupSupplied

\* TryCast and CastAnyway are sent only by a worker that has finished, by
\* ContinueCast, and by the retries of a CastAnyway.
LEMMA CastSourceStep ==
  ASSUME TypeOK, CastSource, [Next]_vars
  PROVE  CastSource'
  <1> USE DEF TypeOK
  <1> SUFFICES ASSUME NEW n \in Neurons
               PROVE  /\ \/ Pending(TryCast(n))' \/ mEvent' = TryCast(n)
                         \/ \E w \in Workers : wPc'[w] = "cast" /\ wNeuron'[w] = n
                         => n \in succeeded'
                      /\ Pending(CastAnyway(n))' \/ mEvent' = CastAnyway(n) \/ retries'[n] > 0
                         => continued'[n] > 0
    BY DEF CastSource, TryCast, CastAnyway
  <1>0. /\ n \in succeeded => n \in succeeded'
        /\ continued[n] > 0 => continued'[n] > 0
    BY CountsGrow
  <1>1. CASE Maintainer
    <2>1. /\ Pending(TryCast(n))' \/ mEvent' = TryCast(n) => n \in succeeded
          /\ Pending(CastAnyway(n))' \/ mEvent' = CastAnyway(n) => continued[n] > 0
      BY <1>1, MaintainerEvents DEF CastSource, Pending
    <2>2. UNCHANGED << wPc, wNeuron >>
      BY <1>1 DEF workers, Maintainer, runBrainMaintainer, handleLinkReady, tryActivateNeuron,
        shouldActivate, testGroup, NextGroup, AcceptGroup, publishEnd, enqueueNeuron, neuronCast,
        castSelected, castWrite, castSend, castUnselected, castRest, castReset, NextVisit,
        SetLinks, countNeurons, countLinks, setRunning, publishSleep, forceSleepLinks,
        forceSleepNeurons, forceSleepState
    <2>3. retries'[n] > 0 => continued[n] > 0
      <3>1. CASE castSelected
        <4>1. mEvent.id \in Neurons /\ mEvent \in Events
          BY <3>1, HandledEvent DEF castSelected
        <4>2. retries' = retries \/ (mEvent = CastAnyway(mEvent.id)
                 /\ retries' = [retries EXCEPT ![mEvent.id] = @ + 1])
          BY <3>1, <4>1, EventFields DEF castSelected, isCastAnyway
        <4>3. CASE n = mEvent.id /\ mEvent = CastAnyway(mEvent.id)
          BY <4>3 DEF CastSource
        <4>4. CASE retries'[n] = retries[n]
          BY <4>4 DEF CastSource
        <4> QED
          BY <4>1, <4>2, <4>3, <4>4 DEF CountsOK
      <3>2. CASE retries' = retries
        BY <3>2 DEF CastSource
      <3> QED
        BY <1>1, <3>1, <3>2 DEF counts, Maintainer, runBrainMaintainer, handleLinkReady,
          tryActivateNeuron, shouldActivate, testGroup, NextGroup, AcceptGroup, publishEnd,
          enqueueNeuron, neuronCast, castWrite, castSend, castUnselected, castRest, castReset,
          NextVisit, SetLinks, countNeurons, countLinks, setRunning, publishSleep,
          forceSleepLinks, forceSleepNeurons, forceSleepState
    <2> QED
      BY <1>0, <2>1, <2>2, <2>3 DEF CastSource
  <1>2. ASSUME NEW w \in Workers, Worker(w)
        PROVE  /\ \/ Pending(TryCast(n))' \/ mEvent' = TryCast(n)
                  \/ \E v \in Workers : wPc'[v] = "cast" /\ wNeuron'[v] = n
                  => n \in succeeded'
               /\ Pending(CastAnyway(n))' \/ mEvent' = CastAnyway(n) \/ retries'[n] > 0
                  => continued'[n] > 0
    <2>1. UNCHANGED << mEvent, retries >>
      BY <1>2 DEF Worker, runNeuronWorker, setActivated, setInLinksInit, setOutLinksWait,
        ContinueCast, processOk, processError, publishTryCast, maintainer, mLoop, counts
    <2>2. Pending(TryCast(n))' => n \in succeeded'
      <3>1. Pending(TryCast(n))' => Pending(TryCast(n))
              \/ \E v \in Workers : publishTryCast(v) /\ wNeuron[v] = n
        BY <1>2, OtherEvents DEF Pending, TryCast, CastAnyway
      <3> QED
        BY <1>0, <3>1 DEF CastSource, publishTryCast
    <2>3. Pending(CastAnyway(n))' => continued'[n] > 0
      <3>1. Pending(CastAnyway(n))' => \/ Pending(CastAnyway(n)) \/ RetryCast(n)
                                       \/ \E v \in Workers : ContinueCast(v) /\ wNeuron[v] = n
        BY <1>2, OtherEvents DEF Pending, TryCast, CastAnyway
      <3>2. ASSUME NEW v \in Workers, ContinueCast(v), wNeuron[v] = n PROVE continued'[n] > 0
        BY <3>2, BoundsAssumption DEF ContinueCast, CountsOK
      <3> QED
        BY <1>0, <3>1, <3>2 DEF CastSource, RetryCast
    <2>4. ASSUME NEW v \in Workers, wPc'[v] = "cast", wNeuron'[v] = n PROVE n \in succeeded'
      <3>1. CASE processOk(w) /\ v = w
        BY <2>4, <3>1 DEF processOk
      <3>2. CASE wPc[v] = "cast" /\ wNeuron[v] = n
        BY <1>0, <3>2 DEF CastSource
      <3> QED
        BY <1>2, <2>4, <3>1, <3>2 DEF Worker, runNeuronWorker, setActivated, setInLinksInit,
          setOutLinksWait, ContinueCast, processOk, processError, publishTryCast, workers,
          WorkersOK
    <2> QED
      BY <1>0, <2>1, <2>2, <2>3, <2>4 DEF CastSource
  <1>3. ASSUME NEW m \in Neurons, RetryCast(m)
        PROVE  /\ \/ Pending(TryCast(n))' \/ mEvent' = TryCast(n)
                  \/ \E v \in Workers : wPc'[v] = "cast" /\ wNeuron'[v] = n
                  => n \in succeeded'
               /\ Pending(CastAnyway(n))' \/ mEvent' = CastAnyway(n) \/ retries'[n] > 0
                  => continued'[n] > 0
    <2>1. UNCHANGED << mEvent, wPc, wNeuron >> /\ (retries'[n] > 0 => retries[n] > 0)
      BY <1>3, BoundsAssumption DEF RetryCast, maintainer, mLoop, workers, CountsOK
    <2>2. ASSUME Pending(TryCast(n))' PROVE n \in succeeded
      <3>1. Pending(TryCast(n)) \/ \E v \in Workers : publishTryCast(v) /\ wNeuron[v] = n
        BY <1>3, <2>2, OtherEvents DEF Pending, TryCast, CastAnyway
      <3> QED
        BY <3>1 DEF CastSource, publishTryCast
    <2>3. ASSUME Pending(CastAnyway(n))' PROVE continued[n] > 0
      <3>1. Pending(CastAnyway(n)) \/ m = n
        BY <1>3, <2>3, EventTypes, SendRange DEF RetryCast, Pending, CastAnyway
      <3> QED
        BY <1>3, <3>1 DEF CastSource, RetryCast
    <2> QED
      BY <1>0, <2>1, <2>2, <2>3 DEF CastSource
  <1>4. ASSUME NEW c \in Clients, Client(c)
        PROVE  /\ \/ Pending(TryCast(n))' \/ mEvent' = TryCast(n)
                  \/ \E v \in Workers : wPc'[v] = "cast" /\ wNeuron'[v] = n
                  => n \in succeeded'
               /\ Pending(CastAnyway(n))' \/ mEvent' = CastAnyway(n) \/ retries'[n] > 0
                  => continued'[n] > 0
    <2>1. UNCHANGED << mEvent, wPc, wNeuron, retries >>
      BY <1>4 DEF Client, ClientStep, trigLinks, trigLink, trigLinkRead, trigLinkWrite,
        trigLinkSend, clientCountNeurons, clientCountLinks, ClientScans, clientSetRunning,
        clientPublishSleep, callWait, waitReturns, maintainer, mLoop, workers, counts
    <2>2. ASSUME Pending(TryCast(n))' PROVE n \in succeeded
      <3>1. Pending(TryCast(n)) \/ \E v \in Workers : publishTryCast(v) /\ wNeuron[v] = n
        BY <1>4, <2>2, OtherEvents DEF Pending, TryCast, CastAnyway
      <3> QED
        BY <3>1 DEF CastSource, publishTryCast
    <2>3. ASSUME Pending(CastAnyway(n))' PROVE continued'[n] > 0
      <3>1. \/ Pending(CastAnyway(n)) \/ RetryCast(n)
            \/ \E v \in Workers : ContinueCast(v) /\ wNeuron[v] = n
        BY <1>4, <2>3, OtherEvents DEF Pending, TryCast, CastAnyway
      <3>2. ASSUME NEW v \in Workers, ContinueCast(v), wNeuron[v] = n PROVE continued'[n] > 0
        BY <3>2, BoundsAssumption DEF ContinueCast, CountsOK
      <3> QED
        BY <1>0, <3>1, <3>2 DEF CastSource, RetryCast
    <2> QED
      BY <1>0, <2>1, <2>2, <2>3 DEF CastSource
  <1>5. CASE UNCHANGED vars
    BY <1>5 DEF vars, maintainer, mLoop, workers, counts, CastSource, Pending
  <1> QED
    BY <1>1, <1>2, <1>3, <1>4, <1>5 DEF Next

\* A trigLink goroutine works on a link of the call that started it.
LEMMA CalledLinksStep ==
  ASSUME TypeOK, CalledLinks, [Next]_vars
  PROVE  CalledLinks'
  <1> USE DEF TypeOK
  <1>0. CASE UNCHANGED cTrig
    BY <1>0 DEF CalledLinks
  <1>1. ASSUME NEW c \in Clients, Client(c) PROVE CalledLinks'
    <2>1. ASSUME NEW ls \in Calls, trigLinks(c, ls) PROVE CalledLinks'
      BY <2>1 DEF trigLinks, ClientsOK, CalledLinks
    <2>2. ASSUME NEW l \in Links, trigLink(c, l) PROVE CalledLinks'
      BY <2>2 DEF trigLink, trigLinkRead, trigLinkWrite, trigLinkSend, ClientsOK, CalledLinks
    <2>3. CASE ClientStep(c) \/ callWait(c)
      BY <1>0, <2>3 DEF ClientStep, clientCountNeurons, clientCountLinks, ClientScans,
        clientSetRunning, clientPublishSleep, callWait, waitReturns
    <2> QED
      BY <1>1, <2>1, <2>2, <2>3 DEF Client
  <1>2. CASE Maintainer
    BY <1>0, <1>2 DEF clients, Maintainer, runBrainMaintainer, handleLinkReady, tryActivateNeuron,
      shouldActivate, testGroup, NextGroup, AcceptGroup, publishEnd, enqueueNeuron, neuronCast,
      castSelected, castWrite, castSend, castUnselected, castRest, castReset, NextVisit, SetLinks,
      countNeurons, countLinks, setRunning, publishSleep, forceSleepLinks, forceSleepNeurons,
      forceSleepState
  <1>3. ASSUME NEW w \in Workers, Worker(w) PROVE UNCHANGED cTrig
    BY <1>3 DEF clients, Worker, runNeuronWorker, setActivated, setInLinksInit, setOutLinksWait,
      ContinueCast, processOk, processError, publishTryCast
  <1> QED
    BY <1>0, <1>1, <1>2, <1>3 DEF Next, RetryCast, vars, clients

\* Where Ready comes from: a client's trigger or a cast of the source neuron.
LEMMA ReadySource ==
  ASSUME TypeOK, [Next]_vars, NEW l \in Links, linkState[l] # "Ready", linkState'[l] = "Ready"
  PROVE  \/ \E c \in Clients : cTrig[c][l] = "write"
         \/ castWrite /\ From[l] = mEvent.id
  <1> USE DEF TypeOK
  <1>1. CASE castWrite /\ l = mGroup[mIdx]
    <2>1. /\ mIdx \in 1..Len(mGroup) /\ mGroup \in Seq(Links)
          /\ mGroup \in Selections[mEvent.id] /\ mEvent.id \in Neurons
      BY <1>1, HandledEvent DEF castWrite, MaintainerOK, EventOK, CastOK, ScanOK
    <2>2. l \in Range(mGroup) /\ mGroup # << >>
      BY <1>1, <2>1 DEF Range
    <2> QED
      BY <1>1, <2>1, <2>2, GroupsAssumption
  <1> QED
    BY <1>1, LinkWriters DEF trigLinkWrite

\* A step that moves the maintainer's control point to p, or keeps it there.
LEMMA PcStep ==
  ASSUME TypeOK, [Next]_vars, NEW p, mPc' = p, p \in {"group", "enqueue", "castReset"}
  PROVE  \/ mPc = p /\ UNCHANGED maintainer
         \/ p = "group" /\ (shouldActivate \/ testGroup)
         \/ p = "enqueue" /\ testGroup
         \/ p = "castReset" /\ castRest
  <1> USE DEF TypeOK
  <1>1. CASE Maintainer
    <2>1. CASE runBrainMaintainer
      <3>1. Head(bQueue) \in Events
        BY <2>1, RangeTail DEF runBrainMaintainer, QueuesOK
      <3> QED
        BY <2>1, <3>1, EventFields DEF runBrainMaintainer
    <2>2. CASE shouldActivate
      BY <2>2 DEF shouldActivate, NextGroup, HandlerDone
    <2>3. CASE castUnselected \/ castReset
      BY <2>3 DEF castUnselected, castReset, NextVisit, HandlerDone
    <2>4. CASE castRest
      BY <2>4 DEF castRest, NextVisit, HandlerDone
    <2>5. CASE testGroup
      BY <2>5 DEF testGroup, NextGroup, AcceptGroup, HandlerDone
    <2> QED
      BY <1>1, <2>1, <2>2, <2>3, <2>4, <2>5 DEF Maintainer, HandlerDone, handleLinkReady,
        tryActivateNeuron, publishEnd, enqueueNeuron, neuronCast, castSelected, castWrite,
        castSend, countNeurons, countLinks, setRunning, publishSleep, forceSleepLinks,
        forceSleepNeurons, forceSleepState
  <1> QED
    BY <1>1, Frames DEF Next, vars, maintainer

\* A test begins with a whole group, and goes on over links that are Ready.
LEMMA TestStep ==
  ASSUME TypeOK, SupplyInv, [Next]_vars, mPc' = "group"
  PROVE  TestSupplied(mEvent.id)'
  <1> USE DEF TypeOK
  <1>1. CASE mPc = "group" /\ UNCHANGED maintainer
    <2>1. mEvent.id \in Neurons
      BY <1>1, HandledEvent DEF TestPcs
    <2>2. PICK g \in TriggerGroups[mEvent.id] :
            g # {} /\ mLeft \subseteq g /\ \A l \in g \ mLeft : Supplied(l)
      BY <1>1 DEF SupplyInv, TestSupplied
    <2>3. g \subseteq Links
      BY <2>1, <2>2, GroupsAssumption
    <2>4. \A l \in g \ mLeft : Supplied(l)'
      BY <2>2, <2>3, SuppliedStable
    <2> QED
      BY <1>1, <2>2, <2>4 DEF TestSupplied, maintainer, mLoop
  <1>2. ASSUME NEW gs, NextGroup(gs), gs \subseteq TriggerGroups[mEvent.id] \ {{}}
        PROVE  TestSupplied(mEvent.id)'
    <2>1. PICK g \in gs : mLeft' = g /\ mEvent' = mEvent
      BY <1>2 DEF NextGroup, HandlerDone
    <2> QED
      BY <1>2, <2>1 DEF TestSupplied
  <1>3. CASE shouldActivate
    BY <1>2, <1>3 DEF shouldActivate, HandlerDone
  <1>4. CASE testGroup
    <2>1. CASE NextGroup(mTodo)
      BY <1>2, <1>4, <2>1 DEF testGroup, MaintainerOK, ScanOK
    <2>2. CASE ~NextGroup(mTodo)
      <3>1. mLeft' = mLeft \ ReadyLinks /\ mEvent' = mEvent /\ mPc = "group"
        BY <1>4, <2>2 DEF testGroup, AcceptGroup
      <3>2. mEvent.id \in Neurons
        BY <3>1, HandledEvent DEF TestPcs
      <3>3. PICK g \in TriggerGroups[mEvent.id] :
              g # {} /\ mLeft \subseteq g /\ \A l \in g \ mLeft : Supplied(l)
        BY <3>1 DEF SupplyInv, TestSupplied
      <3>4. g \subseteq Links
        BY <3>2, <3>3, GroupsAssumption
      <3>5. \A l \in g \ mLeft' : Supplied(l)
        BY <3>1, <3>3, <3>4 DEF SupplyInv, ReadyLinks
      <3>6. \A l \in g \ mLeft' : Supplied(l)'
        BY <3>4, <3>5, SuppliedStable
      <3> QED
        BY <3>1, <3>3, <3>6 DEF TestSupplied
    <2> QED
      BY <2>1, <2>2
  <1> QED
    BY <1>1, <1>3, <1>4, PcStep

\* SupplyInv is inductive.
LEMMA SupplyStep == TypeOK /\ SupplyInv /\ [Next]_vars => SupplyInv'
  <1> SUFFICES ASSUME TypeOK, SupplyInv, [Next]_vars PROVE SupplyInv'
    OBVIOUS
  <1> USE DEF TypeOK
  <1>1. CastSource' /\ CalledLinks'
    BY CastSourceStep, CalledLinksStep DEF SupplyInv
  <1>2. ASSUME NEW l \in Links, linkState'[l] = "Ready" PROVE Supplied(l)'
    <2>1. CASE linkState[l] = "Ready"
      BY <2>1, SuppliedStable DEF SupplyInv
    <2>2. CASE \E c \in Clients : cTrig[c][l] = "write"
      BY <2>2 DEF SupplyInv, CalledLinks, Supplied
    <2>3. CASE castWrite /\ From[l] = mEvent.id
      <3>1. /\ mEvent.id \in Neurons /\ mEvent \in Events
            /\ mEvent.action \in {"try_cast", "cast_anyway"}
        BY <2>3, HandledEvent DEF castWrite, MaintainerOK, EventOK, CastOK, ScanOK
      <3>2. mEvent = TryCast(mEvent.id) \/ mEvent = CastAnyway(mEvent.id)
        BY <3>1, EventFields
      <3>3. Supplied(l)
        BY <2>3, <3>1, <3>2 DEF SupplyInv, CastSource, Supplied
      <3> QED
        BY <3>3, SuppliedStable
    <2> QED
      BY <1>2, <2>1, <2>2, <2>3, ReadySource
  <1>3. ASSUME mPc' = "enqueue" PROVE GroupSupplied(mEvent.id)'
    <2>1. CASE testGroup
      <3>1. /\ mPc = "group" /\ mEvent.id \in Neurons /\ mEvent' = mEvent
            /\ mLeft \subseteq ReadyLinks
        BY <1>3, <2>1, HandledEvent DEF testGroup, NextGroup, AcceptGroup, HandlerDone, TestPcs
      <3>2. PICK g \in TriggerGroups[mEvent.id] :
              g # {} /\ mLeft \subseteq g /\ \A l \in g \ mLeft : Supplied(l)
        BY <3>1 DEF SupplyInv, TestSupplied
      <3>3. \A l \in mLeft : Supplied(l)
        BY <3>1 DEF SupplyInv, ReadyLinks
      <3>4. GroupSupplied(mEvent.id)
        BY <3>2, <3>3 DEF GroupSupplied
      <3> QED
        BY <3>1, <3>4, SuppliedStable
    <2>2. CASE mPc = "enqueue" /\ UNCHANGED maintainer
      BY <2>2, HandledEvent, SuppliedStable DEF SupplyInv, maintainer, TestPcs
    <2> QED
      BY <1>3, <2>1, <2>2, PcStep
  <1>4. ASSUME NEW n \in Neurons, Queued(n)' PROVE GroupSupplied(n)'
    <2>1. CASE Queued(n)
      BY <2>1, SuppliedStable DEF SupplyInv
    <2>2. CASE enqueueNeuron /\ n = mEvent.id
      BY <2>2, SuppliedStable DEF SupplyInv, enqueueNeuron
    <2>3. CASE Maintainer
      <3>1. CASE enqueueNeuron
        <4> DEFINE S == Neurons \ {EndNeuron}
        <4>1. mEvent.id \in S /\ nQueue \in Seq(S) /\ nQueue' = Append(nQueue, mEvent.id)
          BY <3>1, HandledEvent DEF enqueueNeuron, publishEventActivateNeuron, MaintainerOK,
            EventOK, TestPcs, QueuesOK
        <4>2. Range(nQueue') = Range(nQueue) \cup {mEvent.id}
          <5> HIDE DEF S
          <5> QED BY <4>1, RangeAppend
        <4> QED
          BY <1>4, <2>1, <2>2, <3>1, <4>2 DEF Queued
      <3>2. CASE ~enqueueNeuron
        BY <1>4, <2>1, <2>3, <3>2 DEF Queued, Maintainer, runBrainMaintainer, handleLinkReady,
          tryActivateNeuron, shouldActivate, testGroup, NextGroup, AcceptGroup, publishEnd,
          neuronCast, castSelected, castWrite, castSend, castUnselected, castRest, castReset,
          NextVisit, SetLinks, countNeurons, countLinks, setRunning, publishSleep,
          forceSleepLinks, forceSleepNeurons, forceSleepState
      <3> QED
        BY <3>1, <3>2
    <2>4. ASSUME NEW w \in Workers, Worker(w) PROVE Queued(n)
      <3>1. CASE runNeuronWorker(w)
        BY <1>4, <3>1, RangeTail DEF runNeuronWorker, QueuesOK, Queued
      <3>2. CASE ~runNeuronWorker(w)
        BY <1>4, <2>4, <3>2 DEF Queued, status, Worker, setActivated, setInLinksInit,
          setOutLinksWait, ContinueCast, processOk, processError, publishTryCast
      <3> QED
        BY <3>1, <3>2
    <2>5. ASSUME NEW c \in Clients, Client(c) PROVE UNCHANGED nQueue
      BY <2>5 DEF Client, ClientStep, trigLinks, trigLink, trigLinkRead, trigLinkWrite,
        trigLinkSend, clientCountNeurons, clientCountLinks, ClientScans, clientSetRunning,
        clientPublishSleep, callWait, waitReturns
    <2> QED
      BY <1>4, <2>1, <2>3, <2>4, <2>5 DEF Next, RetryCast, vars, Queued
  <1>5. ASSUME NEW n \in Neurons, Runs(n)' PROVE GroupSupplied(n)'
    <2>1. CASE Runs(n) \/ Queued(n)
      BY <2>1, SuppliedStable DEF SupplyInv
    <2>2. CASE UNCHANGED workers
      BY <1>5, <2>1, <2>2 DEF workers, Runs
    <2>3. ASSUME NEW w \in Workers, Worker(w) PROVE Runs(n) \/ Queued(n)
      <3>1. CASE runNeuronWorker(w)
        <4>1. Queued(Head(nQueue))
          BY <3>1, RangeTail DEF runNeuronWorker, QueuesOK, Queued
        <4> QED
          BY <1>5, <3>1, <4>1 DEF runNeuronWorker, WorkersOK, Runs
      <3>2. CASE ~runNeuronWorker(w)
        BY <1>5, <2>3, <3>2 DEF Runs, WorkersOK, workers, Worker, setActivated, setInLinksInit,
          setOutLinksWait, ContinueCast, processOk, processError, publishTryCast
      <3> QED
        BY <3>1, <3>2
    <2>4. CASE Maintainer
      BY <2>2, <2>4 DEF Maintainer, runBrainMaintainer, handleLinkReady, tryActivateNeuron,
        shouldActivate, testGroup, NextGroup, AcceptGroup, publishEnd, enqueueNeuron, neuronCast,
        castSelected, castWrite, castSend, castUnselected, castRest, castReset, NextVisit,
        SetLinks, countNeurons, countLinks, setRunning, publishSleep, forceSleepLinks,
        forceSleepNeurons, forceSleepState
    <2>5. ASSUME NEW c \in Clients, Client(c) PROVE UNCHANGED workers
      BY <2>5 DEF Client, ClientStep, trigLinks, trigLink, trigLinkRead, trigLinkWrite,
        trigLinkSend, clientCountNeurons, clientCountLinks, ClientScans, clientSetRunning,
        clientPublishSleep, callWait, waitReturns
    <2> QED
      BY <2>1, <2>2, <2>3, <2>4, <2>5 DEF Next, RetryCast, vars
  <1> QED
    BY <1>1, <1>2, <1>3, <1>4, <1>5, TestStep DEF SupplyInv, Queued, Runs

\* A neuron is queued or run only after every link of one of its trigger groups
\* was triggered by a client or cast by a completed or continuing source.
THEOREM UpstreamCompleted == Spec => []UpstreamDone
  <1>1. Init => SupplyInv
    BY DEF Init, SupplyInv, CastSource, CalledLinks, Pending, Queued, Runs, Range, NoEvent,
      TryCast, CastAnyway
  <1>2. SupplyInv => UpstreamDone
    BY DEF SupplyInv, UpstreamDone, GroupSupplied
  <1> QED
    BY <1>1, <1>2, SupplyStep, TypeCorrect, PTL DEF Spec

-----------------------------------------------------------------------------
(* A link on Wait has an owner, and a Ready link is not withdrawn silently. *)

\* Only out-links of their source are put on Wait.
WaitOut ==
    \A l \in Links : linkState[l] = "Wait" => From[l] \in Neurons /\ l \in OutLinks(From[l])

\* The groups of a neuron hold links from and to that neuron.
LEMMA GroupEnds ==
  ASSUME NEW n \in Neurons, NEW l
  PROVE  /\ l \in InLinks(n) => To[l] = n
         /\ l \in OutLinks(n) => From[l] = n
  BY GroupsAssumption DEF InLinks, OutLinks

\* A cast_anyway that is being handled was asked for by ContinueCast.
LEMMA HandledCastAnyway ==
  ASSUME TypeOK, CastSource, castUnselected, isCastAnyway
  PROVE  mEvent.id \in Neurons /\ continued[mEvent.id] > 0
  <1>1. mEvent.id \in Neurons /\ mEvent \in Events
    BY HandledEvent DEF castUnselected, TypeOK
  <1>2. mEvent = CastAnyway(mEvent.id)
    BY <1>1, EventFields DEF isCastAnyway
  <1> QED
    BY <1>1, <1>2 DEF CastSource

\* Only setOutLinksWait and a cast_anyway put a link on Wait.
LEMMA WaitOutStep ==
  ASSUME TypeOK, WaitOut, [Next]_vars
  PROVE  WaitOut'
  <1> SUFFICES ASSUME NEW l \in Links, linkState'[l] = "Wait"
               PROVE  From[l] \in Neurons /\ l \in OutLinks(From[l])
    BY DEF WaitOut, OutLinks
  <1>1. CASE linkState[l] = "Wait"
    BY <1>1 DEF WaitOut
  <1>2. CASE castUnselected /\ l \in Unselected
    <2>1. mEvent.id \in Neurons
      BY <1>2, HandledEvent DEF castUnselected, TypeOK
    <2> QED
      BY <1>2, <2>1, GroupEnds DEF Unselected
  <1>3. ASSUME NEW w \in Workers, setOutLinksWait(w), l \in OutLinks(wNeuron[w])
        PROVE  From[l] \in Neurons /\ l \in OutLinks(From[l])
    <2>1. wNeuron[w] \in Neurons
      BY <1>3 DEF setOutLinksWait, TypeOK, WorkersOK
    <2> QED
      BY <1>3, <2>1, GroupEnds
  <1> QED
    BY <1>1, <1>2, <1>3, LinkWriters

\* The run of a neuron ends with its TryCast on the way or with a failure.
LEMMA RunStep ==
  ASSUME TypeOK, [Next]_vars, NEW n \in Neurons, Runs(n)
  PROVE  Runs(n)' \/ Pending(TryCast(n))' \/ n \in failed'
  <1> USE DEF TypeOK
  <1>1. PICK v \in Workers : wPc[v] # "idle" /\ wNeuron[v] = n
    BY DEF Runs
  <1>2. CASE UNCHANGED workers
    BY <1>1, <1>2 DEF workers, Runs
  <1>3. ASSUME NEW w \in Workers, Worker(w)
        PROVE  Runs(n)' \/ Pending(TryCast(n))' \/ n \in failed'
    <2>1. CASE publishTryCast(w)
      <3>1. wNeuron[w] \in Neurons
        BY <2>1 DEF publishTryCast, WorkersOK
      <3>2. TryCast(wNeuron[w]) \in Range(bQueue')
        BY <2>1, <3>1, EventTypes, SendRange DEF publishTryCast
      <3>3. CASE v = w
        BY <1>1, <3>2, <3>3 DEF Pending
      <3>4. CASE v # w
        BY <1>1, <2>1, <3>4 DEF publishTryCast, WorkersOK, Runs
      <3> QED
        BY <3>3, <3>4
    <2>2. CASE processError(w)
      BY <1>1, <2>2 DEF processError, WorkersOK, Runs
    <2>3. CASE ~publishTryCast(w) /\ ~processError(w)
      <3>1. wPc'[v] # "idle" /\ wNeuron'[v] = n
        BY <1>1, <1>3, <2>3 DEF Worker, runNeuronWorker, setActivated, setInLinksInit,
          setOutLinksWait, ContinueCast, processOk, workers, WorkersOK
      <3> QED
        BY <3>1 DEF Runs
    <2> QED
      BY <2>1, <2>2, <2>3
  <1> QED
    BY <1>2, <1>3, Frames DEF Next, vars

\* A TryCast on its way stays there until the maintainer takes it up.
LEMMA PendingStep ==
  ASSUME TypeOK, [Next]_vars, NEW n \in Neurons, Pending(TryCast(n))
  PROVE  \/ Pending(TryCast(n))'
         \/ mEvent' = TryCast(n) /\ mPc' = "try_cast" /\ mIdx' = 0
  <1> USE DEF TypeOK
  <1>1. CASE Maintainer
    <2>1. \/ TryCast(n) \in Range(bQueue')
          \/ mEvent' = TryCast(n) /\ mPc' = TryCast(n).action
      BY <1>1, MaintainerEvents DEF Pending
    <2>2. MaintainerOK'
      BY TypeStep
    <2>3. mPc' = "try_cast" => mIdx' = 0
      BY <2>2 DEF MaintainerOK, EventOK, CastOK, ScanOK
    <2> QED
      BY <2>1, <2>3 DEF Pending, TryCast
  <1>2. CASE \/ \E w \in Workers : Worker(w)
             \/ \E m \in Neurons : RetryCast(m)
             \/ \E c \in Clients : Client(c)
    <2>1. Range(bQueue) \subseteq Range(bQueue')
      BY <1>2, OtherEvents
    <2> QED
      BY <2>1 DEF Pending, TryCast
  <1>3. CASE UNCHANGED vars
    BY <1>3 DEF vars, Pending, TryCast
  <1> QED
    BY <1>1, <1>2, <1>3 DEF Next

Visited == {mGroup[i] : i \in 1..(mIdx - 1)}

\* While neuronCast handles the TryCast of n, a Wait link it has still ahead
\* stays ahead; if neuronCast returns early the neuron runs again.
LEMMA CastStep ==
  ASSUME TypeOK, ActiveHasWorker, [Next]_vars, NEW n \in Neurons,
         NEW l \in Links, l \in OutLinks(n), linkState[l] = "Wait", linkState'[l] = "Wait",
         mEvent = TryCast(n), CastAhead(l)
  PROVE  (mEvent' = TryCast(n) /\ CastAhead(l)') \/ Runs(n)'
  <1> USE DEF TypeOK
  <1>0. /\ mPc \in {"try_cast"} \cup CastPcs /\ ~isCastAnyway
        /\ mEvent.id = n /\ l \notin Visited
    BY DEF MaintainerOK, EventOK, CastOK, MaintainerPcs, TestPcs, TryCast, NoEvent,
      BrainSleep, isCastAnyway, CastAhead, Visited
  <1>1. CASE UNCHANGED maintainer
    BY <1>1 DEF maintainer, mLoop, CastAhead
  <1>2. CASE neuronCast
    <2>1. CASE neuronState[n] = "Inactive"
      <3>1. mEvent' = mEvent /\ mIdx' = 1 /\ mPc' = "cast"
        BY <1>0, <1>2, <2>1 DEF neuronCast
      <3> QED
        BY <3>1 DEF CastAhead
    <2>2. CASE neuronState[n] # "Inactive"
      <3>1. Runs(n)
        BY <2>2 DEF StatusOK, ActiveHasWorker, Runs
      <3> QED
        BY <1>2, <3>1 DEF neuronCast, workers, Runs
    <2> QED
      BY <2>1, <2>2
  <1>3. CASE castSelected \/ castWrite
    <2>1. /\ mEvent' = mEvent /\ mGroup' = mGroup /\ mIdx \in 1..Len(mGroup)
          /\ mGroup \in Seq(Links) /\ mPc' \in {"cast", "castWrite", "castSend"}
          /\ mIdx' = mIdx \/ mIdx' = mIdx + 1
      BY <1>3 DEF castSelected, castWrite, MaintainerOK, CastOK
    <2>2. CASE mIdx' = mIdx
      BY <1>0, <2>1, <2>2 DEF Visited, CastAhead
    <2>3. CASE mIdx' = mIdx + 1
      <3>1. l # mGroup[mIdx]
        <4>1. CASE castSelected
          BY <1>0, <2>1, <2>3, <4>1 DEF castSelected
        <4>2. CASE castWrite
          BY <4>2 DEF castWrite, StatusOK
        <4> QED
          BY <1>3, <4>1, <4>2
      <3>2. \A i \in 1..(mIdx' - 1) : i \in 1..(mIdx - 1) \/ i = mIdx
        BY <2>1, <2>3
      <3> QED
        BY <1>0, <2>1, <3>1, <3>2 DEF Visited, CastAhead
    <2> QED
      BY <2>1, <2>2, <2>3
  <1>4. CASE castSend
    BY <1>0, <1>4 DEF castSend, mLoop, Visited, CastAhead
  <1>5. ASSUME NEW vs, NextVisit(vs), NEW v \in vs, v[2] = l
        PROVE  mEvent' = TryCast(n) /\ CastAhead(l)'
    <2>1. mPc' = "castRest" /\ mTodo' = vs /\ UNCHANGED << mEvent, mGroup, mIdx >>
      BY <1>5 DEF NextVisit
    <2> QED
      BY <1>0, <1>5, <2>1 DEF Visited, CastAhead
  <1>6. CASE castUnselected
    <2>1. mIdx - 1 = Len(mGroup) /\ mGroup \in Seq(Links)
      BY <1>6 DEF castUnselected, MaintainerOK, CastOK
    <2>2. l \in Unselected
      BY <1>0, <2>1 DEF Visited, Range, Unselected
    <2>3. PICK g \in CastGroups[n] : l \in Range(g)
      BY DEF OutLinks
    <2>4. << g, l >> \in Visits /\ << g, l >>[2] = l
      BY <1>0, <2>2, <2>3 DEF Visits
    <2> QED
      BY <1>0, <1>5, <1>6, <2>4 DEF castUnselected
  <1>7. CASE castRest
    <2>1. PICK v \in mTodo :
            \/ /\ linkState[v[2]] = "Wait"
               /\ mPc' = "castReset" /\ mLeft' = {v[2]} /\ mTodo' = mTodo \ {v}
               /\ UNCHANGED << mEvent, mGroup, mIdx >>
            \/ linkState[v[2]] # "Wait" /\ NextVisit(mTodo \ {v})
      BY <1>7 DEF castRest
    <2>2. PICK u \in mTodo : u[2] = l
      BY <1>7 DEF castRest, CastAhead, MaintainerOK, ScanOK
    <2>3. CASE NextVisit(mTodo \ {v}) /\ linkState[v[2]] # "Wait"
      <3>1. u \in mTodo \ {v}
        BY <2>2, <2>3
      <3> QED
        BY <1>5, <2>2, <2>3, <3>1
    <2>4. CASE /\ mPc' = "castReset" /\ mLeft' = {v[2]} /\ mTodo' = mTodo \ {v}
               /\ UNCHANGED << mEvent, mGroup, mIdx >>
      BY <1>0, <2>2, <2>4 DEF Visited, CastAhead
    <2> QED
      BY <2>1, <2>3, <2>4
  <1>8. CASE castReset
    <2>1. l \notin mLeft
      BY <1>8 DEF castReset, SetLinks
    <2>2. PICK u \in mTodo : u[2] = l
      BY <1>8, <2>1 DEF castReset, CastAhead
    <2> QED
      BY <1>5, <1>8, <2>2 DEF castReset
  <1>9. CASE Maintainer
    BY <1>0, <1>2, <1>3, <1>4, <1>6, <1>7, <1>8, <1>9 DEF Maintainer, runBrainMaintainer,
      handleLinkReady, tryActivateNeuron, shouldActivate, testGroup, publishEnd,
      enqueueNeuron, countNeurons, countLinks, setRunning, publishSleep, forceSleepLinks,
      forceSleepNeurons, forceSleepState
  <1> QED
    BY <1>1, <1>9, Frames DEF Next, vars

\* WaitLinkOwned is inductive relative to the invariants above.
LEMMA WaitStep ==
  ASSUME TypeOK, ActiveHasWorker, CastSource, WaitOut, WaitLinkOwned, [Next]_vars
  PROVE  WaitLinkOwned'
  <1> USE DEF TypeOK
  <1> DEFINE Owned(l) == \/ Runs(From[l]) \/ Pending(TryCast(From[l]))
                         \/ mEvent = TryCast(From[l]) /\ CastAhead(l)
                         \/ From[l] \in failed \/ continued[From[l]] > 0
  <1>1. SUFFICES ASSUME NEW l \in Links, linkState'[l] = "Wait" PROVE Owned(l)'
    BY DEF WaitLinkOwned
  <1>2. From[l] \in Neurons /\ l \in OutLinks(From[l])
    BY <1>1, WaitOutStep DEF WaitOut, OutLinks
  <1>3. CASE linkState[l] = "Wait"
    <2>1. Owned(l)
      BY <1>3 DEF WaitLinkOwned
    <2>2. CASE Runs(From[l])
      BY <1>2, <2>2, RunStep DEF TryCast
    <2>3. CASE Pending(TryCast(From[l]))
      <3>1. mIdx' = 0 /\ mPc' = "try_cast" => CastAhead(l)'
        BY DEF CastAhead
      <3> QED
        BY <1>2, <2>3, <3>1, PendingStep DEF TryCast
    <2>4. CASE mEvent = TryCast(From[l]) /\ CastAhead(l)
      BY <1>1, <1>2, <1>3, <2>4, CastStep DEF TryCast
    <2>5. CASE From[l] \in failed \/ continued[From[l]] > 0
      BY <1>2, <2>5, CountsGrow
    <2> QED
      BY <2>1, <2>2, <2>3, <2>4, <2>5
  <1>4. CASE castUnselected /\ isCastAnyway /\ l \in Unselected
    <2>1. continued[From[l]] > 0
      BY <1>4, HandledCastAnyway, GroupEnds DEF Unselected
    <2> QED
      BY <1>2, <2>1, CountsGrow
  <1>5. ASSUME NEW w \in Workers, setOutLinksWait(w), l \in OutLinks(wNeuron[w]) PROVE Runs(From[l])'
    <2>1. wNeuron[w] \in Neurons /\ wNeuron'[w] = wNeuron[w] /\ wPc'[w] = "process"
      BY <1>5 DEF setOutLinksWait, WorkersOK
    <2> QED
      BY <1>5, <2>1, GroupEnds DEF Runs
  <1> QED
    BY <1>1, <1>3, <1>4, <1>5, LinkWriters

\* A link on Wait is never orphaned: its source runs, or the source's TryCast
\* is queued or being handled, unless the source failed or used ContinueCast.
THEOREM WaitingLinkHasOwner == Spec => []WaitLinkOwned
  <1> DEFINE Inv == CastSource /\ WaitOut /\ WaitLinkOwned
  <1>1. Init => Inv
    BY DEF Init, CastSource, WaitOut, WaitLinkOwned, Pending, Range, NoEvent, TryCast, CastAnyway
  <1>2. TypeOK /\ ActiveHasWorker /\ Inv /\ [Next]_vars => Inv'
    BY CastSourceStep, WaitOutStep, WaitStep
  <1> QED
    BY <1>1, <1>2, TypeCorrect, ActiveNeuronHasWorker, PTL DEF Spec

\* What the last loop of neuronCast found on Wait and is about to write is Ready
\* only if the program has triggered it since.
ResetInv ==
    mPc = "castReset" => \A l \in mLeft \cap Links : linkState[l] = "Ready" => l \in UNION Calls

\* Between the test and the write only a client makes a link Ready.
LEMMA ResetStep ==
  ASSUME TypeOK, CalledLinks, ResetInv, [Next]_vars
  PROVE  ResetInv'
  <1> SUFFICES ASSUME mPc' = "castReset", NEW l \in Links, l \in mLeft', linkState'[l] = "Ready"
               PROVE  l \in UNION Calls
    BY DEF ResetInv
  <1>1. CASE castRest
    BY <1>1 DEF castRest, NextVisit, HandlerDone, status
  <1>2. CASE mPc = "castReset" /\ UNCHANGED maintainer
    <2>1. CASE linkState[l] = "Ready"
      BY <1>2, <2>1 DEF ResetInv, maintainer, mLoop
    <2>2. CASE linkState[l] # "Ready"
      <3>1. ~castWrite
        BY <1>2 DEF castWrite
      <3>2. \E c \in Clients : cTrig[c][l] = "write"
        BY <2>2, <3>1, ReadySource
      <3> QED
        BY <3>2 DEF CalledLinks
    <2> QED
      BY <2>1, <2>2
  <1> QED
    BY <1>1, <1>2, PcStep

\* A trigger is not lost silently: a Ready link stops being Ready only through
\* a run of the neuron at one of its ends, because the brain goes to sleep, by a
\* cast_anyway that did not select it, or, between the test and the write of
\* neuronCast's last loop, where the program triggers an out-link of a neuron.
THEOREM ReadyLinkNotWithdrawn == Spec => NoSilentWithdrawal
  <1> DEFINE Cause(l) ==
               \/ Runs(To[l]) \/ Runs(From[l])
               \/ mPc = "brain_sleep"
               \/ mEvent = CastAnyway(From[l]) /\ l \notin Range(mGroup)
               \/ mEvent = TryCast(From[l]) /\ mPc = "castReset" /\ l \in UNION Calls
             Kept == \A l \in Links : linkState[l] = "Ready" /\ linkState'[l] # "Ready" => Cause(l)
  <1>1. Init => CalledLinks /\ ResetInv
    BY DEF Init, CalledLinks, ResetInv
  <1>2. TypeOK /\ CalledLinks /\ ResetInv /\ [Next]_vars => CalledLinks' /\ ResetInv'
    BY CalledLinksStep, ResetStep
  <1>3. TypeOK /\ ResetInv /\ [Next]_vars => [Kept]_vars
    <2> SUFFICES ASSUME TypeOK, ResetInv, [Next]_vars, NEW l \in Links,
                        linkState[l] = "Ready", linkState'[l] # "Ready"
                 PROVE  Cause(l)
      OBVIOUS
    <2>1. ASSUME NEW w \in Workers, setInLinksInit(w) \/ setOutLinksWait(w)
          PROVE  wNeuron[w] \in Neurons /\ Runs(wNeuron[w])
      BY <2>1 DEF setInLinksInit, setOutLinksWait, TypeOK, WorkersOK, Runs
    <2>2. CASE forceSleepLinks
      BY <2>2 DEF forceSleepLinks
    <2>3. ASSUME castUnselected \/ castReset, l \in Unselected
          PROVE  /\ mEvent = IF isCastAnyway THEN CastAnyway(From[l]) ELSE TryCast(From[l])
                 /\ l \notin Range(mGroup)
      <3>1. /\ mEvent.id \in Neurons /\ mEvent \in Events
            /\ mEvent.action \in {"try_cast", "cast_anyway"}
        BY <2>3, HandledEvent DEF castUnselected, castReset, TypeOK, MaintainerOK, CastOK
      <3>2. From[l] = mEvent.id /\ l \notin Range(mGroup)
        BY <2>3, <3>1, GroupEnds DEF Unselected
      <3> QED
        BY <3>1, <3>2, EventFields DEF isCastAnyway
    <2>4. CASE castUnselected /\ isCastAnyway /\ l \in Unselected
      BY <2>3, <2>4
    <2>5. CASE castReset /\ l \in mLeft
      <3>1. mPc = "castReset" /\ ~isCastAnyway /\ l \in Unselected
        BY <2>5 DEF castReset, TypeOK, MaintainerOK, CastOK
      <3> QED
        BY <2>3, <2>5, <3>1 DEF ResetInv
    <2> QED
      BY <2>1, <2>2, <2>4, <2>5, GroupEnds, LinkWriters
  <1> QED
    BY <1>1, <1>2, <1>3, TypeCorrect, PTL DEF Spec, NoSilentWithdrawal

-----------------------------------------------------------------------------
(* When everything has drained, Sleeping is the truth.                      *)

\* The maintainer has a refreshState or a ForceSleep of the links ahead.
RefreshAhead == mPc \notin {"idle", "sleep", "sleepNeurons", "setSleeping"}

\* An event is on its way, or a goroutine that will send one or has failed.
Astir ==
    \/ bQueue # << >>
    \/ \E w \in Workers : wPc[w] # "idle"
    \/ \E c \in Clients, l \in Links : cTrig[c][l] = "send"
    \/ failed # {}

\* Something is under way that will look at the links again.
Stirring == Astir \/ RefreshAhead

\* SettledSleep, strengthened: a brain that sleeps, or is past the point of
\* ForceSleep that resets the links, over a busy link is being woken up, and who
\* makes a link busy behind the back of the maintainer's count is astir.
WakeInv ==
    /\ \A c \in Clients, l \in Links : cTrig[c][l] # "none" => cPc[c] = "trig"
    /\ \/ state = "Sleeping" \/ mPc \in {"sleepNeurons", "setSleeping"}
       => StandByLinks = {} \/ Stirring
    /\ mPc = "countLinks" => StandByLinks \subseteq mLeft \/ Astir

\* trigLink goroutines exist only during the call of trigLinks.
LEMMA TrigStep ==
  ASSUME TypeOK, [Next]_vars, \A c \in Clients, l \in Links : cTrig[c][l] # "none" => cPc[c] = "trig"
  PROVE  \A c \in Clients, l \in Links : cTrig'[c][l] # "none" => cPc'[c] = "trig"
  <1> USE DEF TypeOK
  <1>1. CASE UNCHANGED clients
    BY <1>1 DEF clients
  <1>2. ASSUME NEW c \in Clients, Client(c)
        PROVE  \A d \in Clients, l \in Links : cTrig'[d][l] # "none" => cPc'[d] = "trig"
    <2>1. ASSUME NEW ls \in Calls, trigLinks(c, ls)
          PROVE  \A d \in Clients, l \in Links : cTrig'[d][l] # "none" => cPc'[d] = "trig"
      BY <2>1 DEF trigLinks, ClientsOK
    <2>2. ASSUME NEW k \in Links, trigLink(c, k)
          PROVE  \A d \in Clients, l \in Links : cTrig'[d][l] # "none" => cPc'[d] = "trig"
      BY <2>2 DEF trigLink, trigLinkRead, trigLinkWrite, trigLinkSend, ClientsOK
    <2>3. CASE ClientStep(c) \/ callWait(c)
      BY <2>3 DEF ClientStep, clientCountNeurons, clientCountLinks, ClientScans, clientSetRunning,
        clientPublishSleep, callWait, waitReturns, ClientsOK
    <2> QED
      BY <1>2, <2>1, <2>2, <2>3 DEF Client
  <1> QED
    BY <1>1, <1>2, Frames DEF Next, vars

\* A step of a worker, a retry or a trigLink goroutine that writes or sends leaves
\* the brain astir, and no other step of theirs changes that.
LEMMA AstirStep ==
  ASSUME TypeOK, [Next]_vars, ~Maintainer,
         \A c \in Clients, l \in Links : cTrig[c][l] # "none" => cPc[c] = "trig"
  PROVE  Astir' \/ (StandByLinks' = StandByLinks /\ ~Astir)
  <1> USE DEF TypeOK
  <1>1. ASSUME NEW w \in Workers, Worker(w) PROVE Astir'
    <2>1. CASE publishTryCast(w)
      <3>1. TryCast(wNeuron[w]) \in Events
        BY <2>1, EventTypes DEF publishTryCast, WorkersOK
      <3> QED
        BY <2>1, <3>1, SendRange DEF publishTryCast, Astir
    <2>2. CASE processError(w)
      BY <2>2 DEF processError, Astir
    <2>3. CASE ~publishTryCast(w) /\ ~processError(w)
      <3>1. wPc'[w] # "idle"
        BY <1>1, <2>3 DEF Worker, runNeuronWorker, setActivated, setInLinksInit, setOutLinksWait,
          ContinueCast, processOk, workers, WorkersOK
      <3> QED
        BY <3>1 DEF Astir
    <2> QED
      BY <2>1, <2>2, <2>3
  <1>2. ASSUME NEW n \in Neurons, RetryCast(n) PROVE Astir'
    BY <1>2, EventTypes, SendRange DEF RetryCast, Astir
  <1>3. ASSUME NEW c \in Clients, Client(c) PROVE Astir' \/ (StandByLinks' = StandByLinks /\ ~Astir)
    <2>1. ASSUME NEW l \in Links, trigLinkWrite(c, l) PROVE Astir'
      <3>1. cTrig'[c][l] = "send"
        BY <2>1 DEF trigLinkWrite, ClientsOK
      <3> QED
        BY <3>1 DEF Astir
    <2>2. ASSUME NEW l \in Links, trigLinkSend(c, l) PROVE Astir'
      BY <2>2, EventTypes, SendRange DEF trigLinkSend, Astir
    <2>3. CASE clientPublishSleep(c)
      BY <2>3, EventTypes, SendRange DEF clientPublishSleep, Astir
    <2>4. ASSUME UNCHANGED << linkState, bQueue, failed >>,
                 \A d \in Clients, l \in Links : cTrig[d][l] = "send" => cTrig'[d][l] = "send"
          PROVE  Astir' \/ (StandByLinks' = StandByLinks /\ ~Astir)
      <3>1. UNCHANGED workers
        BY <1>3, Frames
      <3>2. Astir => Astir'
        BY <2>4, <3>1 DEF Astir, workers
      <3>3. StandByLinks' = StandByLinks
        BY <2>4 DEF StandByLinks
      <3> QED
        BY <3>2, <3>3
    <2>5. ASSUME NEW ls \in Calls, trigLinks(c, ls)
          PROVE  Astir' \/ (StandByLinks' = StandByLinks /\ ~Astir)
      <3>1. \A d \in Clients, l \in Links : cTrig[d][l] = "send" => cTrig'[d][l] = "send"
        BY <2>5 DEF trigLinks, ClientsOK
      <3> QED
        BY <2>4, <2>5, <3>1 DEF trigLinks, status
    <2>6. ASSUME NEW l \in Links, trigLinkRead(c, l)
          PROVE  Astir' \/ (StandByLinks' = StandByLinks /\ ~Astir)
      <3>1. \A d \in Clients, k \in Links : cTrig[d][k] = "send" => cTrig'[d][k] = "send"
        BY <2>6 DEF trigLinkRead, ClientsOK
      <3> QED
        BY <2>4, <2>6, <3>1 DEF trigLinkRead, counts, status
    <2>7. CASE \/ clientCountNeurons(c) \/ clientCountLinks(c) \/ clientSetRunning(c)
               \/ callWait(c) \/ waitReturns(c)
      BY <2>4, <2>7 DEF clientCountNeurons, clientCountLinks, ClientScans, clientSetRunning,
        callWait, waitReturns, counts, status
    <2> QED
      BY <1>3, <2>1, <2>2, <2>3, <2>5, <2>6, <2>7 DEF Client, ClientStep, trigLink
  <1>4. CASE UNCHANGED vars
    BY <1>4 DEF vars, status, workers, clients, counts, StandByLinks, Astir
  <1> QED
    BY <1>1, <1>2, <1>3, <1>4 DEF Next

\* No step of any goroutine leaves a sleeping brain over a busy link.
LEMMA WakeStep == TypeOK /\ WakeInv /\ [Next]_vars => WakeInv'
  <1> SUFFICES ASSUME TypeOK, WakeInv, [Next]_vars
               PROVE  /\ \/ state' = "Sleeping" \/ mPc' \in {"sleepNeurons", "setSleeping"}
                         => StandByLinks' = {} \/ Stirring'
                      /\ mPc' = "countLinks" => StandByLinks' \subseteq mLeft' \/ Astir'
    BY TrigStep DEF WakeInv
  <1> USE DEF TypeOK
  <1>1. CASE Maintainer
    <2>0. StandByLinks \subseteq Links
      BY DEF StandByLinks
    <2>1. CASE runBrainMaintainer
      <3>1. Head(bQueue).action \notin
              {"idle", "sleep", "sleepNeurons", "setSleeping", "countLinks"}
        BY <2>1, RangeTail, EventFields DEF runBrainMaintainer, QueuesOK
      <3> QED
        BY <2>1, <3>1 DEF runBrainMaintainer, Stirring, RefreshAhead
    <2>2. CASE publishSleep
      BY <2>2, EventTypes, SendRange DEF publishSleep, Stirring, Astir
    <2>3. CASE countNeurons
      BY <2>0, <2>3 DEF countNeurons, StandByLinks, status, Stirring, RefreshAhead
    <2>4. CASE countLinks
      <3>1. UNCHANGED << linkState, bQueue, failed, workers, clients >>
        BY <2>4 DEF countLinks, status, counts
      <3>2. StandByLinks' = StandByLinks /\ (Astir => Astir')
        BY <3>1 DEF StandByLinks, Astir, workers, clients
      <3>3. StandByLinks \subseteq mLeft \/ Astir
        BY <2>4 DEF countLinks, WakeInv
      <3> QED
        BY <2>4, <3>2, <3>3 DEF countLinks, Stirring, RefreshAhead
    <2>5. CASE setRunning
      BY <2>5 DEF setRunning
    <2>6. CASE forceSleepLinks
      BY <2>6 DEF forceSleepLinks, StandByLinks
    <2>7. CASE forceSleepNeurons \/ forceSleepState
      BY <2>7 DEF forceSleepNeurons, forceSleepState, WakeInv, StandByLinks, Stirring, Astir,
        RefreshAhead, workers, clients, counts
    <2>8. CASE RefreshAhead' /\ mPc' # "countLinks"
      BY <2>8 DEF Stirring
    <2>9. CASE castUnselected \/ castRest \/ castReset
      BY <2>8, <2>9 DEF castUnselected, castRest, castReset, NextVisit, HandlerDone, RefreshAhead
    <2>10. CASE shouldActivate \/ testGroup
      BY <2>8, <2>10 DEF shouldActivate, testGroup, NextGroup, AcceptGroup, HandlerDone,
        RefreshAhead
    <2> QED
      BY <1>1, <2>1, <2>2, <2>3, <2>4, <2>5, <2>6, <2>7, <2>8, <2>9, <2>10 DEF Maintainer,
        handleLinkReady, tryActivateNeuron, publishEnd, enqueueNeuron, neuronCast, castSelected,
        castWrite, castSend, HandlerDone, RefreshAhead
  <1>2. CASE ~Maintainer
    <2>1. UNCHANGED maintainer
      BY <1>2, Frames DEF Next, vars
    <2>2. Astir' \/ (StandByLinks' = StandByLinks /\ ~Astir)
      BY <1>2, AstirStep DEF WakeInv
    <2>3. state' = "Sleeping" => state = "Sleeping" \/ Astir'
      <3>1. ASSUME NEW w \in Workers, Worker(w) PROVE UNCHANGED state
        BY <3>1 DEF Worker, runNeuronWorker, setActivated, setInLinksInit, setOutLinksWait,
          ContinueCast, processOk, processError, publishTryCast, status
      <3>2. ASSUME NEW c \in Clients, Client(c) PROVE state' \in {state, "Running"}
        BY <3>2 DEF Client, ClientStep, trigLinks, trigLink, trigLinkRead, trigLinkWrite,
          trigLinkSend, clientCountNeurons, clientCountLinks, clientSetRunning,
          clientPublishSleep, callWait, waitReturns, status
      <3> QED
        BY <1>2, <3>1, <3>2 DEF Next, vars, status, RetryCast
    <2> QED
      BY <2>1, <2>2, <2>3 DEF WakeInv, Stirring, RefreshAhead, maintainer, mLoop
  <1> QED
    BY <1>1, <1>2

\* When everything has drained and nothing has failed, a brain that says it
\* sleeps has no busy link and no Active neuron.
THEOREM DrainedSleepIsTrue == Spec => []SettledSleep
  <1>1. Init => WakeInv
    BY DEF Init, WakeInv, StandByLinks
  <1>2. WakeInv /\ ActiveHasWorker => SettledSleep
    <2> SUFFICES ASSUME WakeInv, ActiveHasWorker, Quiet, state = "Sleeping", failed = {}
                 PROVE  StandByLinks = {} /\ ActiveNeurons = {}
      BY DEF SettledSleep
    <2>1. ~Stirring
      BY DEF WakeInv, Quiet, Stirring, Astir, RefreshAhead
    <2>2. ActiveNeurons = {}
      BY DEF ActiveNeurons, ActiveHasWorker, Quiet
    <2> QED
      BY <2>1, <2>2 DEF WakeInv
  <1> QED
    BY <1>1, <1>2, WakeStep, TypeCorrect, ActiveNeuronHasWorker, PTL DEF Spec

=============================================================================
