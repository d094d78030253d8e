--------------------------- MODULE LifecycleProofs ---------------------------
(***************************************************************************)
(* Proofs about the life of a brain: the types whatever the program does,  *)
(* and, for a program that shuts a drained brain down and does not overlap *)
(* first triggers, QuietNoPanic, StateTellsQueues, OneMaintainer and       *)
(* RestartsClean, for every number of clients, workers, starts and calls   *)
(* and every length of the queues.                                         *)
(***************************************************************************)
EXTENDS Lifecycle, FiniteSetTheorems, TLAPS

-----------------------------------------------------------------------------
(* The inductive invariant: what holds under every use.                     *)

\* Overlapping starts have each made a neuron queue before they make their
\* event queue, so there are never more event queues than neuron queues.
Making == {c \in Clients : pc[c] = "makeB"}
QueuesMade == nQueue = bQueue + Cardinality(Making)

\* Only queues that were made are closed.
ClosedWereMade == bClosed \subseteq 1..bQueue /\ nClosed \subseteq 1..nQueue

\* A goroutine about to send has an event and has seen a queue, and there are
\* the workers and the maintainer of a start only once its queues are made.
SendersReady ==
    /\ \A p \in Goroutines : /\ pc[p] \in {"publish", "send"} => event[p] \in Events
                             /\ pc[p] = "send" => bQueue # 0
                             /\ pc[p] = "sendNeuron" => nQueue # 0
    /\ \A p \in Maintainers \cup NeuronWorkers : pc[p] # "none" => p[2] <= bQueue

\* A neuron is Active only while a worker is in its processor.
ActiveIsProcessing == neuron = "Active" => \E p \in NeuronWorkers : pc[p] = "process"

AlwaysInv == TypeOK /\ QueuesMade /\ ClosedWereMade /\ SendersReady /\ ActiveIsProcessing

-----------------------------------------------------------------------------
(* What holds under quiet use.                                              *)

StartPcs == {"start", "makeN", "makeB", "started"}

\* The brain is being stopped, is stopped or is being started.
Stopped == state = "Shutdown" \/ \E c \in Clients : pc[c] \in StopPcs

\* A start finds the state Shutdown and leaves it when it is over, a Shutdown
\* finds Sleeping. No other call is under way then, and the brain is at rest.
QuietPhases ==
    /\ ~panicked
    /\ \A c \in Clients : /\ pc[c] \in StartPcs => state = "Shutdown"
                          /\ pc[c] \in StopPcs => state = "Sleeping"
                          /\ c \in starting <=> pc[c] \in StartPcs
    /\ Stopped => /\ \A c, d \in Clients : Busy(c) /\ Busy(d) => c = d
                  /\ \A c \in Clients :
                        pc[c] \in {"idle", "waiting", "ensure"} \cup StartPcs \cup StopPcs
                  /\ Drained /\ link = "Init" /\ neuron = "Inactive"

\* Both queues are made and closed in step, and the state and the control
\* points tell whether they are open.
QuietQueues ==
    /\ bClosed = nClosed
    /\ nQueue = IF Making = {} THEN bQueue ELSE bQueue + 1
    /\ bQueue \in bClosed \cup {0} <=>
         \/ state = "Shutdown" /\ \A c \in Clients : pc[c] # "started"
         \/ \E c \in Clients : pc[c] = "setShutdown"

\* A Ready link will make the brain Running: it does already, or the client that
\* triggered the link has still to call refreshState.
ReadyIsNoticed ==
    link = "Ready" =>
        \/ state = "Running"
        \/ \E c \in Clients : \/ pc[c] = "refresh"
                              \/ pc[c] \in {"publish", "send"} /\ event[c] = "link_ready"

\* Something for a maintainer that has not run yet to do.
Pending ==
    \/ \E g \in Starts : g = bQueue /\ bBuf[g] # << >>
    \/ \E c \in Clients : pc[c] \in {"publish", "send"} /\ event[c] = "link_ready"

Maint(g) == << "maintainer", g >>

\* The maintainer of start g ranges over queue g, the earlier ones have nothing
\* left to do, and the present one has run before the brain can be quiet.
QuietMaintainers ==
    /\ \A g \in Starts :
         /\ pc[Maint(g)] = "none" <=> g > bQueue
         /\ g < bQueue => pc[Maint(g)] \in {"range", "done"}
         /\ pc[Maint(g)] \notin {"none", "spawned"} => chan[Maint(g)] = g
         /\ pc[Maint(g)] \in {"none", "spawned"} => chan[Maint(g)] = 0
         /\ g # bQueue => bBuf[g] = << >>
         /\ g = bQueue /\ pc[Maint(g)] = "spawned" =>
              /\ Pending \/ \E c \in Clients : pc[c] \in {"started", "trig"}
              /\ link = "Ready" => Pending

QuietInv == QuietPhases /\ QuietQueues /\ ReadyIsNoticed /\ QuietMaintainers

LifeInv == AlwaysInv /\ (use = "quiet" => QuietInv)

-----------------------------------------------------------------------------
(* Goroutines, and TypeOK in parts.                                         *)

MaintainerPcs == {"none", "spawned", "range", "try_activate_neuron", "enqueue", "sendNeuron",
                  "brain_sleep", "refresh", "publish", "send", "done"}
WorkerPcs == {"none", "spawned", "range", "activate", "process", "publish", "send", "done"}
ClientPcs == {"idle", "waiting", "ensure", "start", "makeN", "makeB", "started", "trig",
              "refresh", "publish", "send", "close", "setShutdown"}
Runners == Maintainers \cup NeuronWorkers

PcOK(p, l) ==
    /\ p \in Maintainers => l \in MaintainerPcs
    /\ p \in NeuronWorkers => l \in WorkerPcs
    /\ p \in Clients => l \in ClientPcs

ScalarTypes ==
    /\ state \in {"Shutdown", "Sleeping", "Running"}
    /\ link \in {"Init", "Ready"} /\ neuron \in {"Inactive", "Active"}
    /\ nQueue \in 0..MaxStarts /\ bQueue \in 0..MaxStarts
    /\ nClosed \subseteq Starts /\ bClosed \subseteq Starts
    /\ starting \subseteq Clients /\ panicked \in BOOLEAN
    /\ calls \in 0..MaxCalls /\ use \in {"quiet", "waited", "rough"}
BufferTypes ==
    /\ nBuf \in [Starts -> 0..NQueueLen]
    /\ bBuf \in [Starts -> Seq(Events)] /\ \A g \in Starts : Len(bBuf[g]) <= BQueueLen
ControlTypes == DOMAIN pc = Goroutines /\ \A p \in Goroutines : PcOK(p, pc[p])
EventTypes == event \in [Goroutines -> Events \cup {"none"}]
ChanTypes ==
    /\ chan \in [Runners -> 0..MaxStarts]
    /\ \A p \in Runners : pc[p] \notin {"none", "spawned"} => chan[p] # 0

\* TypeOK, in the parts the steps disturb.
LEMMA TypeParts ==
    TypeOK <=> ScalarTypes /\ BufferTypes /\ ControlTypes /\ EventTypes /\ ChanTypes
BY DEF TypeOK, ScalarTypes, BufferTypes, ControlTypes, EventTypes, ChanTypes, Runners, PcOK,
       MaintainerPcs, WorkerPcs, ClientPcs, StopPcs, Goroutines

\* The same after a step.
LEMMA TypePartsNext ==
    ScalarTypes' /\ BufferTypes' /\ ControlTypes' /\ EventTypes' /\ ChanTypes' => TypeOK'
BY DEF TypeOK, ScalarTypes, BufferTypes, ControlTypes, EventTypes, ChanTypes, Runners, PcOK,
       MaintainerPcs, WorkerPcs, ClientPcs, StopPcs, Goroutines

\* A goroutine is a client, a maintainer or a worker, and one of them only; a
\* maintainer is that of one start.
LEMMA Kinds ==
    /\ Clients \cap Runners = {} /\ Maintainers \cap NeuronWorkers = {}
    /\ Goroutines = Clients \cup Runners /\ Runners = Maintainers \cup NeuronWorkers
    /\ \A p \in Runners : p[2] \in Starts
    /\ \A p \in Maintainers : p = Maint(p[2])
    /\ \A g \in Starts : Maint(g) \in Maintainers /\ Maint(g)[2] = g
    /\ \A g, h \in Starts : Maint(g) = Maint(h) => g = h
<1>1. \A p \in Maintainers : p[1] = "maintainer" /\ p[2] \in Starts /\ p = Maint(p[2])
  BY DEF Maintainers, Maint
<1>2. \A p \in NeuronWorkers : p[1] = "worker" /\ p[2] \in Starts
  BY DEF NeuronWorkers
<1>3. \A g \in Starts : Maint(g) \in Maintainers /\ Maint(g)[2] = g
  BY DEF Maintainers, Maint
<1>4. Maintainers \cap NeuronWorkers = {}
  BY <1>1, <1>2
<1> QED BY <1>1, <1>2, <1>3, <1>4, ClientsAssumption DEF Runners, Goroutines

\* One goroutine moves, the others stay where they are.
LEMMA Moved ==
    ASSUME DOMAIN pc = Goroutines, NEW p \in Goroutines, NEW from, NEW to, Step(p, from, to)
    PROVE  /\ ~panicked /\ pc[p] = from /\ pc'[p] = to /\ DOMAIN pc' = Goroutines
           /\ \A q \in Goroutines : q # p => pc'[q] = pc[q]
BY DEF Step

\* Where no client enters or leaves the making of its event queue.
LEMMA MakingKept ==
    ASSUME \A c \in Clients : pc'[c] = "makeB" <=> pc[c] = "makeB",
           UNCHANGED << nQueue, bQueue >>, QueuesMade
    PROVE  Making' = Making /\ QueuesMade'
<1>1. Making' = Making
  BY DEF Making
<1> QED BY <1>1 DEF QueuesMade

\* The clients between the two makes of maintainerStart are finitely many.
LEMMA MakingBound ==
    /\ IsFiniteSet(Making) /\ Cardinality(Making) \in Nat
    /\ \A c \in Clients : pc[c] = "makeB" => Cardinality(Making) > 0
<1>1. Making \subseteq Clients
  BY DEF Making
<1>2. IsFiniteSet(Making) /\ Cardinality(Making) \in Nat
  BY <1>1, ClientsAssumption, FS_Subset, FS_CardinalityType
<1>3. ASSUME NEW c \in Clients, pc[c] = "makeB" PROVE Cardinality(Making) > 0
  <2>1. c \in Making
    BY <1>3 DEF Making
  <2>2. Cardinality(Making) # 0
    BY <1>2, <2>1, FS_EmptySet
  <2> QED BY <1>2, <2>2
<1> QED BY <1>2, <1>3
-----------------------------------------------------------------------------
(* Steps under every use.                                                   *)

\* What a step of one goroutine that makes no queue does to the control points
\* and the events.
LEMMA Ordinary ==
    ASSUME AlwaysInv, NEW p \in Goroutines, NEW from, NEW to, NEW e \in Events \cup {"none"},
           Step(p, from, to), PcOK(p, to), from # "makeB", to # "makeB",
           p \in Runners => from # "none",
           UNCHANGED << nQueue, bQueue >>,
           event' = event \/ event' = [event EXCEPT ![p] = e],
           to \in {"publish", "send"} => event'[p] \in Events,
           to = "send" => bQueue # 0, to = "sendNeuron" => nQueue # 0
    PROVE  /\ ControlTypes' /\ EventTypes' /\ QueuesMade' /\ SendersReady'
           /\ pc[p] = from /\ pc'[p] = to /\ ~panicked
           /\ \A q \in Goroutines : q # p => pc'[q] = pc[q] /\ event'[q] = event[q]
<1>1. /\ ControlTypes /\ EventTypes /\ QueuesMade /\ SendersReady
  BY TypeParts DEF AlwaysInv
<1>2. /\ ~panicked /\ pc[p] = from /\ pc'[p] = to /\ DOMAIN pc' = Goroutines
      /\ \A q \in Goroutines : q # p => pc'[q] = pc[q]
  BY <1>1, Moved DEF ControlTypes
<1>3. EventTypes' /\ \A q \in Goroutines : q # p => event'[q] = event[q]
  BY <1>1 DEF EventTypes
<1>4. ControlTypes'
  BY <1>1, <1>2 DEF ControlTypes, PcOK
<1>5. QueuesMade'
  <2>1. \A c \in Clients : pc'[c] = "makeB" <=> pc[c] = "makeB"
    BY <1>2, Kinds
  <2> QED BY <1>1, <2>1, MakingKept
<1>6. SendersReady'
  <2>1. ASSUME NEW q \in Goroutines
        PROVE  /\ pc'[q] \in {"publish", "send"} => event'[q] \in Events
               /\ pc'[q] = "send" => bQueue' # 0
               /\ pc'[q] = "sendNeuron" => nQueue' # 0
    <3>1. CASE q = p
      BY <1>2, <3>1
    <3>2. CASE q # p
      BY <1>1, <1>2, <1>3, <3>2 DEF SendersReady
    <3> QED BY <3>1, <3>2
  <2>2. ASSUME NEW q \in Runners, pc'[q] # "none" PROVE q[2] <= bQueue'
    <3>1. pc[q] # "none"
      BY <1>2, <2>2, Kinds
    <3> QED BY <1>1, <3>1, Kinds DEF SendersReady
  <2> QED BY <2>1, <2>2, Kinds DEF SendersReady
<1> QED BY <1>2, <1>3, <1>4, <1>5, <1>6

\* Such a step, when it leaves the queues a goroutine ranges over alone.
LEMMA ChanKept ==
    ASSUME AlwaysInv, NEW p \in Goroutines, NEW from, NEW to, Step(p, from, to),
           chan' = chan, p \in Runners => from \notin {"none", "spawned"}
    PROVE  ChanTypes'
<1>1. ChanTypes /\ DOMAIN pc = Goroutines
  BY TypeParts DEF AlwaysInv, ControlTypes
<1>2. pc[p] = from /\ \A q \in Goroutines : q # p => pc'[q] = pc[q]
  BY <1>1, Moved
<1> QED BY <1>1, <1>2, Kinds DEF ChanTypes

\* The neuron, when it stays as it is and the step is not a processor's.
LEMMA NeuronKept ==
    ASSUME AlwaysInv, NEW p \in Goroutines, NEW from, NEW to, Step(p, from, to),
           neuron' = neuron \/ neuron' = "Inactive", p \in NeuronWorkers => from # "process"
    PROVE  ActiveIsProcessing'
<1>1. ActiveIsProcessing /\ DOMAIN pc = Goroutines
  BY TypeParts DEF AlwaysInv, ControlTypes
<1>2. pc[p] = from /\ \A q \in Goroutines : q # p => pc'[q] = pc[q]
  BY <1>1, Moved
<1> QED BY <1>1, <1>2, Kinds DEF ActiveIsProcessing

\* A step that leaves the status, the queues and the calls alone.
LEMMA QuietData ==
    ASSUME AlwaysInv, UNCHANGED << status, queues, starting, panicked, calls, use >>
    PROVE  ScalarTypes' /\ BufferTypes' /\ ClosedWereMade'
BY TypeParts DEF AlwaysInv, ScalarTypes, BufferTypes, ClosedWereMade, status, queues

\* A panic stops the program and leaves the control points where they are.
LEMMA PanicStep ==
    ASSUME AlwaysInv, NEW p \in Goroutines, NEW at, Panic(p, at)
    PROVE  AlwaysInv' /\ pc' = pc
<1>1. /\ panicked' = TRUE
      /\ UNCHANGED << state, link, neuron, nQueue, bQueue, nBuf, bBuf, nClosed, bClosed, pc,
                      event, chan, starting, calls, use >>
  BY DEF Panic, status, queues
<1>2. ScalarTypes' /\ BufferTypes' /\ ControlTypes' /\ EventTypes' /\ ChanTypes'
  BY <1>1, TypeParts
     DEF AlwaysInv, ScalarTypes, BufferTypes, ControlTypes, EventTypes, ChanTypes, PcOK
<1>3. QueuesMade' /\ ClosedWereMade' /\ SendersReady' /\ ActiveIsProcessing'
  BY <1>1 DEF AlwaysInv, QueuesMade, Making, ClosedWereMade, SendersReady, ActiveIsProcessing
<1> QED BY <1>1, <1>2, <1>3, TypePartsNext DEF AlwaysInv

\* Where a goroutine goes on after publishEvent.
LEMMA PublishedPcs ==
    ASSUME NEW p \in Goroutines
    PROVE  /\ PcOK(p, Published(p)) /\ Published(p) \in {"idle", "range", "refresh"}
           /\ p \in Clients /\ event[p] # "brain_sleep" => Published(p) = "refresh"
           /\ p \in Clients => Published(p) \in {"idle", "refresh"}
           /\ p \in Maintainers => Published(p) \in {"range", "refresh"}
           /\ p \in NeuronWorkers => Published(p) = "range"
BY Kinds DEF PcOK, Published, Rest, MaintainerPcs, WorkerPcs, ClientPcs

\* publishEvent's test of the state keeps the invariant.
LEMMA AlwaysPublish ==
    ASSUME AlwaysInv, NEW p \in Goroutines, publishEvent(p)
    PROVE  AlwaysInv'
<1>0. /\ UNCHANGED << status, queues, chan, starting, panicked, calls, use >>
      /\ UNCHANGED << nQueue, bQueue, neuron >>
  BY DEF publishEvent, status, queues
<1>1. ScalarTypes' /\ BufferTypes' /\ ClosedWereMade'
  BY <1>0, QuietData
<1>2. CASE /\ Step(p, "publish", Published(p))
           /\ event' = [event EXCEPT ![p] = "none"]
  <2>1. ControlTypes' /\ EventTypes' /\ QueuesMade' /\ SendersReady'
    BY <1>0, <1>2, PublishedPcs, Ordinary
  <2>2. ChanTypes' /\ ActiveIsProcessing'
    BY <1>0, <1>2, ChanKept, NeuronKept
  <2> QED BY <1>1, <2>1, <2>2, TypePartsNext DEF AlwaysInv
<1>3. CASE /\ bQueue # 0
           /\ Step(p, "publish", "send")
           /\ UNCHANGED event
  <2>1. event'[p] \in Events /\ PcOK(p, "send")
    BY <1>3 DEF AlwaysInv, SendersReady, Step, PcOK, MaintainerPcs, WorkerPcs, ClientPcs
  <2>2. ControlTypes' /\ EventTypes' /\ QueuesMade' /\ SendersReady'
    BY <1>0, <1>3, <2>1, Ordinary
  <2>3. ChanTypes' /\ ActiveIsProcessing'
    BY <1>0, <1>3, ChanKept, NeuronKept
  <2> QED BY <1>1, <2>2, <2>3, TypePartsNext DEF AlwaysInv
<1> QED BY <1>2, <1>3 DEF publishEvent

\* So does the send that follows it, or the panic on a closed queue.
LEMMA AlwaysSend ==
    ASSUME AlwaysInv, NEW p \in Goroutines, publishSend(p)
    PROVE  AlwaysInv'
<1>1. CASE /\ Step(p, "send", Published(p))
           /\ bQueue \notin bClosed /\ Len(bBuf[bQueue]) < BQueueLen
           /\ bBuf' = [bBuf EXCEPT ![bQueue] = Append(@, event[p])]
           /\ event' = [event EXCEPT ![p] = "none"]
           /\ UNCHANGED << status, nQueue, bQueue, nBuf, nClosed, bClosed, chan, starting,
                           panicked, calls, use >>
  <2>1. ControlTypes' /\ EventTypes' /\ QueuesMade' /\ SendersReady'
    BY <1>1, PublishedPcs, Ordinary
  <2>2. ChanTypes' /\ ActiveIsProcessing'
    BY <1>1, ChanKept, NeuronKept DEF status
  <2>3. ScalarTypes' /\ ClosedWereMade'
    BY <1>1, TypeParts DEF AlwaysInv, ScalarTypes, ClosedWereMade, status
  <2>4. event[p] \in Events /\ bQueue \in Starts
    BY <1>1, TypeParts DEF AlwaysInv, SendersReady, Step, ScalarTypes, Starts
  <2>5. bBuf[bQueue] \in Seq(Events) /\ BufferTypes
    BY <2>4, TypeParts DEF AlwaysInv, BufferTypes
  <2>6. /\ Append(bBuf[bQueue], event[p]) \in Seq(Events)
        /\ Len(Append(bBuf[bQueue], event[p])) = Len(bBuf[bQueue]) + 1
        /\ Len(bBuf[bQueue]) \in Nat
    BY <2>4, <2>5
  <2>7. BufferTypes'
    BY <1>1, <2>4, <2>5, <2>6, LifecycleAssumption DEF BufferTypes
  <2> QED BY <2>1, <2>2, <2>3, <2>7, TypePartsNext DEF AlwaysInv
<1>2. CASE Panic(p, "send")
  BY <1>2, PanicStep
<1> QED BY <1>1, <1>2 DEF publishSend

\* refreshState, in the maintainer or in a client.
LEMMA AlwaysRefresh ==
    ASSUME AlwaysInv, NEW p \in Goroutines, refreshState(p), p \notin NeuronWorkers
    PROVE  AlwaysInv'
<1>1. CASE /\ Step(p, "refresh", Rest(p))
           /\ state' = "Running"
           /\ UNCHANGED << link, neuron, queues, event, chan, starting, panicked, calls, use >>
  <2>0. PcOK(p, Rest(p)) /\ Rest(p) \in {"idle", "range"}
    BY Kinds DEF PcOK, Rest, MaintainerPcs, ClientPcs
  <2>1. ControlTypes' /\ EventTypes' /\ QueuesMade' /\ SendersReady'
    BY <1>1, <2>0, Ordinary DEF queues
  <2>2. ChanTypes' /\ ActiveIsProcessing'
    BY <1>1, ChanKept, NeuronKept
  <2>3. ScalarTypes' /\ BufferTypes' /\ ClosedWereMade'
    BY <1>1, TypeParts DEF AlwaysInv, ScalarTypes, BufferTypes, ClosedWereMade, queues
  <2> QED BY <2>1, <2>2, <2>3, TypePartsNext DEF AlwaysInv
<1>2. CASE /\ Publish(p, "brain_sleep", "refresh")
           /\ UNCHANGED << status, queues, chan, starting, panicked, calls, use >>
  <2>0. /\ Step(p, "refresh", "publish") /\ event' = [event EXCEPT ![p] = "brain_sleep"]
        /\ "brain_sleep" \in Events /\ PcOK(p, "publish")
    BY <1>2 DEF Publish, Events, PcOK, MaintainerPcs, WorkerPcs, ClientPcs
  <2>a. event'[p] = "brain_sleep"
    BY <2>0, TypeParts DEF AlwaysInv, EventTypes
  <2>1. ControlTypes' /\ EventTypes' /\ QueuesMade' /\ SendersReady'
    BY <1>2, <2>0, <2>a, Ordinary DEF queues
  <2>2. ChanTypes' /\ ActiveIsProcessing'
    BY <1>2, <2>0, ChanKept, NeuronKept DEF status
  <2>3. ScalarTypes' /\ BufferTypes' /\ ClosedWereMade'
    BY <1>2, QuietData
  <2> QED BY <2>1, <2>2, <2>3, TypePartsNext DEF AlwaysInv
<1> QED BY <1>1, <1>2 DEF refreshState
\* A goroutine of the brain begins: the queue it reads has been made.
LEMMA AlwaysRun ==
    ASSUME AlwaysInv, NEW p \in Runners, Step(p, "spawned", "range"),
           chan' = [chan EXCEPT ![p] = bQueue] \/ chan' = [chan EXCEPT ![p] = nQueue],
           UNCHANGED << status, queues, event, starting, panicked, calls, use >>
    PROVE  AlwaysInv'
<1>0. p \in Goroutines /\ PcOK(p, "range")
  BY Kinds DEF PcOK, MaintainerPcs, WorkerPcs
<1>1. /\ ControlTypes' /\ EventTypes' /\ QueuesMade' /\ SendersReady' /\ pc[p] = "spawned"
      /\ \A q \in Goroutines : q # p => pc'[q] = pc[q]
  BY <1>0, Ordinary DEF queues
<1>2. ScalarTypes' /\ BufferTypes' /\ ClosedWereMade' /\ ActiveIsProcessing'
  BY <1>0, QuietData, NeuronKept DEF status
<1>3. ChanTypes'
  <2>1. bQueue \in 1..MaxStarts /\ nQueue \in 1..MaxStarts
    <3>1. bQueue # 0
      BY <1>1, Kinds DEF AlwaysInv, SendersReady, Starts
    <3> QED BY <3>1, MakingBound, TypeParts DEF AlwaysInv, QueuesMade, ScalarTypes
  <2>2. ChanTypes
    BY TypeParts DEF AlwaysInv
  <2> QED BY <1>1, <2>1, <2>2, Kinds, LifecycleAssumption DEF ChanTypes
<1> QED BY <1>1, <1>2, <1>3, TypePartsNext DEF AlwaysInv

\* The handlers of the maintainer.
LEMMA AlwaysMaintain ==
    ASSUME AlwaysInv, NEW p \in Maintainers, maintain(p)
    PROVE  AlwaysInv'
<1>0. p \in Goroutines /\ p \in Runners /\ p \notin NeuronWorkers /\ p \notin Clients
  BY Kinds
<1>1. CASE /\ pc[p] = "range" /\ bBuf[chan[p]] # << >>
           /\ LET e == Head(bBuf[chan[p]])
              IN \/ e = "link_ready" /\ Publish(p, "try_activate_neuron", "range")
                 \/ e # "link_ready" /\ UNCHANGED event
                    /\ Step(p, "range", IF e = "try_cast" THEN "refresh" ELSE e)
           /\ bBuf' = [bBuf EXCEPT ![chan[p]] = Tail(@)]
           /\ UNCHANGED << status, nQueue, bQueue, nBuf, nClosed, bClosed, chan, starting,
                           panicked, calls, use >>
  <2>1. chan[p] \in Starts
    BY <1>0, <1>1, TypeParts DEF AlwaysInv, ChanTypes, Starts
  <2>2. bBuf[chan[p]] \in Seq(Events) /\ BufferTypes
    BY <2>1, TypeParts DEF AlwaysInv, BufferTypes
  <2>3. /\ Head(bBuf[chan[p]]) \in Events /\ Tail(bBuf[chan[p]]) \in Seq(Events)
        /\ Len(Tail(bBuf[chan[p]])) = Len(bBuf[chan[p]]) - 1 /\ Len(bBuf[chan[p]]) \in Nat
    BY <1>1, <2>2
  <2>4. BufferTypes'
    BY <1>1, <2>1, <2>2, <2>3, LifecycleAssumption DEF BufferTypes
  <2>5. ScalarTypes' /\ ClosedWereMade'
    BY <1>1, TypeParts DEF AlwaysInv, ScalarTypes, ClosedWereMade, status
  <2>6. /\ ControlTypes' /\ EventTypes' /\ QueuesMade' /\ SendersReady'
        /\ ChanTypes' /\ ActiveIsProcessing'
    <3>1. CASE Publish(p, "try_activate_neuron", "range")
      <4>1. /\ Step(p, "range", "publish")
            /\ event' = [event EXCEPT ![p] = "try_activate_neuron"]
            /\ "try_activate_neuron" \in Events /\ PcOK(p, "publish")
        BY <1>0, <3>1 DEF Publish, Events, PcOK, MaintainerPcs
      <4>2. event'[p] = "try_activate_neuron"
        BY <1>0, <4>1, TypeParts DEF AlwaysInv, EventTypes
      <4> QED BY <1>0, <1>1, <4>1, <4>2, Ordinary, ChanKept, NeuronKept DEF status
    <3>2. ASSUME NEW l \in {"refresh", "try_activate_neuron", "brain_sleep"},
                 Step(p, "range", l), UNCHANGED event
          PROVE  /\ ControlTypes' /\ EventTypes' /\ QueuesMade' /\ SendersReady'
                 /\ ChanTypes' /\ ActiveIsProcessing'
      <4>1. PcOK(p, l)
        BY <1>0 DEF PcOK, MaintainerPcs
      <4> QED BY <1>0, <1>1, <3>2, <4>1, Ordinary, ChanKept, NeuronKept DEF status
    <3> QED BY <1>1, <2>3, <3>1, <3>2 DEF Events
  <2> QED BY <2>4, <2>5, <2>6, TypePartsNext DEF AlwaysInv
<1>2. CASE /\ Step(p, "range", "done")
           /\ UNCHANGED << status, queues, event, chan, starting, panicked, calls, use >>
  <2>0. PcOK(p, "done")
    BY <1>0 DEF PcOK, MaintainerPcs
  <2>1. ControlTypes' /\ EventTypes' /\ QueuesMade' /\ SendersReady'
    BY <1>0, <1>2, <2>0, Ordinary DEF queues
  <2>2. ChanTypes' /\ ActiveIsProcessing' /\ ScalarTypes' /\ BufferTypes' /\ ClosedWereMade'
    BY <1>0, <1>2, ChanKept, NeuronKept, QuietData DEF status
  <2> QED BY <2>1, <2>2, TypePartsNext DEF AlwaysInv
<1> QED BY <1>1, <1>2 DEF maintain

\* Every step of a maintainer.
LEMMA AlwaysMaintainerStep ==
    ASSUME AlwaysInv, NEW p \in Maintainers, MaintainerStep(p)
    PROVE  AlwaysInv'
<1>0. p \in Goroutines /\ p \in Runners /\ p \notin NeuronWorkers /\ p \notin Clients
  BY Kinds
<1>1. CASE runBrainMaintainer(p)
  BY <1>0, <1>1, AlwaysRun DEF runBrainMaintainer
<1>2. CASE tryActivateNeuron(p) \/ publishEventActivateNeuron(p)
  <2>1. PICK from \in {"try_activate_neuron", "enqueue"},
             to \in {"enqueue", "refresh", "sendNeuron"} :
               Step(p, from, to) /\ (to = "sendNeuron" => nQueue # 0)
    BY <1>2 DEF tryActivateNeuron, publishEventActivateNeuron
  <2>2. UNCHANGED << status, queues, event, chan, starting, panicked, calls, use >>
    BY <1>2 DEF tryActivateNeuron, publishEventActivateNeuron
  <2>3. PcOK(p, to)
    BY <1>0 DEF PcOK, MaintainerPcs
  <2>4. ControlTypes' /\ EventTypes' /\ QueuesMade' /\ SendersReady'
    BY <1>0, <2>1, <2>2, <2>3, Ordinary DEF queues
  <2>5. ChanTypes' /\ ActiveIsProcessing' /\ ScalarTypes' /\ BufferTypes' /\ ClosedWereMade'
    BY <1>0, <2>1, <2>2, ChanKept, NeuronKept, QuietData DEF status
  <2> QED BY <2>4, <2>5, TypePartsNext DEF AlwaysInv
<1>3. CASE sendNeuron(p)
  <2>1. CASE /\ Step(p, "sendNeuron", "refresh")
             /\ nQueue \notin nClosed /\ nBuf[nQueue] < NQueueLen
             /\ nBuf' = [nBuf EXCEPT ![nQueue] = @ + 1]
             /\ UNCHANGED << status, nQueue, bQueue, bBuf, nClosed, bClosed, event, chan,
                             starting, panicked, calls, use >>
    <3>1. PcOK(p, "refresh")
      BY <1>0 DEF PcOK, MaintainerPcs
    <3>2. ControlTypes' /\ EventTypes' /\ QueuesMade' /\ SendersReady'
      BY <1>0, <2>1, <3>1, Ordinary
    <3>3. ChanTypes' /\ ActiveIsProcessing'
      BY <1>0, <2>1, ChanKept, NeuronKept DEF status
    <3>4. ScalarTypes' /\ ClosedWereMade'
      BY <2>1, TypeParts DEF AlwaysInv, ScalarTypes, ClosedWereMade, status
    <3>5. BufferTypes'
      <4>1. nQueue \in Starts
        BY <1>0, <2>1, TypeParts DEF AlwaysInv, SendersReady, Step, ScalarTypes, Starts
      <4>2. BufferTypes /\ nBuf[nQueue] \in 0..NQueueLen /\ NQueueLen \in Nat
        BY <4>1, TypeParts, LifecycleAssumption DEF AlwaysInv, BufferTypes
      <4>3. nBuf[nQueue] + 1 \in 0..NQueueLen
        BY <2>1, <4>2
      <4>4. nBuf' \in [Starts -> 0..NQueueLen]
        BY <2>1, <4>2, <4>3 DEF BufferTypes
      <4> QED BY <2>1, <4>2, <4>4 DEF BufferTypes
    <3> QED BY <3>2, <3>3, <3>4, <3>5, TypePartsNext DEF AlwaysInv
  <2> QED BY <1>0, <1>3, <2>1, PanicStep DEF sendNeuron
<1>4. CASE ForceSleep(p)
  <2>1. /\ Step(p, "brain_sleep", "range")
        /\ link' = "Init" /\ neuron' = "Inactive" /\ state' = "Sleeping"
        /\ UNCHANGED << queues, event, chan, starting, panicked, calls, use >>
    BY <1>4 DEF ForceSleep
  <2>2. PcOK(p, "range")
    BY <1>0 DEF PcOK, MaintainerPcs
  <2>3. ControlTypes' /\ EventTypes' /\ QueuesMade' /\ SendersReady'
    BY <1>0, <2>1, <2>2, Ordinary DEF queues
  <2>4. ChanTypes' /\ ActiveIsProcessing'
    BY <1>0, <2>1, ChanKept, NeuronKept
  <2>5. ScalarTypes' /\ BufferTypes' /\ ClosedWereMade'
    BY <2>1, TypeParts DEF AlwaysInv, ScalarTypes, BufferTypes, ClosedWereMade, queues
  <2> QED BY <2>3, <2>4, <2>5, TypePartsNext DEF AlwaysInv
<1> QED BY <1>0, <1>1, <1>2, <1>3, <1>4, AlwaysMaintain, AlwaysPublish, AlwaysSend, AlwaysRefresh
        DEF MaintainerStep

\* Every step of a worker.
LEMMA AlwaysWorkerStep ==
    ASSUME AlwaysInv, NEW p \in NeuronWorkers, WorkerStep(p)
    PROVE  AlwaysInv'
<1>0. p \in Goroutines /\ p \in Runners /\ p \notin Maintainers /\ p \notin Clients
  BY Kinds
<1>1. CASE runNeuronWorker(p)
  BY <1>0, <1>1, AlwaysRun DEF runNeuronWorker
<1>2. CASE nextNeuron(p)
  <2>1. CASE /\ Step(p, "range", "activate")
             /\ nBuf[chan[p]] > 0
             /\ nBuf' = [nBuf EXCEPT ![chan[p]] = @ - 1]
             /\ UNCHANGED << status, nQueue, bQueue, bBuf, nClosed, bClosed, event, chan,
                             starting, panicked, calls, use >>
    <3>1. PcOK(p, "activate")
      BY <1>0 DEF PcOK, WorkerPcs
    <3>2. ControlTypes' /\ EventTypes' /\ QueuesMade' /\ SendersReady'
      BY <1>0, <2>1, <3>1, Ordinary
    <3>3. ChanTypes' /\ ActiveIsProcessing'
      BY <1>0, <2>1, ChanKept, NeuronKept DEF status
    <3>4. ScalarTypes' /\ ClosedWereMade'
      BY <2>1, TypeParts DEF AlwaysInv, ScalarTypes, ClosedWereMade, status
    <3>5. BufferTypes'
      <4>1. chan[p] \in Starts
        BY <1>0, <2>1, TypeParts DEF AlwaysInv, ChanTypes, Step, Starts
      <4>2. BufferTypes /\ nBuf[chan[p]] \in 0..NQueueLen /\ NQueueLen \in Nat
        BY <4>1, TypeParts, LifecycleAssumption DEF AlwaysInv, BufferTypes
      <4>3. nBuf[chan[p]] - 1 \in 0..NQueueLen
        BY <2>1, <4>2
      <4>4. nBuf' \in [Starts -> 0..NQueueLen]
        BY <2>1, <4>2, <4>3 DEF BufferTypes
      <4> QED BY <2>1, <4>2, <4>4 DEF BufferTypes
    <3> QED BY <3>2, <3>3, <3>4, <3>5, TypePartsNext DEF AlwaysInv
  <2>2. CASE /\ Step(p, "range", "done")
             /\ UNCHANGED << status, queues, event, chan, starting, panicked, calls, use >>
    <3>1. PcOK(p, "done")
      BY <1>0 DEF PcOK, WorkerPcs
    <3>2. ControlTypes' /\ EventTypes' /\ QueuesMade' /\ SendersReady'
      BY <1>0, <2>2, <3>1, Ordinary DEF queues
    <3>3. ChanTypes' /\ ActiveIsProcessing' /\ ScalarTypes' /\ BufferTypes' /\ ClosedWereMade'
      BY <1>0, <2>2, ChanKept, NeuronKept, QuietData DEF status
    <3> QED BY <3>2, <3>3, TypePartsNext DEF AlwaysInv
  <2> QED BY <1>2, <2>1, <2>2 DEF nextNeuron
<1>3. CASE activateNeuron(p)
  <2>1. /\ Step(p, "activate", "process") /\ neuron' = "Active" /\ link' = "Init"
        /\ UNCHANGED << state, queues, event, chan, starting, panicked, calls, use >>
    BY <1>3 DEF activateNeuron
  <2>2. PcOK(p, "process")
    BY <1>0 DEF PcOK, WorkerPcs
  <2>3. ControlTypes' /\ EventTypes' /\ QueuesMade' /\ SendersReady' /\ pc'[p] = "process"
    BY <1>0, <2>1, <2>2, Ordinary DEF queues
  <2>4. ChanTypes' /\ ActiveIsProcessing'
    BY <1>0, <2>1, <2>3, ChanKept DEF ActiveIsProcessing
  <2>5. ScalarTypes' /\ BufferTypes' /\ ClosedWereMade'
    BY <2>1, TypeParts DEF AlwaysInv, ScalarTypes, BufferTypes, ClosedWereMade, queues
  <2> QED BY <2>3, <2>4, <2>5, TypePartsNext DEF AlwaysInv
<1>4. CASE processOk(p)
  <2>1. /\ Step(p, "process", "publish") /\ event' = [event EXCEPT ![p] = "try_cast"]
        /\ neuron' = "Inactive" /\ "try_cast" \in Events
        /\ UNCHANGED << state, link, queues, chan, starting, panicked, calls, use >>
    BY <1>4 DEF processOk, Publish, Events
  <2>2. PcOK(p, "publish") /\ event'[p] = "try_cast"
    BY <1>0, <2>1, TypeParts DEF PcOK, WorkerPcs, AlwaysInv, EventTypes
  <2>3. ControlTypes' /\ EventTypes' /\ QueuesMade' /\ SendersReady'
    BY <1>0, <2>1, <2>2, Ordinary DEF queues
  <2>4. ChanTypes' /\ ActiveIsProcessing'
    BY <1>0, <2>1, <2>3, ChanKept DEF ActiveIsProcessing
  <2>5. ScalarTypes' /\ BufferTypes' /\ ClosedWereMade'
    BY <2>1, TypeParts DEF AlwaysInv, ScalarTypes, BufferTypes, ClosedWereMade, queues
  <2> QED BY <2>3, <2>4, <2>5, TypePartsNext DEF AlwaysInv
<1> QED BY <1>0, <1>1, <1>2, <1>3, <1>4, AlwaysPublish, AlwaysSend DEF WorkerStep
\* A client moves on and sends nothing.
LEMMA ClientMove ==
    ASSUME AlwaysInv, NEW c \in Clients, NEW from \in ClientPcs \ {"makeB"},
           NEW to \in ClientPcs \ {"makeB", "publish", "send"}, Step(c, from, to),
           UNCHANGED << queues, event, chan, neuron >>, ScalarTypes'
    PROVE  AlwaysInv'
<1>0. c \in Goroutines /\ c \notin Runners /\ PcOK(c, to) /\ to # "sendNeuron"
  BY Kinds DEF PcOK, ClientPcs
<1>1. ControlTypes' /\ EventTypes' /\ QueuesMade' /\ SendersReady'
  BY <1>0, Ordinary DEF queues
<1>2. ChanTypes' /\ ActiveIsProcessing'
  BY <1>0, Kinds, ChanKept, NeuronKept
<1>3. BufferTypes' /\ ClosedWereMade'
  BY TypeParts DEF AlwaysInv, BufferTypes, ClosedWereMade, queues
<1> QED BY <1>1, <1>2, <1>3, TypePartsNext DEF AlwaysInv

\* A client begins a call of trigLinks, Shutdown or Wait.
LEMMA AlwaysClientCall ==
    ASSUME AlwaysInv, NEW c \in Clients, trigLinks(c) \/ callShutdown(c) \/ callWait(c)
    PROVE  AlwaysInv'
<1>0. ScalarTypes
  BY TypeParts DEF AlwaysInv
<1>1. CASE trigLinks(c)
  <2>1. /\ Step(c, "idle", "ensure") /\ calls' \in 0..MaxCalls
        /\ use' \in {"quiet", "waited", "rough"}
        /\ UNCHANGED << state, link, neuron, queues, event, chan, starting, panicked >>
    BY <1>0, <1>1, LifecycleAssumption DEF trigLinks, ScalarTypes, status
  <2>2. ScalarTypes'
    BY <1>0, <2>1 DEF ScalarTypes, queues
  <2> QED BY <2>1, <2>2, ClientMove DEF ClientPcs
<1>2. CASE callShutdown(c)
  <2>1. /\ Step(c, "idle", "close") /\ calls' \in 0..MaxCalls
        /\ use' \in {"quiet", "waited", "rough"}
        /\ UNCHANGED << state, link, neuron, queues, event, chan, starting, panicked >>
    BY <1>0, <1>2, LifecycleAssumption DEF callShutdown, ScalarTypes, status
  <2>2. ScalarTypes'
    BY <1>0, <2>1 DEF ScalarTypes, queues
  <2> QED BY <2>1, <2>2, ClientMove DEF ClientPcs
<1>3. CASE callWait(c)
  <2>1. ScalarTypes'
    BY <1>0, <1>3 DEF callWait, ScalarTypes, status, queues
  <2> QED BY <1>3, <2>1, ClientMove DEF callWait, ClientPcs, status
<1> QED BY <1>1, <1>2, <1>3

\* Steps of a call that touch neither the queues nor the link.
LEMMA AlwaysClientMoves ==
    ASSUME AlwaysInv, NEW c \in Clients,
           \/ ensureMaintainerStart(c) \/ maintainerStart(c) \/ maintainerStarted(c)
           \/ setShutdown(c) \/ waitReturns(c)
    PROVE  AlwaysInv'
<1>0. ScalarTypes
  BY TypeParts DEF AlwaysInv
<1>1. PICK from \in ClientPcs \ {"makeB"}, to \in ClientPcs \ {"makeB", "publish", "send"} :
        Step(c, from, to)
  BY DEF ensureMaintainerStart, maintainerStart, maintainerStarted, setShutdown, waitReturns,
         ClientPcs
<1>2. /\ UNCHANGED << queues, event, chan, neuron, link, panicked, calls, use >>
      /\ state' \in {"Shutdown", "Sleeping", "Running"} /\ starting' \subseteq Clients
  BY <1>0 DEF ensureMaintainerStart, maintainerStart, maintainerStarted, setShutdown, waitReturns,
              ScalarTypes, status
<1>3. ScalarTypes'
  BY <1>0, <1>2 DEF ScalarTypes, queues
<1> QED BY <1>1, <1>2, <1>3, ClientMove

\* trigLink sets the link Ready.
LEMMA AlwaysTrigLink ==
    ASSUME AlwaysInv, NEW c \in Clients, trigLink(c)
    PROVE  AlwaysInv'
<1>0. ScalarTypes /\ c \in Goroutines /\ c \notin Runners
  BY TypeParts, Kinds DEF AlwaysInv
<1>1. CASE Publish(c, "link_ready", "trig") /\ link' = "Ready"
           /\ UNCHANGED << state, neuron, queues, chan, starting, panicked, calls, use >>
  <2>1. /\ Step(c, "trig", "publish") /\ event' = [event EXCEPT ![c] = "link_ready"]
        /\ "link_ready" \in Events /\ PcOK(c, "publish")
    BY <1>0, <1>1 DEF Publish, Events, PcOK, MaintainerPcs, WorkerPcs, ClientPcs
  <2>2. event'[c] = "link_ready"
    BY <1>0, <2>1, TypeParts DEF AlwaysInv, EventTypes
  <2>3. ControlTypes' /\ EventTypes' /\ QueuesMade' /\ SendersReady'
    BY <1>0, <1>1, <2>1, <2>2, Ordinary DEF queues
  <2>4. ChanTypes' /\ ActiveIsProcessing'
    BY <1>0, <1>1, <2>1, Kinds, ChanKept, NeuronKept
  <2>5. ScalarTypes' /\ BufferTypes' /\ ClosedWereMade'
    BY <1>1, TypeParts DEF AlwaysInv, ScalarTypes, BufferTypes, ClosedWereMade, queues
  <2> QED BY <2>3, <2>4, <2>5, TypePartsNext DEF AlwaysInv
<1>2. CASE /\ Step(c, "trig", "refresh")
           /\ UNCHANGED << status, queues, event, chan, starting, panicked, calls, use >>
  <2>1. ScalarTypes'
    BY <1>2, QuietData
  <2> QED BY <1>2, <2>1, ClientMove DEF ClientPcs, status
<1> QED BY <1>1, <1>2 DEF trigLink

\* maintainerStart makes nQueue.
LEMMA AlwaysMakeN ==
    ASSUME AlwaysInv, NEW c \in Clients, makeNQueue(c)
    PROVE  AlwaysInv'
<1>0. /\ Step(c, "makeN", "makeB") /\ nQueue < MaxStarts /\ nQueue' = nQueue + 1
      /\ UNCHANGED << status, bQueue, nBuf, bBuf, nClosed, bClosed, event, chan, starting,
                      panicked, calls, use >>
  BY DEF makeNQueue
<1>1. c \in Goroutines /\ c \notin Runners /\ PcOK(c, "makeB") /\ Goroutines = Clients \cup Runners
  BY Kinds DEF PcOK, ClientPcs
<1>2. /\ pc[c] = "makeN" /\ pc'[c] = "makeB" /\ DOMAIN pc' = Goroutines
      /\ \A q \in Goroutines : q # c => pc'[q] = pc[q]
  BY <1>0, <1>1, Moved, TypeParts DEF AlwaysInv, ControlTypes
<1>3. ControlTypes' /\ EventTypes' /\ BufferTypes' /\ ScalarTypes'
  BY <1>0, <1>1, <1>2, TypeParts, LifecycleAssumption
     DEF AlwaysInv, ControlTypes, EventTypes, BufferTypes, ScalarTypes, PcOK, status
<1>4. ChanTypes' /\ ActiveIsProcessing'
  BY <1>0, <1>1, Kinds, ChanKept, NeuronKept DEF status
<1>5. QueuesMade'
  <2>1. Making' = Making \cup {c} /\ c \notin Making
    BY <1>1, <1>2 DEF Making
  <2>2. Cardinality(Making') = Cardinality(Making) + 1
    BY <2>1, MakingBound, FS_AddElement
  <2> QED BY <1>0, <2>2, MakingBound, TypeParts DEF AlwaysInv, QueuesMade, ScalarTypes
<1>6. ClosedWereMade'
  BY <1>0, TypeParts DEF AlwaysInv, ClosedWereMade, ScalarTypes
<1>7. SendersReady'
  <2>1. nQueue \in Nat
    BY TypeParts, LifecycleAssumption DEF AlwaysInv, ScalarTypes
  <2>2. ASSUME NEW q \in Goroutines
        PROVE  /\ pc'[q] \in {"publish", "send"} => event'[q] \in Events
               /\ pc'[q] = "send" => bQueue' # 0
               /\ pc'[q] = "sendNeuron" => nQueue' # 0
    BY <1>0, <1>2, <2>1 DEF AlwaysInv, SendersReady
  <2>3. ASSUME NEW q \in Runners, pc'[q] # "none" PROVE q[2] <= bQueue'
    BY <1>0, <1>1, <1>2, <2>3, Kinds DEF AlwaysInv, SendersReady
  <2> QED BY <2>2, <2>3, Kinds DEF SendersReady
<1> QED BY <1>3, <1>4, <1>5, <1>6, <1>7, TypePartsNext DEF AlwaysInv

\* The event queue is made and the goroutines of the start exist.
LEMMA Spawned ==
    ASSUME DOMAIN pc = Goroutines, NEW c \in Clients, makeBQueue(c)
    PROVE  /\ ~panicked /\ pc[c] = "makeB" /\ pc'[c] = "started" /\ DOMAIN pc' = Goroutines
           /\ \A d \in Clients : d # c => pc'[d] = pc[d]
           /\ \A p \in Runners : pc'[p] = IF p[2] = bQueue + 1 THEN "spawned" ELSE pc[p]
BY Kinds DEF makeBQueue

\* maintainerStart makes bQueue and starts the goroutines.
LEMMA AlwaysMakeB ==
    ASSUME AlwaysInv, NEW c \in Clients, makeBQueue(c)
    PROVE  AlwaysInv'
<1>0. /\ bQueue' = bQueue + 1
      /\ UNCHANGED << status, nQueue, nBuf, bBuf, nClosed, bClosed, event, chan, starting,
                      panicked, calls, use >>
  BY DEF makeBQueue
<1>1. /\ pc[c] = "makeB" /\ pc'[c] = "started" /\ DOMAIN pc' = Goroutines
      /\ \A d \in Clients : d # c => pc'[d] = pc[d]
      /\ \A p \in Runners : pc'[p] = IF p[2] = bQueue + 1 THEN "spawned" ELSE pc[p]
  BY Spawned, TypeParts DEF AlwaysInv, ControlTypes
<1>2. bQueue \in Nat /\ bQueue + 1 \in 0..MaxStarts /\ nQueue \in Nat
  BY <1>1, MakingBound, TypeParts, LifecycleAssumption DEF AlwaysInv, QueuesMade, ScalarTypes
<1>3. ControlTypes'
  <2>1. ASSUME NEW q \in Goroutines PROVE PcOK(q, pc'[q])
    <3>1. CASE q \in Clients
      BY <1>1, <3>1, TypeParts, Kinds DEF AlwaysInv, ControlTypes, PcOK, ClientPcs
    <3>2. CASE q \in Runners
      BY <1>1, <3>2, TypeParts, Kinds
         DEF AlwaysInv, ControlTypes, PcOK, MaintainerPcs, WorkerPcs
    <3> QED BY <3>1, <3>2, Kinds
  <2> QED BY <1>1, <2>1 DEF ControlTypes, PcOK
<1>4. EventTypes' /\ BufferTypes' /\ ScalarTypes' /\ ChanTypes'
  BY <1>0, <1>1, <1>2, TypeParts
     DEF AlwaysInv, EventTypes, BufferTypes, ScalarTypes, ChanTypes, status
<1>5. ActiveIsProcessing'
  <2>1. SUFFICES ASSUME neuron' = "Active" PROVE \E p \in NeuronWorkers : pc'[p] = "process"
    BY DEF ActiveIsProcessing
  <2>2. PICK p \in NeuronWorkers : pc[p] = "process"
    BY <1>0, <2>1 DEF status, AlwaysInv, ActiveIsProcessing
  <2>3. CASE p[2] # bQueue + 1
    BY <1>1, <2>2, <2>3, Kinds
  <2>4. CASE p[2] = bQueue + 1
    BY <1>2, <2>2, <2>4, Kinds DEF AlwaysInv, SendersReady
  <2> QED BY <2>3, <2>4
<1>6. QueuesMade'
  <2>1. Making' = Making \ {c} /\ c \in Making
    BY <1>1 DEF Making
  <2>2. Cardinality(Making') = Cardinality(Making) - 1
    BY <2>1, MakingBound, FS_RemoveElement
  <2> QED BY <1>0, <1>2, <2>2, MakingBound DEF AlwaysInv, QueuesMade
<1>7. ClosedWereMade'
  BY <1>0, <1>2 DEF AlwaysInv, ClosedWereMade
<1>8. SendersReady'
  <2>1. ASSUME NEW q \in Goroutines
        PROVE  /\ pc'[q] \in {"publish", "send"} => event'[q] \in Events
               /\ pc'[q] = "send" => bQueue' # 0
               /\ pc'[q] = "sendNeuron" => nQueue' # 0
    BY <1>0, <1>1, <1>2, Kinds DEF AlwaysInv, SendersReady
  <2>2. ASSUME NEW q \in Runners, pc'[q] # "none" PROVE q[2] <= bQueue'
    <3>1. q[2] = bQueue + 1 \/ q[2] <= bQueue
      BY <1>1, <2>2, Kinds DEF AlwaysInv, SendersReady
    <3> QED BY <1>0, <1>2, <3>1, Kinds DEF Starts
  <2> QED BY <2>1, <2>2, Kinds DEF SendersReady
<1> QED BY <1>3, <1>4, <1>5, <1>6, <1>7, <1>8, TypePartsNext DEF AlwaysInv
\* Shutdown closes the queues.
LEMMA AlwaysClose ==
    ASSUME AlwaysInv, NEW c \in Clients, closeQueues(c)
    PROVE  AlwaysInv'
<1>0. c \in Goroutines /\ c \notin Runners /\ PcOK(c, "setShutdown")
  BY Kinds DEF PcOK, ClientPcs
<1>1. CASE /\ ~NothingToClose
           /\ Step(c, "close", "setShutdown")
           /\ nClosed' = nClosed \cup {nQueue} /\ bClosed' = bClosed \cup {bQueue}
           /\ UNCHANGED << status, nQueue, bQueue, nBuf, bBuf, event, chan, starting, panicked,
                           calls, use >>
  <2>1. ControlTypes' /\ EventTypes' /\ QueuesMade' /\ SendersReady'
    BY <1>0, <1>1, Ordinary
  <2>2. ChanTypes' /\ ActiveIsProcessing'
    BY <1>0, <1>1, Kinds, ChanKept, NeuronKept DEF status
  <2>3. /\ nQueue \in 1..MaxStarts /\ bQueue \in 1..MaxStarts
        /\ nQueue \in 1..nQueue /\ bQueue \in 1..bQueue
    BY <1>1, TypeParts, LifecycleAssumption DEF AlwaysInv, ScalarTypes, NothingToClose
  <2>4. ScalarTypes' /\ ClosedWereMade'
    BY <1>1, <2>3, TypeParts DEF AlwaysInv, ScalarTypes, ClosedWereMade, status, Starts
  <2>5. BufferTypes'
    BY <1>1, TypeParts DEF AlwaysInv, BufferTypes
  <2> QED BY <2>1, <2>2, <2>4, <2>5, TypePartsNext DEF AlwaysInv
<1> QED BY <1>0, <1>1, PanicStep DEF closeQueues

\* The invariant holds before the first call.
LEMMA AlwaysInit == Init => AlwaysInv
<1> SUFFICES ASSUME Init PROVE AlwaysInv
  OBVIOUS
<1> USE LifecycleAssumption
<1>1. /\ DOMAIN pc = Goroutines
      /\ \A p \in Goroutines : pc[p] = IF p \in Clients THEN "idle" ELSE "none"
  BY DEF Init
<1>2. ControlTypes
  BY <1>1, Kinds DEF ControlTypes, PcOK, MaintainerPcs, WorkerPcs, ClientPcs
<1>3. EventTypes /\ ChanTypes
  BY <1>1, Kinds DEF Init, EventTypes, ChanTypes, Runners
<1>4. ScalarTypes
  <2>1. panicked \in BOOLEAN
    BY DEF Init
  <2> QED BY <2>1 DEF Init, ScalarTypes
<1>5. BufferTypes
  <2>1. bBuf \in [Starts -> Seq(Events)] /\ \A g \in Starts : Len(bBuf[g]) = 0
    BY DEF Init
  <2>2. nBuf \in [Starts -> 0..NQueueLen]
    BY DEF Init
  <2> QED BY <2>1, <2>2 DEF BufferTypes
<1>6. QueuesMade
  <2>1. Making = {}
    BY <1>1, Kinds DEF Making
  <2> QED BY <2>1, FS_EmptySet DEF QueuesMade, Init
<1>7. ClosedWereMade /\ SendersReady /\ ActiveIsProcessing
  BY <1>1, Kinds DEF Init, ClosedWereMade, SendersReady, ActiveIsProcessing
<1> QED BY <1>2, <1>3, <1>4, <1>5, <1>6, <1>7, TypeParts DEF AlwaysInv

\* A step that changes nothing.
LEMMA AlwaysStutter == AlwaysInv /\ UNCHANGED vars => AlwaysInv'
<1> SUFFICES ASSUME AlwaysInv, UNCHANGED vars PROVE AlwaysInv'
  OBVIOUS
<1>1. UNCHANGED << state, link, neuron, nQueue, bQueue, nBuf, bBuf, nClosed, bClosed, pc,
                   event, chan, starting, panicked, calls, use >>
  BY DEF vars, status, queues
<1>2. ScalarTypes' /\ BufferTypes' /\ ControlTypes' /\ EventTypes' /\ ChanTypes'
  BY <1>1, TypeParts
     DEF AlwaysInv, ScalarTypes, BufferTypes, ControlTypes, EventTypes, ChanTypes, PcOK
<1>3. QueuesMade' /\ ClosedWereMade' /\ SendersReady' /\ ActiveIsProcessing'
  BY <1>1 DEF AlwaysInv, QueuesMade, Making, ClosedWereMade, SendersReady, ActiveIsProcessing
<1> QED BY <1>2, <1>3, TypePartsNext DEF AlwaysInv

\* AlwaysInv is inductive.
LEMMA AlwaysNext == AlwaysInv /\ [Next]_vars => AlwaysInv'
<1> SUFFICES ASSUME AlwaysInv, [Next]_vars PROVE AlwaysInv'
  OBVIOUS
<1>1. ASSUME NEW c \in Clients, ClientStep(c) PROVE AlwaysInv'
  <2>1. c \in Goroutines /\ c \notin NeuronWorkers
    BY Kinds
  <2> QED BY <1>1, <2>1, AlwaysClientMoves, AlwaysTrigLink, AlwaysMakeN, AlwaysMakeB,
             AlwaysClose, AlwaysPublish, AlwaysSend, AlwaysRefresh DEF ClientStep
<1> QED BY <1>1, AlwaysMaintainerStep, AlwaysWorkerStep, AlwaysClientCall, AlwaysStutter
        DEF Next

\* The types, in every behaviour and under every use of the brain, rough ones
\* included: no goroutine ranges over a queue that was not made, no buffer
\* outgrows its queue, and no start makes one queue without the other.
THEOREM LifecycleTypes == Spec => []TypeOK
<1>1. AlwaysInv => TypeOK
  BY DEF AlwaysInv
<1> QED BY <1>1, AlwaysInit, AlwaysNext, PTL DEF Spec
-----------------------------------------------------------------------------
(* Steps of a maintainer or a worker under quiet use.                       *)

RestPcs == {"none", "spawned", "range", "done"}

\* The five ways in which such a goroutine moves: it crashes on a closed queue,
\* begins, ends, takes something from its queue, or works on what it took.
Crashes(p) ==
    \/ pc[p] = "send" /\ bQueue \in bClosed
    \/ pc[p] = "sendNeuron" /\ nQueue \in nClosed
Begins(p) ==
    /\ pc[p] = "spawned" /\ pc'[p] = "range" /\ UNCHANGED << state, link, neuron, nBuf, bBuf >>
    /\ \A q \in Runners : q # p => chan'[q] = chan[q]
    /\ p \in Maintainers => chan'[p] = bQueue
Ends(p) ==
    /\ pc[p] = "range" /\ pc'[p] = "done"
    /\ UNCHANGED << state, link, neuron, nBuf, bBuf, chan >>
Takes(p) ==
    /\ pc[p] = "range" /\ pc'[p] \notin RestPcs /\ UNCHANGED << state, link, neuron, chan >>
    /\ \/ p \in Maintainers /\ bBuf[chan[p]] # << >> /\ bBuf' = [bBuf EXCEPT ![chan[p]] = Tail(@)]
       \/ p \in NeuronWorkers /\ nBuf[chan[p]] > 0 /\ UNCHANGED bBuf
Works(p) ==
    /\ pc[p] \notin RestPcs /\ pc'[p] \notin {"none", "spawned"} /\ UNCHANGED chan
    /\ bBuf' = bBuf \/ \E e \in Events : bBuf' = [bBuf EXCEPT ![bQueue] = Append(@, e)]
    /\ state' \in {state, "Running", "Sleeping"} /\ link' \in {link, "Init"}
    /\ link' = "Init" \/ state' \in {state, "Running"}

\* All of them leave to the others their place and their events, and to the
\* clients what only these change.
RunnerFrame(p) ==
    /\ \A q \in Goroutines : q # p => pc'[q] = pc[q] /\ event'[q] = event[q]
    /\ UNCHANGED << nQueue, bQueue, nClosed, bClosed, starting, use >>
RunnerEffect(p) ==
    /\ RunnerFrame(p)
    /\ \/ Crashes(p)
       \/ UNCHANGED panicked /\ (Begins(p) \/ Ends(p) \/ Takes(p) \/ Works(p))

\* A step of one goroutine that changes no event but its own.
LEMMA FrameOf ==
    ASSUME AlwaysInv, NEW p \in Runners, NEW from, NEW to, Step(p, from, to),
           event' = event \/ \E e : event' = [event EXCEPT ![p] = e],
           UNCHANGED << nQueue, bQueue, nClosed, bClosed, starting, use >>
    PROVE  RunnerFrame(p) /\ pc[p] = from /\ pc'[p] = to
<1>1. DOMAIN pc = Goroutines /\ EventTypes /\ p \in Goroutines
  BY TypeParts, Kinds DEF AlwaysInv, ControlTypes
<1>2. pc[p] = from /\ pc'[p] = to /\ \A q \in Goroutines : q # p => pc'[q] = pc[q]
  BY <1>1, Moved
<1>3. \A q \in Goroutines : q # p => event'[q] = event[q]
  BY <1>1 DEF EventTypes
<1> QED BY <1>2, <1>3 DEF RunnerFrame

\* A send by a maintainer or a worker changes only what RunnerEffect says.
LEMMA PublishEffect ==
    ASSUME AlwaysInv, NEW p \in Runners, publishEvent(p) \/ publishSend(p)
    PROVE  RunnerEffect(p)
<1>0. p \in Goroutines /\ Published(p) \notin {"none", "spawned"}
  BY Kinds, PublishedPcs
<1>1. CASE publishEvent(p)
  <2>1. PICK to \in {"send", Published(p)} :
          Step(p, "publish", to) /\ (event' = event \/ event' = [event EXCEPT ![p] = "none"])
    BY <1>1 DEF publishEvent
  <2>2. UNCHANGED << status, queues, chan, starting, panicked, use >>
    BY <1>1 DEF publishEvent
  <2>3. RunnerFrame(p) /\ pc[p] = "publish" /\ pc'[p] = to
    BY <2>1, <2>2, FrameOf DEF queues
  <2>4. Works(p)
    BY <1>0, <2>2, <2>3 DEF Works, RestPcs, status, queues
  <2> QED BY <2>2, <2>3, <2>4 DEF RunnerEffect
<1>2. CASE /\ Step(p, "send", Published(p))
           /\ bBuf' = [bBuf EXCEPT ![bQueue] = Append(@, event[p])]
           /\ event' = [event EXCEPT ![p] = "none"]
           /\ UNCHANGED << status, nQueue, bQueue, nBuf, nClosed, bClosed, chan, starting,
                           panicked, calls, use >>
  <2>1. RunnerFrame(p) /\ pc[p] = "send" /\ pc'[p] = Published(p)
    BY <1>2, FrameOf
  <2>2. event[p] \in Events
    BY <1>0, <2>1 DEF AlwaysInv, SendersReady
  <2>3. Works(p)
    BY <1>0, <1>2, <2>1, <2>2 DEF Works, RestPcs, status
  <2> QED BY <1>2, <2>1, <2>3 DEF RunnerEffect
<1>3. CASE Panic(p, "send") /\ bQueue \in bClosed
  BY <1>3 DEF Panic, RunnerEffect, RunnerFrame, Crashes, queues
<1> QED BY <1>1, <1>2, <1>3 DEF publishSend

\* So does every step of a maintainer,
LEMMA MaintainerEffect ==
    ASSUME AlwaysInv, NEW p \in Maintainers, MaintainerStep(p)
    PROVE  RunnerEffect(p)
<1>0. p \in Runners /\ p \in Goroutines /\ p \notin Clients /\ p \notin NeuronWorkers
  BY Kinds
<1>1. CASE runBrainMaintainer(p)
  <2>1. RunnerFrame(p) /\ pc[p] = "spawned" /\ pc'[p] = "range"
    BY <1>0, <1>1, FrameOf DEF runBrainMaintainer, queues
  <2>2. Begins(p)
    BY <1>0, <1>1, <2>1, TypeParts
       DEF runBrainMaintainer, Begins, AlwaysInv, ChanTypes, status, queues
  <2> QED BY <1>1, <2>1, <2>2 DEF RunnerEffect, runBrainMaintainer
<1>2. CASE maintain(p)
  <2>1. CASE /\ pc[p] = "range" /\ bBuf[chan[p]] # << >>
             /\ LET e == Head(bBuf[chan[p]])
                IN \/ e = "link_ready" /\ Publish(p, "try_activate_neuron", "range")
                   \/ e # "link_ready" /\ UNCHANGED event
                      /\ Step(p, "range", IF e = "try_cast" THEN "refresh" ELSE e)
             /\ bBuf' = [bBuf EXCEPT ![chan[p]] = Tail(@)]
             /\ UNCHANGED << status, nQueue, bQueue, nBuf, nClosed, bClosed, chan, starting,
                             panicked, calls, use >>
    <3>1. Head(bBuf[chan[p]]) \in Events
      <4>1. chan[p] \in Starts
        BY <1>0, <2>1, TypeParts DEF AlwaysInv, ChanTypes, Starts
      <4>2. bBuf[chan[p]] \in Seq(Events)
        BY <4>1, TypeParts DEF AlwaysInv, BufferTypes
      <4> QED BY <2>1, <4>2
    <3>2. PICK to \in {"publish", "refresh", "try_activate_neuron", "brain_sleep"} :
            Step(p, "range", to) /\ (event' = event \/ \E e : event' = [event EXCEPT ![p] = e])
      BY <2>1, <3>1 DEF Publish, Events
    <3>3. RunnerFrame(p) /\ pc[p] = "range" /\ pc'[p] = to
      BY <1>0, <2>1, <3>2, FrameOf
    <3>4. Takes(p)
      BY <2>1, <3>3 DEF Takes, RestPcs, status
    <3> QED BY <2>1, <3>3, <3>4 DEF RunnerEffect
  <2>2. CASE /\ Step(p, "range", "done")
             /\ UNCHANGED << status, queues, event, chan, starting, panicked, calls, use >>
    <3>1. RunnerFrame(p) /\ pc[p] = "range" /\ pc'[p] = "done"
      BY <1>0, <2>2, FrameOf DEF queues
    <3> QED BY <2>2, <3>1 DEF RunnerEffect, Ends, status, queues
  <2> QED BY <1>2, <2>1, <2>2 DEF maintain
<1>3. CASE tryActivateNeuron(p) \/ publishEventActivateNeuron(p)
  <2>1. PICK from \in {"try_activate_neuron", "enqueue"},
             to \in {"enqueue", "refresh", "sendNeuron"} : Step(p, from, to)
    BY <1>3 DEF tryActivateNeuron, publishEventActivateNeuron
  <2>2. UNCHANGED << status, queues, event, chan, starting, panicked, calls, use >>
    BY <1>3 DEF tryActivateNeuron, publishEventActivateNeuron
  <2>3. RunnerFrame(p) /\ pc[p] = from /\ pc'[p] = to
    BY <1>0, <2>1, <2>2, FrameOf DEF queues
  <2> QED BY <2>2, <2>3 DEF RunnerEffect, Works, RestPcs, status, queues
<1>4. CASE sendNeuron(p)
  <2>1. CASE /\ Step(p, "sendNeuron", "refresh")
             /\ UNCHANGED << status, nQueue, bQueue, bBuf, nClosed, bClosed, event, chan,
                             starting, panicked, calls, use >>
    <3>1. RunnerFrame(p) /\ pc[p] = "sendNeuron" /\ pc'[p] = "refresh"
      BY <1>0, <2>1, FrameOf
    <3> QED BY <2>1, <3>1 DEF RunnerEffect, Works, RestPcs, status
  <2>2. CASE Panic(p, "sendNeuron") /\ nQueue \in nClosed
    BY <2>2 DEF Panic, RunnerEffect, RunnerFrame, Crashes, queues
  <2> QED BY <1>4, <2>1, <2>2 DEF sendNeuron
<1>5. CASE ForceSleep(p)
  <2>1. RunnerFrame(p) /\ pc[p] = "brain_sleep" /\ pc'[p] = "range"
    BY <1>0, <1>5, FrameOf DEF ForceSleep, queues
  <2> QED BY <1>5, <2>1 DEF ForceSleep, RunnerEffect, Works, RestPcs, queues
<1>6. CASE refreshState(p)
  <2>1. PICK to \in {"range", "publish"} :
          Step(p, "refresh", to) /\ (event' = event \/ \E e : event' = [event EXCEPT ![p] = e])
    BY <1>0, <1>6 DEF refreshState, Publish, Rest
  <2>2. /\ UNCHANGED << link, queues, chan, starting, panicked, use >>
        /\ state' \in {state, "Running"}
    BY <1>6 DEF refreshState, status
  <2>3. RunnerFrame(p) /\ pc[p] = "refresh" /\ pc'[p] = to
    BY <1>0, <2>1, <2>2, FrameOf DEF queues
  <2> QED BY <2>2, <2>3 DEF RunnerEffect, Works, RestPcs, queues
<1> QED BY <1>0, <1>1, <1>2, <1>3, <1>4, <1>5, <1>6, PublishEffect DEF MaintainerStep

\* and every step of a worker.
LEMMA WorkerEffect ==
    ASSUME AlwaysInv, NEW p \in NeuronWorkers, WorkerStep(p)
    PROVE  RunnerEffect(p)
<1>0. p \in Runners /\ p \in Goroutines /\ p \notin Clients /\ p \notin Maintainers
  BY Kinds
<1>1. CASE runNeuronWorker(p)
  <2>1. RunnerFrame(p) /\ pc[p] = "spawned" /\ pc'[p] = "range"
    BY <1>0, <1>1, FrameOf DEF runNeuronWorker, queues
  <2>2. Begins(p)
    BY <1>0, <1>1, <2>1, TypeParts
       DEF runNeuronWorker, Begins, AlwaysInv, ChanTypes, status, queues
  <2> QED BY <1>1, <2>1, <2>2 DEF RunnerEffect, runNeuronWorker
<1>2. CASE nextNeuron(p)
  <2>1. CASE /\ Step(p, "range", "activate")
             /\ nBuf[chan[p]] > 0
             /\ UNCHANGED << status, nQueue, bQueue, bBuf, nClosed, bClosed, event, chan,
                             starting, panicked, calls, use >>
    <3>1. RunnerFrame(p) /\ pc[p] = "range" /\ pc'[p] = "activate"
      BY <1>0, <2>1, FrameOf
    <3> QED BY <2>1, <3>1 DEF RunnerEffect, Takes, RestPcs, status
  <2>2. CASE /\ Step(p, "range", "done")
             /\ UNCHANGED << status, queues, event, chan, starting, panicked, calls, use >>
    <3>1. RunnerFrame(p) /\ pc[p] = "range" /\ pc'[p] = "done"
      BY <1>0, <2>2, FrameOf DEF queues
    <3> QED BY <2>2, <3>1 DEF RunnerEffect, Ends, status, queues
  <2> QED BY <1>2, <2>1, <2>2 DEF nextNeuron
<1>3. CASE activateNeuron(p) \/ processOk(p)
  <2>1. PICK from \in {"activate", "process"}, to \in {"process", "publish"} :
          Step(p, from, to) /\ (event' = event \/ \E e : event' = [event EXCEPT ![p] = e])
    BY <1>3 DEF activateNeuron, processOk, Publish
  <2>2. UNCHANGED << state, queues, chan, starting, panicked, use >> /\ link' \in {link, "Init"}
    BY <1>3 DEF activateNeuron, processOk
  <2>3. RunnerFrame(p) /\ pc[p] = from /\ pc'[p] = to
    BY <1>0, <2>1, <2>2, FrameOf DEF queues
  <2> QED BY <2>2, <2>3 DEF RunnerEffect, Works, RestPcs, queues
<1> QED BY <1>0, <1>1, <1>2, <1>3, PublishEffect DEF WorkerStep
\* While the brain is neither stopped nor on its way there or back, its queues
\* are open.
LEMMA OpenQueues ==
    ASSUME AlwaysInv, QuietInv, ~Stopped
    PROVE  /\ state # "Shutdown" /\ Making = {} /\ nQueue = bQueue /\ nClosed = bClosed
           /\ bQueue \notin bClosed /\ bQueue # 0 /\ bQueue \in Starts
<1>1. state # "Shutdown" /\ \A c \in Clients : pc[c] \notin StopPcs
  BY DEF Stopped
<1>2. Making = {}
  BY <1>1 DEF QuietInv, QuietPhases, Making, StartPcs
<1>3. nQueue = bQueue /\ nClosed = bClosed /\ bQueue \notin bClosed \cup {0}
  BY <1>1, <1>2 DEF QuietInv, QuietQueues, StopPcs
<1>4. bQueue \in Starts
  BY <1>3, TypeParts, LifecycleAssumption DEF AlwaysInv, ScalarTypes, Starts
<1> QED BY <1>1, <1>2, <1>3, <1>4

\* A goroutine at work sees an open brain.
LEMMA WorkingIsOpen ==
    ASSUME QuietInv, NEW p \in Runners, pc[p] \notin RestPcs
    PROVE  ~Stopped
BY Kinds DEF QuietInv, QuietPhases, Drained, RestPcs

\* It never crashes, and on a stopped brain it can only begin or end.
LEMMA RunnerCases ==
    ASSUME AlwaysInv, QuietInv, NEW p \in Runners, RunnerEffect(p)
    PROVE  /\ ~panicked'
           /\ Begins(p) \/ Ends(p) \/ Takes(p) \/ Works(p)
           /\ Stopped => Begins(p) \/ Ends(p)
<1>1. ~Crashes(p)
  <2>1. SUFFICES ASSUME Crashes(p) PROVE FALSE
    OBVIOUS
  <2>2. ~Stopped
    BY <2>1, WorkingIsOpen DEF Crashes, RestPcs
  <2> QED BY <2>1, <2>2, OpenQueues DEF Crashes
<1>2. UNCHANGED panicked /\ (Begins(p) \/ Ends(p) \/ Takes(p) \/ Works(p))
  BY <1>1 DEF RunnerEffect
<1>3. ASSUME Stopped, Takes(p) PROVE FALSE
  <2>1. chan[p] \in Starts
    BY <1>3, TypeParts DEF Takes, AlwaysInv, ChanTypes, Starts
  <2>2. bBuf[chan[p]] = << >> /\ nBuf[chan[p]] = 0
    BY <1>3, <2>1 DEF QuietInv, QuietPhases, Drained
  <2> QED BY <1>3, <2>2 DEF Takes
<1>4. Stopped => ~Works(p)
  BY WorkingIsOpen DEF Works
<1> QED BY <1>2, <1>3, <1>4 DEF QuietInv, QuietPhases

\* Such a step keeps the invariant of quiet use.
LEMMA QuietRunner ==
    ASSUME AlwaysInv, QuietInv, NEW p \in Runners, RunnerEffect(p)
    PROVE  QuietInv'
<1>1. /\ ~panicked' /\ (Begins(p) \/ Ends(p) \/ Takes(p) \/ Works(p))
      /\ Stopped => Begins(p) \/ Ends(p)
  BY RunnerCases
<1>2. /\ \A q \in Goroutines : q # p => pc'[q] = pc[q] /\ event'[q] = event[q]
      /\ UNCHANGED << nQueue, bQueue, nClosed, bClosed, starting >>
  BY DEF RunnerEffect, RunnerFrame
<1>3. \A c \in Clients : pc'[c] = pc[c] /\ event'[c] = event[c]
  BY <1>2, Kinds
<1>4. /\ state' = "Shutdown" <=> state = "Shutdown"
      /\ Stopped' <=> Stopped
  <2>1. CASE Stopped
    <3>1. state' = state
      BY <1>1, <2>1 DEF Begins, Ends
    <3> QED BY <1>3, <3>1 DEF Stopped
  <2>2. CASE ~Stopped
    <3>1. state # "Shutdown"
      BY <2>2 DEF Stopped
    <3>2. state' # "Shutdown"
      BY <1>1, <3>1 DEF Begins, Ends, Takes, Works
    <3> QED BY <1>3, <3>1, <3>2 DEF Stopped
  <2> QED BY <2>1, <2>2
<1>5. QuietPhases'
  <2>1. CASE Stopped
    <3>1. UNCHANGED << state, link, neuron, nBuf, bBuf >> /\ pc'[p] \in RestPcs
      BY <1>1, <2>1 DEF Begins, Ends, RestPcs
    <3>2. Drained'
      <4>1. \A q \in Runners : pc'[q] \in RestPcs
        BY <1>2, <2>1, <3>1, Kinds DEF QuietInv, QuietPhases, Drained, RestPcs
      <4>2. \A g \in Starts : bBuf'[g] = << >> /\ nBuf'[g] = 0
        BY <2>1, <3>1 DEF QuietInv, QuietPhases, Drained
      <4> QED BY <4>1, <4>2 DEF Drained, Runners, RestPcs
    <3>3. link' = "Init" /\ neuron' = "Inactive"
      BY <2>1, <3>1 DEF QuietInv, QuietPhases
    <3>4. \A c \in Clients : /\ pc'[c] \in StartPcs => state' = "Shutdown"
                             /\ pc'[c] \in StopPcs => state' = "Sleeping"
                             /\ c \in starting' <=> pc'[c] \in StartPcs
      BY <1>2, <1>3, <3>1 DEF QuietInv, QuietPhases
    <3>5. /\ \A c, d \in Clients : Busy(c)' /\ Busy(d)' => c = d
          /\ \A c \in Clients :
                pc'[c] \in {"idle", "waiting", "ensure"} \cup StartPcs \cup StopPcs
      BY <1>3, <2>1 DEF QuietInv, QuietPhases, Busy
    <3> QED BY <1>1, <3>2, <3>3, <3>4, <3>5 DEF QuietPhases
  <2>2. CASE ~Stopped
    <3>1. \A c \in Clients : pc'[c] \notin StartPcs \cup StopPcs /\ c \notin starting'
      BY <1>2, <1>3, <2>2 DEF QuietInv, QuietPhases, Stopped
    <3> QED BY <1>1, <1>4, <2>2, <3>1 DEF QuietPhases
  <2> QED BY <2>1, <2>2
<1>6. QuietQueues'
  <2>1. Making' = Making
    BY <1>3 DEF Making
  <2> QED BY <1>2, <1>3, <1>4, <2>1 DEF QuietInv, QuietQueues
<1>7. ReadyIsNoticed'
  <2>1. SUFFICES ASSUME link' = "Ready" PROVE ReadyIsNoticed'
    BY DEF ReadyIsNoticed
  <2>2. link = "Ready" /\ state' \in {state, "Running"}
    BY <1>1, <2>1 DEF Begins, Ends, Takes, Works
  <2> QED BY <1>3, <2>2 DEF QuietInv, ReadyIsNoticed
<1>8. QuietMaintainers'
  <2>1. CASE p \in NeuronWorkers
    <3>1. \A g \in Starts : pc'[Maint(g)] = pc[Maint(g)]
      BY <1>2, <2>1, Kinds
    <3>2. \A g \in Starts : chan'[Maint(g)] = chan[Maint(g)]
      BY <1>1, <2>1, Kinds DEF Begins, Ends, Takes, Works
    <3>3. \A g \in Starts : /\ g # bQueue => bBuf'[g] = bBuf[g]
                            /\ g = bQueue /\ bBuf[g] # << >> => bBuf'[g] # << >>
      <4>1. CASE bBuf' = bBuf
        BY <4>1
      <4>2. ASSUME NEW e \in Events, bBuf' = [bBuf EXCEPT ![bQueue] = Append(@, e)]
            PROVE  \A g \in Starts : /\ g # bQueue => bBuf'[g] = bBuf[g]
                                     /\ g = bQueue /\ bBuf[g] # << >> => bBuf'[g] # << >>
        <5>1. \A g \in Starts : bBuf[g] \in Seq(Events)
          BY TypeParts DEF AlwaysInv, BufferTypes
        <5>2. \A g \in Starts : Append(bBuf[g], e) # << >>
          BY <5>1
        <5> QED BY <4>2, <5>2, TypeParts DEF AlwaysInv, BufferTypes
      <4> QED BY <1>1, <2>1, <4>1, <4>2, Kinds DEF Begins, Ends, Takes, Works
    <3>4. Pending => Pending'
      BY <1>2, <1>3, <3>3 DEF Pending
    <3>5. link' = "Ready" => link = "Ready"
      BY <1>1 DEF Begins, Ends, Takes, Works
    <3> QED BY <1>2, <1>3, <3>1, <3>2, <3>3, <3>4, <3>5 DEF QuietInv, QuietMaintainers
  <2>2. CASE p \in Maintainers
    <3> DEFINE m == p[2]
    <3>0. m \in Starts /\ p = Maint(m) /\ \A g \in Starts : g # m => Maint(g) # p
      BY <2>2, Kinds DEF Runners
    <3>a. m \in Int /\ bQueue \in Int
      BY <3>0, TypeParts DEF Starts, AlwaysInv, ScalarTypes
    <3>1. \A g \in Starts : g # m => pc'[Maint(g)] = pc[Maint(g)] /\ chan'[Maint(g)] = chan[Maint(g)]
      BY <1>1, <1>2, <3>0, Kinds DEF Begins, Ends, Takes, Works
    <3>2. pc[p] # "none" /\ pc'[p] \notin {"none", "spawned"}
      BY <1>1 DEF Begins, Ends, Takes, Works, RestPcs
    <3>3. m <= bQueue
      BY <3>0, <3>2, <3>a DEF QuietInv, QuietMaintainers
    <3>4. chan'[p] = m
      <4>1. CASE Begins(p)
        <5>1. m = bQueue
          BY <3>0, <3>3, <3>a, <4>1 DEF Begins, QuietInv, QuietMaintainers
        <5> QED BY <2>2, <4>1, <5>1 DEF Begins
      <4>2. CASE ~Begins(p)
        BY <1>1, <3>0, <4>2 DEF Ends, Takes, Works, RestPcs, QuietInv, QuietMaintainers
      <4> QED BY <4>1, <4>2
    <3>5. CASE m = bQueue
      <4>1. \A g \in Starts : g # bQueue => bBuf'[g] = bBuf[g]
        <5>1. CASE Takes(p)
          BY <2>2, <3>0, <3>5, <5>1, Kinds, TypeParts
             DEF Takes, QuietInv, QuietMaintainers, AlwaysInv, BufferTypes
        <5>2. CASE Works(p)
          BY <5>2, TypeParts DEF Works, AlwaysInv, BufferTypes
        <5> QED BY <1>1, <5>1, <5>2 DEF Begins, Ends
      <4> QED BY <1>2, <3>0, <3>1, <3>2, <3>4, <3>5, <3>a, <4>1 DEF QuietInv, QuietMaintainers
    <3>6. CASE m < bQueue
      <4>1. pc[p] \in {"range", "done"} /\ chan[p] = m /\ bBuf[m] = << >>
        BY <3>0, <3>6, <3>a DEF QuietInv, QuietMaintainers
      <4>2. Ends(p)
        BY <1>1, <2>2, <4>1, Kinds DEF Begins, Takes, Works, RestPcs
      <4>3. Pending => Pending'
        BY <1>2, <1>3, <4>2 DEF Pending, Ends
      <4>4. UNCHANGED << bBuf, link >> /\ pc'[p] = "done"
        BY <4>2 DEF Ends
      <4> HIDE DEF m
      <4>5. \A g \in Starts : g # m =>
              /\ pc'[Maint(g)] = "none" <=> g > bQueue'
              /\ g < bQueue' => pc'[Maint(g)] \in {"range", "done"}
              /\ pc'[Maint(g)] \notin {"none", "spawned"} => chan'[Maint(g)] = g
              /\ pc'[Maint(g)] \in {"none", "spawned"} => chan'[Maint(g)] = 0
              /\ g # bQueue' => bBuf'[g] = << >>
              /\ g = bQueue' /\ pc'[Maint(g)] = "spawned" =>
                   /\ Pending' \/ \E c \in Clients : pc'[c] \in {"started", "trig"}
                   /\ link' = "Ready" => Pending'
        BY <1>2, <1>3, <3>1, <4>3, <4>4 DEF QuietInv, QuietMaintainers
      <4>6. /\ pc'[Maint(m)] = "done" /\ chan'[Maint(m)] = m /\ m < bQueue' /\ bBuf'[m] = << >>
            /\ ~(m > bQueue') /\ m # bQueue'
        BY <1>2, <3>0, <3>4, <3>6, <3>a, <4>1, <4>4
      <4> QED BY <4>5, <4>6 DEF QuietMaintainers
    <3> QED BY <3>3, <3>5, <3>6, <3>a
  <2> QED BY <2>1, <2>2 DEF Runners
<1> QED BY <1>5, <1>6, <1>7, <1>8 DEF QuietInv
-----------------------------------------------------------------------------
(* Steps of a client under quiet use.                                       *)

\* One client moves; the other goroutines keep their places and events.
ClientFrame(c, from, to) ==
    /\ ~panicked /\ pc[c] = from /\ pc'[c] = to
    /\ \A d \in Clients \ {c} : pc'[d] = pc[d] /\ event'[d] = event[d]
    /\ \A p \in Runners : pc'[p] = pc[p]

\* A step of a call leaves the other goroutines where they are.
LEMMA ClientMoved ==
    ASSUME AlwaysInv, NEW c \in Clients, NEW from, NEW to, Step(c, from, to),
           event' = event \/ \E e : event' = [event EXCEPT ![c] = e]
    PROVE  ClientFrame(c, from, to)
<1>1. DOMAIN pc = Goroutines /\ EventTypes /\ c \in Goroutines
  BY TypeParts, Kinds DEF AlwaysInv, ControlTypes
<1>2. /\ ~panicked /\ pc[c] = from /\ pc'[c] = to
      /\ \A q \in Goroutines : q # c => pc'[q] = pc[q]
  BY <1>1, Moved
<1>3. \A q \in Goroutines : q # c => event'[q] = event[q]
  BY <1>1 DEF EventTypes
<1> QED BY <1>2, <1>3, Kinds DEF ClientFrame

\* A client past ensureMaintainerStart sees an open brain, and one inside a
\* start or a Shutdown is alone with a brain at rest.
LEMMA ClientPhase ==
    ASSUME QuietInv, NEW c \in Clients
    PROVE  /\ pc[c] \in {"trig", "refresh", "publish", "send"} => ~Stopped
           /\ pc[c] \in StartPcs \cup StopPcs => Stopped
           /\ Busy(c) /\ Stopped => \A d \in Clients \ {c} : pc[d] \in {"idle", "waiting"}
           /\ pc[c] = "ensure" /\ Stopped => state = "Shutdown"
           /\ Stopped => Drained /\ link = "Init" /\ neuron = "Inactive"
<1>1. pc[c] \in {"trig", "refresh", "publish", "send"} => ~Stopped
  BY DEF QuietInv, QuietPhases, StartPcs, StopPcs
<1>2. pc[c] \in StartPcs \cup StopPcs => Stopped
  BY DEF QuietInv, QuietPhases, Stopped
<1>3. ASSUME Busy(c), Stopped PROVE \A d \in Clients \ {c} : pc[d] \in {"idle", "waiting"}
  BY <1>3 DEF QuietInv, QuietPhases, Busy
<1>4. ASSUME pc[c] = "ensure", Stopped PROVE state = "Shutdown"
  <2>1. Busy(c)
    BY <1>4 DEF Busy
  <2> QED BY <1>3, <1>4, <2>1 DEF Stopped, StopPcs
<1>5. Stopped => Drained /\ link = "Init" /\ neuron = "Inactive"
  BY DEF QuietInv, QuietPhases
<1> QED BY <1>1, <1>2, <1>3, <1>4, <1>5

\* The maintainers are left alone, and the present one, if it has not run yet,
\* still has or will have something to do.
LEMMA MaintainersKept ==
    ASSUME QuietMaintainers, UNCHANGED << bQueue, chan >>,
           \A p \in Runners : pc'[p] = pc[p],
           \A g \in Starts : g # bQueue => bBuf'[g] = bBuf[g],
           Pending => Pending',
           (\E c \in Clients : pc[c] \in {"started", "trig"}) =>
              \/ Pending' \/ link = "Ready"
              \/ \E c \in Clients : pc'[c] \in {"started", "trig"},
           link' = "Ready" => link = "Ready" \/ Pending'
    PROVE  QuietMaintainers'
<1>1. \A g \in Starts : pc'[Maint(g)] = pc[Maint(g)] /\ chan'[Maint(g)] = chan[Maint(g)]
  BY Kinds
<1> QED BY <1>1 DEF QuietMaintainers

\* A step of a client that leaves an open brain open.
LEMMA OpenStep ==
    ASSUME AlwaysInv, QuietInv, ~Stopped, NEW c \in Clients, NEW from, NEW to,
           ClientFrame(c, from, to), ~panicked', to \notin StartPcs \cup StopPcs,
           state' # "Shutdown", UNCHANGED << nQueue, bQueue, nClosed, bClosed, starting >>
    PROVE  QuietPhases' /\ QuietQueues'
<1>1. \A d \in Clients : pc[d] \notin StartPcs \cup StopPcs /\ d \notin starting
  BY DEF QuietInv, QuietPhases, Stopped
<1>2. \A d \in Clients : pc'[d] \notin StartPcs \cup StopPcs
  BY <1>1 DEF ClientFrame
<1>3. ~Stopped'
  BY <1>2 DEF Stopped
<1>4. QuietPhases'
  BY <1>1, <1>2, <1>3 DEF QuietPhases
<1>5. Making' = {}
  BY <1>2 DEF Making, StartPcs
<1>6. QuietQueues'
  BY <1>2, <1>5, OpenQueues DEF QuietQueues, StopPcs
<1> QED BY <1>4, <1>6

\* A step of a client that is alone with a brain at rest.
LEMMA RestStep ==
    ASSUME QuietInv, NEW c \in Clients, ~panicked',
           Drained, link = "Init", neuron = "Inactive", UNCHANGED << link, neuron, nBuf, bBuf >>,
           \A p \in Runners : pc'[p] \in RestPcs,
           \A d \in Clients \ {c} : pc'[d] = pc[d] /\ pc[d] \in {"idle", "waiting"},
           \/ pc'[c] \in {"idle", "waiting", "ensure"} \cup StartPcs \cup StopPcs
           \/ state' # "Shutdown",
           pc'[c] \in StartPcs => state' = "Shutdown",
           pc'[c] \in StopPcs => state' = "Sleeping",
           starting' = IF pc'[c] \in StartPcs THEN starting \cup {c} ELSE starting \ {c}
    PROVE  QuietPhases' /\ ReadyIsNoticed'
<1>1. \A d \in Clients \ {c} : /\ pc'[d] \in {"idle", "waiting"} /\ d \notin starting
                               /\ pc'[d] \notin StartPcs \cup StopPcs
  BY DEF QuietInv, QuietPhases, StartPcs, StopPcs
<1>2. \A d \in Clients : /\ pc'[d] \in StartPcs => state' = "Shutdown"
                         /\ pc'[d] \in StopPcs => state' = "Sleeping"
                         /\ d \in starting' <=> pc'[d] \in StartPcs
  BY <1>1
<1>3. \A d, e \in Clients : Busy(d)' /\ Busy(e)' => d = e
  BY <1>1 DEF Busy
<1>4. Drained' /\ link' = "Init" /\ neuron' = "Inactive"
  BY DEF Drained, Runners, RestPcs
<1>5. Stopped' => \A d \in Clients :
                    pc'[d] \in {"idle", "waiting", "ensure"} \cup StartPcs \cup StopPcs
  BY <1>1 DEF Stopped
<1>6. QuietPhases'
  BY <1>2, <1>3, <1>4, <1>5 DEF QuietPhases
<1> QED BY <1>4, <1>6 DEF ReadyIsNoticed

\* A step that is not of publishEvent and keeps a client that has yet to
\* trigger its link.
LEMMA PlainStep ==
    ASSUME QuietMaintainers, NEW c \in Clients, NEW from, NEW to, ClientFrame(c, from, to),
           UNCHANGED << bQueue, bBuf, chan, link >>, from \notin {"publish", "send"},
           from \in {"started", "trig"} => to \in {"started", "trig"}
    PROVE  QuietMaintainers'
<1>1. Pending => Pending'
  BY DEF Pending, ClientFrame
<1>2. (\E d \in Clients : pc[d] \in {"started", "trig"}) =>
         \E d \in Clients : pc'[d] \in {"started", "trig"}
  BY DEF ClientFrame
<1> QED BY <1>1, <1>2, MaintainersKept DEF ClientFrame

\* A Ready link stays noticed while a client does something else.
LEMMA StillNoticed ==
    ASSUME ReadyIsNoticed, NEW c \in Clients, NEW from, NEW to, ClientFrame(c, from, to),
           UNCHANGED << link, state >>, from \notin {"refresh", "publish", "send"}
    PROVE  ReadyIsNoticed'
BY DEF ReadyIsNoticed, ClientFrame

\* Calling Wait and returning from it, whoever is under way.
LEMMA QuietWait ==
    ASSUME AlwaysInv, QuietInv, NEW c \in Clients, callWait(c) \/ waitReturns(c)
    PROVE  QuietInv'
<1>1. PICK from \in {"idle", "waiting"}, to \in {"idle", "waiting"} : Step(c, from, to)
  BY DEF callWait, waitReturns
<1>2. UNCHANGED << state, link, neuron, nQueue, bQueue, nBuf, bBuf, nClosed, bClosed, event, chan,
                   starting, panicked, use >>
  BY DEF callWait, waitReturns, status, queues
<1>3. ClientFrame(c, from, to)
  BY <1>1, <1>2, ClientMoved
<1>4. /\ \A d \in Clients : \/ pc'[d] = pc[d]
                            \/ pc[d] \in {"idle", "waiting"} /\ pc'[d] \in {"idle", "waiting"}
      /\ \A p \in Runners : pc'[p] = pc[p]
  BY <1>3 DEF ClientFrame
<1>5. /\ \A d \in Clients : /\ Busy(d)' <=> Busy(d)
                            /\ pc'[d] \in StopPcs <=> pc[d] \in StopPcs
                            /\ pc'[d] \in StartPcs <=> pc[d] \in StartPcs
      /\ Stopped' <=> Stopped
  BY <1>2, <1>4 DEF Busy, StopPcs, StartPcs, Stopped
<1>6. QuietPhases'
  <2>1. Drained => Drained'
    BY <1>2, <1>4 DEF Drained, Runners
  <2>2. /\ ~panicked'
        /\ \A d \in Clients : /\ pc'[d] \in StartPcs => state' = "Shutdown"
                              /\ pc'[d] \in StopPcs => state' = "Sleeping"
                              /\ d \in starting' <=> pc'[d] \in StartPcs
    BY <1>2, <1>5 DEF QuietInv, QuietPhases
  <2>3. Stopped' => /\ \A d, e \in Clients : Busy(d)' /\ Busy(e)' => d = e
                    /\ \A d \in Clients :
                          pc'[d] \in {"idle", "waiting", "ensure"} \cup StartPcs \cup StopPcs
                    /\ Drained' /\ link' = "Init" /\ neuron' = "Inactive"
    BY <1>2, <1>4, <1>5, <2>1 DEF QuietInv, QuietPhases
  <2> QED BY <2>2, <2>3 DEF QuietPhases
<1>7. QuietQueues'
  <2>1. Making' = Making
    BY <1>4 DEF Making
  <2>2. \A d \in Clients : /\ pc'[d] = "started" <=> pc[d] = "started"
                           /\ pc'[d] = "setShutdown" <=> pc[d] = "setShutdown"
    BY <1>4
  <2> QED BY <1>2, <2>1, <2>2 DEF QuietInv, QuietQueues
<1> QED BY <1>2, <1>3, <1>6, <1>7, PlainStep, StillNoticed DEF QuietInv

\* A call of TrigLinks that is not out of place.
LEMMA QuietTrigLinks ==
    ASSUME AlwaysInv, QuietInv, NEW c \in Clients, trigLinks(c), ~OutOfPlace(c)
    PROVE  QuietInv'
<1>1. /\ Step(c, "idle", "ensure")
      /\ UNCHANGED << state, link, neuron, nQueue, bQueue, nBuf, bBuf, nClosed, bClosed, event,
                      chan, starting, panicked >>
  BY DEF trigLinks, status, queues
<1>2. ClientFrame(c, "idle", "ensure")
  BY <1>1, ClientMoved
<1>3. QuietMaintainers' /\ ReadyIsNoticed'
  BY <1>1, <1>2, PlainStep, StillNoticed DEF QuietInv
<1>4. QuietPhases' /\ QuietQueues'
  <2>1. CASE ~Stopped
    BY <1>1, <1>2, <2>1, OpenStep DEF Stopped, ClientFrame, StartPcs, StopPcs
  <2>2. CASE Stopped
    <3>1. \A d \in Clients \ {c} : pc[d] \in {"idle", "waiting"}
      BY <1>2, <2>2 DEF OutOfPlace, Stopped, Busy, ClientFrame, StopPcs
    <3>2. \A p \in Runners : pc'[p] \in RestPcs
      BY <1>2, <2>2, ClientPhase DEF ClientFrame, Drained, Runners, RestPcs
    <3>3. c \notin starting
      BY <1>2 DEF QuietInv, QuietPhases, ClientFrame, StartPcs
    <3>4. QuietPhases'
      <4>1. starting' = starting \ {c} /\ pc'[c] \notin StartPcs \cup StopPcs /\ pc'[c] = "ensure"
        BY <1>1, <1>2, <3>3 DEF ClientFrame, StartPcs, StopPcs
      <4> QED BY <1>1, <1>2, <2>2, <3>1, <3>2, <4>1, ClientPhase, RestStep DEF ClientFrame
    <3>5. Making' = Making
      BY <1>2 DEF Making, ClientFrame
    <3> QED BY <1>1, <1>2, <3>4, <3>5 DEF QuietInv, QuietQueues, ClientFrame
  <2> QED BY <2>1, <2>2
<1> QED BY <1>3, <1>4 DEF QuietInv

\* A call of Shutdown on a drained, sleeping brain that nobody else uses.
LEMMA QuietShutdown ==
    ASSUME AlwaysInv, QuietInv, NEW c \in Clients, callShutdown(c), state = "Sleeping", Drained,
           \A d \in Clients \ {c} : ~Busy(d)
    PROVE  QuietInv'
<1>1. /\ Step(c, "idle", "close")
      /\ UNCHANGED << state, link, neuron, nQueue, bQueue, nBuf, bBuf, nClosed, bClosed, event,
                      chan, starting, panicked >>
  BY DEF callShutdown, status, queues
<1>2. ClientFrame(c, "idle", "close")
  BY <1>1, ClientMoved
<1>3. QuietMaintainers'
  BY <1>1, <1>2, PlainStep DEF QuietInv
<1>4. \A d \in Clients : pc[d] \in {"idle", "waiting"}
  BY <1>2 DEF Busy, ClientFrame
<1>5. ~Stopped
  BY <1>4 DEF Stopped, StopPcs
<1>6. link = "Init" /\ neuron = "Inactive"
  <2>1. link # "Ready"
    BY <1>4 DEF QuietInv, ReadyIsNoticed
  <2>2. neuron # "Active"
    BY DEF AlwaysInv, ActiveIsProcessing, Drained
  <2> QED BY <2>1, <2>2, TypeParts DEF AlwaysInv, ScalarTypes
<1>7. QuietPhases' /\ ReadyIsNoticed'
  <2>1. \A p \in Runners : pc'[p] \in RestPcs
    BY <1>2 DEF ClientFrame, Drained, Runners, RestPcs
  <2>2. c \notin starting
    BY <1>2 DEF QuietInv, QuietPhases, ClientFrame, StartPcs
  <2>3. starting' = starting \ {c} /\ pc'[c] \notin StartPcs /\ pc'[c] \in StopPcs
    BY <1>1, <1>2, <2>2 DEF ClientFrame, StartPcs, StopPcs
  <2> QED BY <1>1, <1>2, <1>4, <1>6, <2>1, <2>3, RestStep DEF ClientFrame
<1>8. QuietQueues'
  <2>1. Making' = {}
    BY <1>2, <1>4 DEF Making, ClientFrame
  <2> QED BY <1>1, <1>2, <1>4, <1>5, <2>1, OpenQueues DEF QuietQueues, ClientFrame
<1> QED BY <1>3, <1>7, <1>8 DEF QuietInv
\* The steps of a start on a brain at rest, up to the making of the queues.
LEMMA QuietStart ==
    ASSUME AlwaysInv, QuietInv, NEW c \in Clients,
           ensureMaintainerStart(c) \/ maintainerStart(c) \/ makeNQueue(c)
    PROVE  QuietInv'
<1>1. CASE ensureMaintainerStart(c) /\ ~Stopped
  <2>1. /\ Step(c, "ensure", "trig")
        /\ UNCHANGED << state, link, neuron, nQueue, bQueue, nBuf, bBuf, nClosed, bClosed, event,
                        chan, starting, panicked >>
    BY <1>1 DEF ensureMaintainerStart, Stopped, status, queues
  <2>2. ClientFrame(c, "ensure", "trig")
    BY <2>1, ClientMoved
  <2>3. QuietPhases' /\ QuietQueues'
    BY <1>1, <2>1, <2>2, OpenStep DEF Stopped, ClientFrame, StartPcs, StopPcs
  <2>4. QuietMaintainers' /\ ReadyIsNoticed'
    BY <2>1, <2>2, PlainStep, StillNoticed DEF QuietInv
  <2> QED BY <2>3, <2>4 DEF QuietInv
<1>2. CASE (ensureMaintainerStart(c) /\ Stopped) \/ maintainerStart(c) \/ makeNQueue(c)
  <2>1. Stopped /\ state = "Shutdown" /\ Busy(c) /\ pc[c] \in {"ensure", "start", "makeN"}
    BY <1>2, ClientPhase
       DEF ensureMaintainerStart, maintainerStart, makeNQueue, Step, StartPcs, Busy, Stopped,
           QuietInv, QuietPhases
  <2>2. PICK from \in {"ensure", "start", "makeN"}, to \in {"start", "makeN", "makeB"} :
          /\ Step(c, from, to)
          /\ nQueue' = IF to = "makeB" THEN nQueue + 1 ELSE nQueue
    BY <1>2, <2>1 DEF ensureMaintainerStart, maintainerStart, makeNQueue, queues
  <2>3. /\ UNCHANGED << state, link, neuron, bQueue, nBuf, bBuf, nClosed, bClosed, event, chan,
                        panicked >>
        /\ starting' = starting \cup {c}
    BY <1>2, <2>1
       DEF ensureMaintainerStart, maintainerStart, makeNQueue, Step, StartPcs, QuietInv,
           QuietPhases, status, queues
  <2>4. ClientFrame(c, from, to)
    BY <2>2, <2>3, ClientMoved
  <2>5. QuietMaintainers'
    BY <2>3, <2>4, PlainStep DEF QuietInv
  <2>6. \A d \in Clients \ {c} : pc[d] \in {"idle", "waiting"}
    BY <2>1, ClientPhase
  <2>7. QuietPhases' /\ ReadyIsNoticed'
    <3>1. \A p \in Runners : pc'[p] \in RestPcs
      BY <2>1, <2>4, ClientPhase DEF ClientFrame, Drained, Runners, RestPcs
    <3>2. pc'[c] \in StartPcs /\ pc'[c] \notin StopPcs
      BY <2>4 DEF ClientFrame, StartPcs, StopPcs
    <3> QED BY <2>1, <2>3, <2>4, <2>6, <3>1, <3>2, ClientPhase, RestStep DEF ClientFrame
  <2>8. QuietQueues'
    <3>1. Making = {} /\ Making' = IF to = "makeB" THEN {c} ELSE {}
      BY <2>4, <2>6 DEF Making, ClientFrame
    <3>2. \A d \in Clients : /\ pc[d] \notin {"started", "setShutdown"}
                             /\ pc'[d] \notin {"started", "setShutdown"}
      BY <2>4, <2>6 DEF ClientFrame
    <3> QED BY <2>1, <2>2, <2>3, <3>1, <3>2 DEF QuietInv, QuietQueues
  <2> QED BY <2>5, <2>7, <2>8 DEF QuietInv
<1> QED BY <1>1, <1>2

\* The event queue is made: the goroutines of the start exist, those of the
\* earlier starts have run.
LEMMA QuietMakeB ==
    ASSUME AlwaysInv, QuietInv, NEW c \in Clients, makeBQueue(c)
    PROVE  QuietInv'
<1>0. /\ bQueue' = bQueue + 1
      /\ UNCHANGED << state, link, neuron, nQueue, nBuf, bBuf, nClosed, bClosed, event, chan,
                      starting, panicked >>
  BY DEF makeBQueue, status
<1>1. /\ ~panicked /\ pc[c] = "makeB" /\ pc'[c] = "started"
      /\ \A d \in Clients : d # c => pc'[d] = pc[d]
      /\ \A p \in Runners : pc'[p] = IF p[2] = bQueue + 1 THEN "spawned" ELSE pc[p]
  BY Spawned, TypeParts DEF AlwaysInv, ControlTypes
<1>2. bQueue \in Nat /\ nQueue \in Nat
  BY TypeParts, LifecycleAssumption DEF AlwaysInv, ScalarTypes
<1>3. state = "Shutdown" /\ c \in starting /\ Stopped /\ Busy(c)
  BY <1>1 DEF QuietInv, QuietPhases, StartPcs, Stopped, Busy
<1>4. /\ Drained /\ link = "Init" /\ neuron = "Inactive"
      /\ \A d \in Clients \ {c} : pc[d] \in {"idle", "waiting"}
  BY <1>3, ClientPhase
<1>5. QuietPhases' /\ ReadyIsNoticed'
  <2>1. \A p \in Runners : pc'[p] \in RestPcs
    BY <1>1, <1>4 DEF Drained, Runners, RestPcs
  <2>2. pc'[c] \in StartPcs /\ pc'[c] \notin StopPcs /\ starting' = starting \cup {c}
    BY <1>0, <1>1, <1>3 DEF StartPcs, StopPcs
  <2> QED BY <1>0, <1>1, <1>3, <1>4, <2>1, <2>2, RestStep
<1>6. QuietQueues'
  <2>1. c \in Making /\ Making' = {}
    BY <1>1, <1>4 DEF Making
  <2>2. nQueue = bQueue' /\ bClosed' = nClosed'
    BY <1>0, <2>1 DEF QuietInv, QuietQueues
  <2>3. bQueue' \notin bClosed' \cup {0}
    BY <1>0, <1>2 DEF AlwaysInv, ClosedWereMade
  <2>4. \A d \in Clients : pc'[d] # "setShutdown"
    BY <1>1, <1>4
  <2> QED BY <1>0, <1>1, <2>1, <2>2, <2>3, <2>4 DEF QuietQueues
<1>7. QuietMaintainers'
  <2> SUFFICES ASSUME NEW g \in Starts
               PROVE  /\ pc'[Maint(g)] = "none" <=> g > bQueue'
                      /\ g < bQueue' => pc'[Maint(g)] \in {"range", "done"}
                      /\ pc'[Maint(g)] \notin {"none", "spawned"} => chan'[Maint(g)] = g
                      /\ pc'[Maint(g)] \in {"none", "spawned"} => chan'[Maint(g)] = 0
                      /\ g # bQueue' => bBuf'[g] = << >>
                      /\ g = bQueue' /\ pc'[Maint(g)] = "spawned" =>
                           /\ Pending' \/ \E d \in Clients : pc'[d] \in {"started", "trig"}
                           /\ link' = "Ready" => Pending'
    BY DEF QuietMaintainers
  <2>1. g \in Int /\ Maint(g) \in Runners /\ Maint(g)[2] = g
    BY Kinds DEF Starts
  <2>2. pc'[Maint(g)] = IF g = bQueue + 1 THEN "spawned" ELSE pc[Maint(g)]
    BY <1>1, <2>1
  <2>3. bBuf'[g] = << >> /\ bBuf[g] = << >> /\ pc[Maint(g)] \in RestPcs
    BY <1>0, <1>4, <2>1 DEF Drained, Runners, RestPcs
  <2>4. CASE g = bQueue + 1
    <3>1. pc[Maint(g)] = "none"
      BY <1>2, <2>1, <2>4 DEF QuietInv, QuietMaintainers
    <3>2. chan'[Maint(g)] = 0
      BY <1>0, <3>1 DEF QuietInv, QuietMaintainers
    <3>3. pc'[Maint(g)] = "spawned" /\ g = bQueue' /\ link' # "Ready"
      BY <1>0, <1>4, <2>2, <2>4
    <3> QED BY <1>1, <2>1, <2>3, <3>2, <3>3
  <2>5. CASE g = bQueue
    <3>1. ~Pending
      BY <1>1, <1>4 DEF Pending, Drained
    <3>2. \A d \in Clients : pc[d] \notin {"started", "trig"}
      BY <1>1, <1>4
    <3>3. pc[Maint(g)] \in {"range", "done"} /\ chan[Maint(g)] = g
      BY <2>1, <2>3, <2>5, <3>1, <3>2 DEF QuietInv, QuietMaintainers, RestPcs
    <3> QED BY <1>0, <1>2, <2>1, <2>2, <2>3, <2>5, <3>3
  <2>6. CASE g # bQueue /\ g # bQueue + 1
    <3>1. pc'[Maint(g)] = pc[Maint(g)] /\ chan'[Maint(g)] = chan[Maint(g)]
      BY <1>0, <2>2, <2>6
    <3>2. g # bQueue' /\ (g > bQueue' <=> g > bQueue) /\ (g < bQueue' <=> g < bQueue)
      BY <1>0, <1>2, <2>1, <2>6
    <3> QED BY <2>3, <3>1, <3>2 DEF QuietInv, QuietMaintainers
  <2> QED BY <2>4, <2>5, <2>6
<1> QED BY <1>5, <1>6, <1>7 DEF QuietInv

\* The last step of a start, and the steps of a Shutdown: neither close meets a
\* queue that is nil or closed.
LEMMA QuietSwitch ==
    ASSUME AlwaysInv, QuietInv, NEW c \in Clients,
           maintainerStarted(c) \/ closeQueues(c) \/ setShutdown(c)
    PROVE  QuietInv'
<1>1. /\ ~panicked /\ pc[c] \in {"started", "close", "setShutdown"}
      /\ pc[c] = "started" <=> maintainerStarted(c)
      /\ pc[c] = "close" <=> closeQueues(c)
      /\ pc[c] = "setShutdown" <=> setShutdown(c)
  BY DEF maintainerStarted, closeQueues, setShutdown, Step, Panic
<1>2. /\ Stopped /\ Busy(c)
      /\ pc[c] = "started" => state = "Shutdown"
      /\ pc[c] # "started" => state = "Sleeping" /\ c \notin starting
  BY <1>1, ClientPhase DEF Busy, StartPcs, StopPcs, QuietInv, QuietPhases
<1>3. /\ Drained /\ link = "Init" /\ neuron = "Inactive"
      /\ \A d \in Clients \ {c} : pc[d] \in {"idle", "waiting"}
  BY <1>2, ClientPhase
<1>4. Making = {}
  BY <1>1, <1>3 DEF Making
<1>5. /\ nQueue = bQueue /\ nClosed = bClosed
      /\ bQueue \in bClosed \cup {0} <=> pc[c] = "setShutdown"
  BY <1>1, <1>2, <1>3, <1>4 DEF QuietInv, QuietQueues
<1>6. ~(Panic(c, "close") /\ NothingToClose)
  BY <1>5 DEF Panic, NothingToClose
<1>7. PICK to \in {"trig", "setShutdown", "idle"} :
        /\ Step(c, pc[c], to)
        /\ to = "trig" <=> pc[c] = "started"
        /\ to = "setShutdown" <=> pc[c] = "close"
  BY <1>1, <1>2, <1>6 DEF maintainerStarted, closeQueues, setShutdown, Step
<1>8. /\ UNCHANGED << link, neuron, nQueue, bQueue, nBuf, bBuf, event, chan, panicked >>
      /\ state' = IF to = "trig" THEN "Sleeping" ELSE IF to = "idle" THEN "Shutdown" ELSE state
      /\ starting' = starting \ {c}
      /\ bClosed' = IF to = "setShutdown" THEN bClosed \cup {bQueue} ELSE bClosed
      /\ nClosed' = IF to = "setShutdown" THEN nClosed \cup {nQueue} ELSE nClosed
  BY <1>1, <1>2, <1>6, <1>7 DEF maintainerStarted, closeQueues, setShutdown, status, queues
<1>9. ClientFrame(c, pc[c], to)
  BY <1>7, <1>8, ClientMoved
<1>10. QuietMaintainers'
  BY <1>1, <1>7, <1>8, <1>9, PlainStep DEF QuietInv
<1>11. QuietPhases' /\ ReadyIsNoticed'
  <2>1. \A p \in Runners : pc'[p] \in RestPcs
    BY <1>3, <1>9 DEF ClientFrame, Drained, Runners, RestPcs
  <2>2. /\ pc'[c] \notin StartPcs
        /\ pc'[c] \in StopPcs => state' = "Sleeping"
        /\ pc'[c] \in {"idle"} \cup StopPcs \/ state' # "Shutdown"
    BY <1>1, <1>2, <1>7, <1>8, <1>9 DEF ClientFrame, StartPcs, StopPcs
  <2> QED BY <1>1, <1>3, <1>8, <1>9, <2>1, <2>2, RestStep DEF ClientFrame
<1>12. QuietQueues'
  <2>1. \A d \in Clients : /\ pc'[d] \notin {"makeB", "started"}
                           /\ pc'[d] = "setShutdown" <=> d = c /\ to = "setShutdown"
    BY <1>3, <1>9 DEF ClientFrame
  <2>2. Making' = {}
    BY <2>1 DEF Making
  <2> QED BY <1>1, <1>2, <1>5, <1>7, <1>8, <2>1, <2>2 DEF QuietQueues
<1> QED BY <1>10, <1>11, <1>12 DEF QuietInv
\* What is left of a call on an open brain: triggering the link, publishing,
\* refreshing. No send meets a closed queue, and a link that is made Ready is
\* noticed, by an event or by a refreshState still to come.
LEMMA QuietTrigger ==
    ASSUME AlwaysInv, QuietInv, NEW c \in Clients,
           trigLink(c) \/ publishEvent(c) \/ publishSend(c) \/ refreshState(c)
    PROVE  QuietInv'
<1>1. pc[c] \in {"trig", "refresh", "publish", "send"} /\ c \in Goroutines
  BY Kinds DEF trigLink, publishEvent, publishSend, refreshState, Publish, Step, Panic
<1>2. ~Stopped
  BY <1>1, ClientPhase
<1>3. state # "Shutdown" /\ bQueue \notin bClosed /\ bQueue # 0 /\ bQueue \in Starts
  BY <1>2, OpenQueues
<1>4. \A e : event' = [event EXCEPT ![c] = e] => event'[c] = e
  BY <1>1, TypeParts DEF AlwaysInv, EventTypes
<1>5. PICK from \in {"trig", "refresh", "publish", "send"},
           to \in {"publish", "send", "refresh", "idle"} :
        /\ Step(c, from, to)
        /\ event' = event \/ \E e : event' = [event EXCEPT ![c] = e]
  BY <1>1, <1>3, Kinds
     DEF trigLink, publishEvent, publishSend, refreshState, Publish, Published, Rest, Panic
<1>6. /\ UNCHANGED << nQueue, bQueue, nClosed, bClosed, chan, starting, panicked >>
      /\ state' \in {state, "Running"}
  BY <1>3 DEF trigLink, publishEvent, publishSend, refreshState, Panic, status, queues
<1>7. ClientFrame(c, from, to)
  BY <1>5, ClientMoved
<1>8. QuietPhases' /\ QuietQueues'
  BY <1>2, <1>3, <1>6, <1>7, OpenStep DEF ClientFrame, StartPcs, StopPcs
<1>9. CASE trigLink(c)
  <2>1. CASE link # "Ready"
    <3>1. pc'[c] = "publish" /\ event'[c] = "link_ready" /\ UNCHANGED bBuf /\ c \in Clients
      BY <1>1, <1>4, <1>9, <2>1, TypeParts
         DEF trigLink, Publish, Step, queues, AlwaysInv, ControlTypes
    <3>2. Pending' /\ ReadyIsNoticed'
      BY <3>1 DEF Pending, ReadyIsNoticed
    <3>3. QuietMaintainers'
      BY <1>6, <1>7, <3>1, <3>2, MaintainersKept DEF ClientFrame, QuietInv
    <3> QED BY <1>8, <3>2, <3>3 DEF QuietInv
  <2>2. CASE link = "Ready"
    <3>1. pc[c] = "trig" /\ pc'[c] = "refresh" /\ UNCHANGED << bBuf, event, state, link >>
      BY <1>1, <1>9, <2>2, TypeParts
         DEF trigLink, Step, status, queues, AlwaysInv, ControlTypes
    <3>2. ReadyIsNoticed'
      BY <3>1 DEF ReadyIsNoticed
    <3>3. Pending => Pending'
      BY <1>6, <1>7, <3>1 DEF Pending, ClientFrame
    <3>4. QuietMaintainers'
      BY <1>6, <1>7, <2>2, <3>1, <3>3, MaintainersKept DEF ClientFrame, QuietInv
    <3> QED BY <1>8, <3>2, <3>4 DEF QuietInv
  <2> QED BY <2>1, <2>2
<1>10. CASE publishEvent(c)
  <2>1. /\ pc[c] = "publish" /\ pc'[c] = "send"
        /\ UNCHANGED << bBuf, event, state, link >>
    BY <1>1, <1>3, <1>10, TypeParts
       DEF publishEvent, Step, status, queues, AlwaysInv, ControlTypes
  <2>2. ReadyIsNoticed'
    BY <1>7, <2>1 DEF QuietInv, ReadyIsNoticed, ClientFrame
  <2>3. Pending => Pending'
    BY <1>6, <1>7, <2>1 DEF Pending, ClientFrame
  <2>4. (\E d \in Clients : pc[d] \in {"started", "trig"}) =>
          \E d \in Clients : pc'[d] \in {"started", "trig"}
    BY <1>7, <2>1 DEF ClientFrame
  <2>5. QuietMaintainers'
    BY <1>6, <1>7, <2>1, <2>3, <2>4, MaintainersKept DEF ClientFrame, QuietInv
  <2> QED BY <1>8, <2>2, <2>5 DEF QuietInv
<1>11. CASE publishSend(c)
  <2>1. /\ pc[c] = "send" /\ pc'[c] = Published(c) /\ UNCHANGED << state, link >>
        /\ bBuf' = [bBuf EXCEPT ![bQueue] = Append(@, event[c])]
    BY <1>1, <1>3, <1>11, TypeParts
       DEF publishSend, Step, Panic, status, AlwaysInv, ControlTypes
  <2>2. /\ bBuf'[bQueue] = Append(bBuf[bQueue], event[c])
        /\ \A g \in Starts : g # bQueue => bBuf'[g] = bBuf[g]
    BY <1>3, <2>1, TypeParts DEF AlwaysInv, BufferTypes
  <2>3. bBuf'[bQueue] # << >>
    <3>1. bBuf[bQueue] \in Seq(Events) /\ event[c] \in Events
      BY <1>1, <1>3, <2>1, TypeParts DEF AlwaysInv, BufferTypes, SendersReady
    <3> QED BY <2>2, <3>1
  <2>4. Pending'
    BY <1>3, <1>6, <2>3 DEF Pending
  <2>5. QuietMaintainers'
    BY <1>6, <1>7, <2>1, <2>2, <2>4, MaintainersKept DEF ClientFrame, QuietInv
  <2>6. event[c] = "link_ready" => pc'[c] = "refresh"
    BY <1>1, <2>1, PublishedPcs
  <2>7. ReadyIsNoticed'
    BY <1>7, <2>1, <2>6 DEF QuietInv, ReadyIsNoticed, ClientFrame
  <2> QED BY <1>8, <2>5, <2>7 DEF QuietInv
<1>12. CASE refreshState(c)
  <2>1. /\ pc[c] = "refresh" /\ UNCHANGED << bBuf, link >>
        /\ link = "Ready" => state' = "Running"
    BY <1>12 DEF refreshState, Publish, Step, status, queues
  <2>2. ReadyIsNoticed'
    BY <2>1 DEF ReadyIsNoticed
  <2>3. QuietMaintainers'
    <3>1. from = "refresh"
      BY <1>7, <2>1 DEF ClientFrame
    <3> QED BY <1>6, <1>7, <2>1, <3>1, PlainStep DEF QuietInv
  <2> QED BY <1>8, <2>2, <2>3 DEF QuietInv
<1> QED BY <1>9, <1>10, <1>11, <1>12

-----------------------------------------------------------------------------
(* The invariant, and what follows from it.                                 *)

\* The invariant of quiet use holds before the first call.
LEMMA QuietInit == Init => QuietInv
<1> SUFFICES ASSUME Init PROVE QuietInv
  OBVIOUS
<1>1. /\ \A c \in Clients : pc[c] = "idle"
      /\ \A p \in Runners : pc[p] = "none" /\ chan[p] = 0
      /\ \A g \in Starts : bBuf[g] = << >> /\ nBuf[g] = 0
  BY Kinds DEF Init, Runners
<1>2. Making = {}
  BY <1>1 DEF Making
<1>3. QuietPhases
  BY <1>1 DEF Init, QuietPhases, Drained, Runners, Busy, StartPcs, StopPcs
<1>4. QuietQueues /\ ReadyIsNoticed
  BY <1>1, <1>2 DEF Init, QuietQueues, ReadyIsNoticed
<1>5. QuietMaintainers
  <2>1. \A g \in Starts : /\ pc[Maint(g)] = "none" /\ chan[Maint(g)] = 0 /\ g > bQueue
                          /\ ~(g < bQueue)
    BY <1>1, Kinds DEF Init, Starts
  <2> QED BY <1>1, <2>1 DEF QuietMaintainers
<1> QED BY <1>3, <1>4, <1>5 DEF QuietInv

\* A step that changes nothing.
LEMMA QuietStutter == QuietInv /\ UNCHANGED vars => QuietInv'
<1> SUFFICES ASSUME QuietInv, UNCHANGED vars PROVE QuietInv'
  OBVIOUS
<1>1. UNCHANGED << state, link, neuron, nQueue, bQueue, nBuf, bBuf, nClosed, bClosed, pc,
                   event, chan, starting, panicked >>
  BY DEF vars, status, queues
<1>2. QuietPhases'
  BY <1>1 DEF QuietInv, QuietPhases, Stopped, Busy, Drained
<1>3. QuietQueues' /\ ReadyIsNoticed'
  BY <1>1 DEF QuietInv, QuietQueues, Making, ReadyIsNoticed
<1>4. QuietMaintainers'
  <2>1. Pending <=> Pending'
    BY <1>1 DEF Pending
  <2> QED BY <1>1, <2>1 DEF QuietInv, QuietMaintainers
<1> QED BY <1>2, <1>3, <1>4 DEF QuietInv

\* A use that is not quiet is not forgotten, and a call that is out of place or
\* too early is not quiet.
LEMMA UseRemembered ==
    ASSUME [Next]_vars, use' = "quiet"
    PROVE  /\ use = "quiet"
           /\ \A c \in Clients : /\ trigLinks(c) => ~OutOfPlace(c)
                                 /\ callShutdown(c) =>
                                      /\ state = "Sleeping" /\ Drained
                                      /\ \A d \in Clients \ {c} : ~Busy(d)
<1>1. ASSUME NEW c \in Clients, trigLinks(c) PROVE use = "quiet" /\ ~OutOfPlace(c)
  BY <1>1 DEF trigLinks
<1>2. ASSUME NEW c \in Clients, callShutdown(c)
      PROVE  /\ use = "quiet" /\ state = "Sleeping" /\ Drained
             /\ \A d \in Clients \ {c} : ~Busy(d)
  BY <1>2 DEF callShutdown
<1>3. ASSUME NEW p \in Goroutines, publishEvent(p) \/ publishSend(p) \/ refreshState(p)
      PROVE  use = "quiet"
  BY <1>3 DEF publishEvent, publishSend, refreshState, Panic
<1>4. ASSUME NEW p \in Maintainers, MaintainerStep(p) PROVE use = "quiet"
  BY <1>3, <1>4, Kinds
     DEF MaintainerStep, runBrainMaintainer, maintain, tryActivateNeuron,
         publishEventActivateNeuron, sendNeuron, ForceSleep, Panic
<1>5. ASSUME NEW p \in NeuronWorkers, WorkerStep(p) PROVE use = "quiet"
  BY <1>3, <1>5, Kinds
     DEF WorkerStep, runNeuronWorker, nextNeuron, activateNeuron, processOk
<1>6. ASSUME NEW c \in Clients, callWait(c) \/ ClientStep(c) PROVE use = "quiet"
  BY <1>3, <1>6, Kinds
     DEF callWait, ClientStep, ensureMaintainerStart, maintainerStart, makeNQueue, makeBQueue,
         maintainerStarted, trigLink, closeQueues, setShutdown, waitReturns, Panic
<1>7. UNCHANGED vars => use = "quiet"
  BY DEF vars
<1> QED BY <1>1, <1>2, <1>4, <1>5, <1>6, <1>7 DEF Next

\* The two invariants together, at the start
LEMMA LifeInit == Init => LifeInv
BY AlwaysInit, QuietInit DEF LifeInv

\* and after every step.
LEMMA LifeNext == LifeInv /\ [Next]_vars => LifeInv'
<1> SUFFICES ASSUME LifeInv, [Next]_vars, use' = "quiet" PROVE QuietInv'
  BY AlwaysNext DEF LifeInv
<1>1. AlwaysInv /\ QuietInv
  BY UseRemembered DEF LifeInv
<1>2. ASSUME NEW p \in Maintainers, MaintainerStep(p) PROVE QuietInv'
  BY <1>1, <1>2, MaintainerEffect, QuietRunner, Kinds
<1>3. ASSUME NEW p \in NeuronWorkers, WorkerStep(p) PROVE QuietInv'
  BY <1>1, <1>3, WorkerEffect, QuietRunner, Kinds
<1>4. ASSUME NEW c \in Clients, trigLinks(c) \/ callShutdown(c) \/ callWait(c)
      PROVE  QuietInv'
  BY <1>1, <1>4, UseRemembered, QuietTrigLinks, QuietShutdown, QuietWait
<1>5. ASSUME NEW c \in Clients, ClientStep(c) PROVE QuietInv'
  BY <1>1, <1>5, QuietStart, QuietMakeB, QuietSwitch, QuietTrigger, QuietWait DEF ClientStep
<1> QED BY <1>1, <1>2, <1>3, <1>4, <1>5, QuietStutter DEF Next

\* However often a program starts the brain and shuts it down, as long as its
\* first triggers do not overlap and it calls Shutdown on a drained brain: no
\* goroutine sends on a closed queue and no queue is closed twice.
THEOREM QuietUseIsSafe == Spec => []QuietNoPanic
<1>1. LifeInv => QuietNoPanic
  BY DEF LifeInv, QuietInv, QuietPhases, QuietNoPanic
<1> QED BY <1>1, LifeInit, LifeNext, PTL DEF Spec

\* Under the same use, and while no call starts or stops the brain, b.state is
\* Shutdown exactly when both queues are nil or closed: what
\* ensureMaintainerStart reads is the truth.
THEOREM StateTellsTheQueues == Spec => []StateTellsQueues
<1>1. LifeInv => StateTellsQueues
  <2> SUFFICES ASSUME LifeInv, use = "quiet", Calm
               PROVE  /\ state = "Shutdown" <=> bQueue \in bClosed \cup {0}
                      /\ state = "Shutdown" <=> nQueue \in nClosed \cup {0}
    BY DEF StateTellsQueues
  <2>1. \A c \in Clients : pc[c] \notin StopPcs \cup StartPcs
    BY DEF Calm, LifeInv, QuietInv, QuietPhases
  <2>2. Making = {}
    BY <2>1 DEF Making, StartPcs
  <2> QED BY <2>1, <2>2 DEF LifeInv, QuietInv, QuietQueues, StartPcs, StopPcs
<1> QED BY <1>1, LifeInit, LifeNext, PTL DEF Spec

\* Under the same use the maintainer of b.bQueue is the only one that handles
\* events: those of earlier starts range over queues of their own, which are
\* empty.
THEOREM MaintainerIsAlone == Spec => []OneMaintainer
<1>1. LifeInv => OneMaintainer
  <2> SUFFICES ASSUME LifeInv, use = "quiet", NEW p \in Maintainers, NEW q \in Maintainers,
                      pc[p] \notin {"none", "done"}, pc[q] \notin {"none", "done"}, p # q
               PROVE  chan[p] # chan[q] /\ "range" \in {pc[p], pc[q]}
    BY DEF OneMaintainer
  <2>1. /\ p[2] \in Starts /\ q[2] \in Starts /\ p[2] # q[2]
        /\ p = Maint(p[2]) /\ q = Maint(q[2])
    BY Kinds DEF Runners
  <2>2. p[2] <= bQueue /\ q[2] <= bQueue /\ p[2] \in 1..MaxStarts /\ q[2] \in 1..MaxStarts
    BY <2>1, Kinds DEF LifeInv, AlwaysInv, SendersReady, Starts
  <2>3. bQueue \in Nat
    BY TypeParts, LifecycleAssumption DEF LifeInv, AlwaysInv, ScalarTypes
  <2>4. /\ p[2] < bQueue => pc[p] = "range" /\ chan[p] = p[2]
        /\ q[2] < bQueue => pc[q] = "range" /\ chan[q] = q[2]
        /\ chan[p] \in {0, p[2]} /\ chan[q] \in {0, q[2]}
    BY <2>1 DEF LifeInv, QuietInv, QuietMaintainers
  <2> HIDE DEF LifeInv
  <2> QED BY <2>1, <2>2, <2>3, <2>4
<1> QED BY <1>1, LifeInit, LifeNext, PTL DEF Spec

\* A Shutdown of a drained brain leaves no Ready link, no Active neuron and no
\* event to the next start.
THEOREM RestartIsClean == Spec => []RestartsClean
<1>1. LifeInv => RestartsClean
  BY DEF LifeInv, QuietInv, QuietPhases, RestartsClean, Stopped
<1> QED BY <1>1, LifeInit, LifeNext, PTL DEF Spec

=============================================================================
