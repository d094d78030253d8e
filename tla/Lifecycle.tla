------------------------------ MODULE Lifecycle ------------------------------
(***************************************************************************)
(* The life of a brain: the first trigger starts it (ensureMaintainerStart *)
(* makes the queues, the workers and the maintainer), Shutdown closes the  *)
(* queues, a later trigger starts it again.  maintain.go, event.go and     *)
(* neuron_runner.go are the same text in src/brainlocal and src/brainlite. *)
(*                                                                         *)
(* The brain is the smallest there is, one entry link to one neuron: what  *)
(* is examined here is who sends on which queue, and when it is closed.    *)
(* The handlers are coarser than those of BrainLocal: an activation, the   *)
(* decision to activate, refreshState up to its send, ForceSleep and       *)
(* trigLink up to its send are one step each, so are the two closes of     *)
(* Shutdown, and processors do not fail.                                   *)
(* What BrainLocal leaves out is in full:                                  *)
(* publishEvent tests the brain's state in one step and sends on b.bQueue, *)
(* whatever that is by then, in another; a goroutine reads the queue it    *)
(* ranges over when it first runs; a send on a closed queue, and closing   *)
(* a queue that is nil or closed, panic; a closed queue is drained before  *)
(* its range ends.  ensureMemoryInit and cache.Close are in LocalMemory.   *)
(***************************************************************************)
EXTENDS Integers, Sequences, FiniteSets

CONSTANTS
    Clients,    \* goroutines of the program that uses the brain
    Workers,    \* the nWorkerNum worker goroutines of one start
    BQueueLen,  \* bQueueLen
    NQueueLen,  \* nQueueLen
    Uses,       \* the kinds of use (see use) that the program is capable of
    MaxStarts,  \* bound: starts in a behaviour
    MaxCalls    \* bound: calls of trigLinks and Shutdown in a behaviour

ASSUME LifecycleAssumption ==
    /\ BQueueLen \in Nat \ {0} /\ NQueueLen \in Nat \ {0}
    /\ MaxStarts \in Nat /\ MaxCalls \in Nat
    /\ "quiet" \in Uses /\ Uses \subseteq {"quiet", "waited", "rough"}

Starts == 1..MaxStarts
Maintainers == {"maintainer"} \X Starts
NeuronWorkers == {"worker"} \X Starts \X Workers
Goroutines == Clients \cup Maintainers \cup NeuronWorkers

ASSUME ClientsAssumption ==
    IsFiniteSet(Clients) /\ Clients \cap (Maintainers \cup NeuronWorkers) = {}

VARIABLES
    state,             \* b.state
    link, neuron,      \* status.state of the link and of the neuron
    nQueue, bQueue,    \* which queue b.nQueue and b.bQueue are: 0 is nil
    nBuf, bBuf,        \* what is in each queue ever made: neurons, events
    nClosed, bClosed,  \* the queues that were closed
    pc,                \* control point of each goroutine
    event,             \* the event it is about to publish
    chan,              \* the queue it ranges over
    starting,          \* clients inside maintainerStart
    panicked,          \* the program has crashed
    calls,             \* calls so far
    use                \* history: how Shutdown and the starts were called

status == << state, link, neuron >>
queues == << nQueue, bQueue, nBuf, bBuf, nClosed, bClosed >>
vars == << status, queues, pc, event, chan, starting, panicked, calls, use >>

Events == {"link_ready", "try_activate_neuron", "try_cast", "brain_sleep"}

Step(p, from, to) ==
    ~panicked /\ pc[p] = from /\ pc' = [pc EXCEPT ![p] = to]

Panic(p, at) ==
    /\ ~panicked /\ pc[p] = at
    /\ panicked' = TRUE
    /\ UNCHANGED << status, queues, pc, event, chan, starting, calls, use >>

-----------------------------------------------------------------------------
(* publishEvent, in whatever goroutine.                                     *)

Publish(p, e, from) == Step(p, from, "publish") /\ event' = [event EXCEPT ![p] = e]

\* Where the caller goes on: trigLinks and maintain call refreshState after a
\* link or neuron event, a worker takes its next neuron.
Rest(p) == IF p \in Clients THEN "idle" ELSE "range"
Published(p) ==
    IF p \in NeuronWorkers \/ event[p] = "brain_sleep" THEN Rest(p) ELSE "refresh"

publishEvent(p) ==
    /\ \/ /\ state = "Shutdown" \/ bQueue = 0
          /\ Step(p, "publish", Published(p))
          /\ event' = [event EXCEPT ![p] = "none"]
       \/ /\ ~(state = "Shutdown" \/ bQueue = 0)
          /\ Step(p, "publish", "send")
          /\ UNCHANGED event
    /\ UNCHANGED << status, queues, chan, starting, panicked, calls, use >>

publishSend(p) ==
    \/ /\ Step(p, "send", Published(p))
       /\ bQueue \notin bClosed /\ Len(bBuf[bQueue]) < BQueueLen
       /\ bBuf' = [bBuf EXCEPT ![bQueue] = Append(@, event[p])]
       /\ event' = [event EXCEPT ![p] = "none"]
       /\ UNCHANGED << status, nQueue, bQueue, nBuf, nClosed, bClosed, chan, starting,
                       panicked, calls, use >>
    \/ Panic(p, "send") /\ bQueue \in bClosed

\* refreshState: count the Active neurons and the links on Wait or Ready, and
\* write Running or publish BrainSleep.
refreshState(p) ==
    \/ /\ neuron = "Active" \/ link = "Ready"
       /\ Step(p, "refresh", Rest(p))
       /\ state' = "Running"
       /\ UNCHANGED << link, neuron, queues, event, chan, starting, panicked, calls, use >>
    \/ /\ ~(neuron = "Active" \/ link = "Ready")
       /\ Publish(p, "brain_sleep", "refresh")
       /\ UNCHANGED << status, queues, chan, starting, panicked, calls, use >>

-----------------------------------------------------------------------------
(* The maintainer.                                                          *)

\* runBrainMaintainer begins: the range expression b.bQueue is evaluated.
runBrainMaintainer(p) ==
    /\ Step(p, "spawned", "range")
    /\ chan' = [chan EXCEPT ![p] = bQueue]
    /\ UNCHANGED << status, queues, event, starting, panicked, calls, use >>

\* Mutant: the end of the queue is not noticed.
maintainForever(p) ==
    /\ pc[p] = "range" /\ bBuf[chan[p]] # << >>
    /\ LET e == Head(bBuf[chan[p]])
       IN \/ e = "link_ready" /\ Publish(p, "try_activate_neuron", "range")
          \/ e # "link_ready" /\ UNCHANGED event
             /\ Step(p, "range", IF e = "try_cast" THEN "refresh" ELSE e)
    /\ bBuf' = [bBuf EXCEPT ![chan[p]] = Tail(@)]
    /\ UNCHANGED << status, nQueue, bQueue, nBuf, nClosed, bClosed, chan, starting, panicked,
                    calls, use >>

\* The next event; at the end of a closed queue the goroutine ends.
\* handleLinkEvent publishes TryActivate, neuronCast finds no out-link.
maintain(p) ==
    \/ /\ pc[p] = "range" /\ bBuf[chan[p]] # << >>
       /\ LET e == Head(bBuf[chan[p]])
          IN \/ e = "link_ready" /\ Publish(p, "try_activate_neuron", "range")
             \/ e # "link_ready" /\ UNCHANGED event
                /\ Step(p, "range", IF e = "try_cast" THEN "refresh" ELSE e)
       /\ bBuf' = [bBuf EXCEPT ![chan[p]] = Tail(@)]
       /\ UNCHANGED << status, nQueue, bQueue, nBuf, nClosed, bClosed, chan, starting,
                       panicked, calls, use >>
    \/ /\ Step(p, "range", "done")
       /\ bBuf[chan[p]] = << >> /\ chan[p] \in bClosed
       /\ UNCHANGED << status, queues, event, chan, starting, panicked, calls, use >>

ifNeuronShouldActivate == state = "Running" /\ link = "Ready"

tryActivateNeuron(p) ==
    /\ Step(p, "try_activate_neuron",
            IF neuron = "Inactive" /\ ifNeuronShouldActivate THEN "enqueue" ELSE "refresh")
    /\ UNCHANGED << status, queues, event, chan, starting, panicked, calls, use >>

\* publishEventActivateNeuron: test, then send on b.nQueue.
publishEventActivateNeuron(p) ==
    /\ Step(p, "enqueue", IF state = "Shutdown" \/ nQueue = 0 THEN "refresh" ELSE "sendNeuron")
    /\ UNCHANGED << status, queues, event, chan, starting, panicked, calls, use >>

sendNeuron(p) ==
    \/ /\ Step(p, "sendNeuron", "refresh")
       /\ nQueue \notin nClosed /\ nBuf[nQueue] < NQueueLen
       /\ nBuf' = [nBuf EXCEPT ![nQueue] = @ + 1]
       /\ UNCHANGED << status, nQueue, bQueue, bBuf, nClosed, bClosed, event, chan,
                       starting, panicked, calls, use >>
    \/ Panic(p, "sendNeuron") /\ nQueue \in nClosed

ForceSleep(p) ==
    /\ Step(p, "brain_sleep", "range")
    /\ link' = "Init" /\ neuron' = "Inactive" /\ state' = "Sleeping"
    /\ UNCHANGED << queues, event, chan, starting, panicked, calls, use >>

MaintainerStep(p) ==
    \/ runBrainMaintainer(p) \/ maintain(p) \/ tryActivateNeuron(p)
    \/ publishEventActivateNeuron(p) \/ sendNeuron(p) \/ ForceSleep(p)
    \/ refreshState(p) \/ publishEvent(p) \/ publishSend(p)

-----------------------------------------------------------------------------
(* A neuron worker.                                                         *)

runNeuronWorker(p) ==
    /\ Step(p, "spawned", "range")
    /\ chan' = [chan EXCEPT ![p] = nQueue]
    /\ UNCHANGED << status, queues, event, starting, panicked, calls, use >>

nextNeuron(p) ==
    LET q == chan[p]
    IN \/ /\ Step(p, "range", "activate")
          /\ nBuf[q] > 0
          /\ nBuf' = [nBuf EXCEPT ![q] = @ - 1]
          /\ UNCHANGED << status, nQueue, bQueue, bBuf, nClosed, bClosed, event, chan,
                          starting, panicked, calls, use >>
       \/ /\ Step(p, "range", "done")
          /\ nBuf[q] = 0 /\ q \in nClosed
          /\ UNCHANGED << status, queues, event, chan, starting, panicked, calls, use >>

activateNeuron(p) ==
    /\ Step(p, "activate", "process")
    /\ neuron' = "Active" /\ link' = "Init"
    /\ UNCHANGED << state, queues, event, chan, starting, panicked, calls, use >>

\* The processor returns, TryCast is published.
processOk(p) ==
    /\ Publish(p, "try_cast", "process")
    /\ neuron' = "Inactive"
    /\ UNCHANGED << state, link, queues, chan, starting, panicked, calls, use >>

WorkerStep(p) ==
    \/ runNeuronWorker(p) \/ nextNeuron(p) \/ activateNeuron(p)
    \/ processOk(p) \/ publishEvent(p) \/ publishSend(p)

-----------------------------------------------------------------------------
(* A client.                                                                *)

Busy(c) == pc[c] \notin {"idle", "waiting"}
StopPcs == {"close", "setShutdown"}

\* Every event has been handled and no processor runs.
Drained ==
    /\ \A p \in Maintainers \cup NeuronWorkers : pc[p] \in {"none", "spawned", "range", "done"}
    /\ \A g \in Starts : bBuf[g] = << >> /\ nBuf[g] = 0

\* A call is out of place if it meets another one on a brain that is being
\* started or stopped.
OutOfPlace(c) ==
    \E d \in Clients \ {c} : Busy(d) /\ (state = "Shutdown" \/ pc[d] \in StopPcs)

\* Entry or TrigLinks, with the brain's link.
trigLinks(c) ==
    /\ calls < MaxCalls /\ calls' = calls + 1
    /\ Step(c, "idle", "ensure")
    /\ use' = IF OutOfPlace(c) THEN "rough" ELSE use
    /\ use' \in Uses
    /\ UNCHANGED << status, queues, event, chan, starting, panicked >>

\* Mutant: the brain's state is not looked at.
ensureMaintainerStartAlways(c) ==
    /\ Step(c, "ensure", "start")
    /\ starting' = starting \cup {c}
    /\ UNCHANGED << status, queues, event, chan, panicked, calls, use >>

ensureMaintainerStart(c) ==
    /\ Step(c, "ensure", IF state = "Shutdown" THEN "start" ELSE "trig")
    /\ starting' = IF state = "Shutdown" THEN starting \cup {c} ELSE starting
    /\ UNCHANGED << status, queues, event, chan, panicked, calls, use >>

\* maintainerStart tests the state again: another start may have been faster,
\* and is then shut down.
maintainerStart(c) ==
    /\ Step(c, "start", IF state # "Shutdown" THEN "close" ELSE "makeN")
    /\ UNCHANGED << status, queues, event, chan, starting, panicked, calls, use >>

\* Mutant: the goroutines are started before the event queue is made.
makeNQueueSpawn(c) ==
    /\ ~panicked /\ pc[c] = "makeN" /\ nQueue < MaxStarts
    /\ nQueue' = nQueue + 1
    /\ pc' = [p \in Goroutines |->
                 IF p = c THEN "makeB"
                 ELSE IF p \in Maintainers \cup NeuronWorkers /\ p[2] = nQueue + 1
                      THEN "spawned" ELSE pc[p]]
    /\ UNCHANGED << status, bQueue, nBuf, bBuf, nClosed, bClosed, event, chan, starting,
                    panicked, calls, use >>

makeNQueue(c) ==
    /\ Step(c, "makeN", "makeB") /\ nQueue < MaxStarts
    /\ nQueue' = nQueue + 1
    /\ UNCHANGED << status, bQueue, nBuf, bBuf, nClosed, bClosed, event, chan, starting,
                    panicked, calls, use >>

\* b.bQueue is made and the goroutines of this start exist; when they first
\* run is up to the scheduler.
makeBQueue(c) ==
    /\ ~panicked /\ pc[c] = "makeB"
    /\ bQueue' = bQueue + 1
    /\ pc' = [p \in Goroutines |->
                 IF p = c THEN "started"
                 ELSE IF p \in Maintainers \cup NeuronWorkers /\ p[2] = bQueue + 1
                      THEN "spawned" ELSE pc[p]]
    /\ UNCHANGED << status, nQueue, nBuf, bBuf, nClosed, bClosed, event, chan, starting,
                    panicked, calls, use >>

\* ensureMaintainerStart ends with setState.
maintainerStarted(c) ==
    /\ Step(c, "started", "trig")
    /\ state' = "Sleeping"
    /\ starting' = starting \ {c}
    /\ UNCHANGED << link, neuron, queues, event, chan, panicked, calls, use >>

\* Mutant: the call returns when the link is Ready.
trigLinkOnly(c) ==
    /\ Step(c, "trig", "idle")
    /\ link' = "Ready"
    /\ UNCHANGED << state, neuron, queues, event, chan, starting, panicked, calls, use >>

\* trigLink: a link that is Ready already sends nothing.
trigLink(c) ==
    \/ /\ link # "Ready"
       /\ Publish(c, "link_ready", "trig")
       /\ link' = "Ready"
       /\ UNCHANGED << state, neuron, queues, chan, starting, panicked, calls, use >>
    \/ /\ link = "Ready"
       /\ Step(c, "trig", "refresh")
       /\ UNCHANGED << status, queues, event, chan, starting, panicked, calls, use >>

\* Shutdown is called. The history: a Shutdown is "rough" while another call is
\* under way or when the brain is not Sleeping; one that follows Wait may still
\* find events or processors under way.
callShutdown(c) ==
    /\ calls < MaxCalls /\ calls' = calls + 1
    /\ Step(c, "idle", "close")
    /\ use' = IF state # "Sleeping" \/ \E d \in Clients \ {c} : Busy(d) THEN "rough"
              ELSE IF use = "quiet" /\ ~Drained THEN "waited" ELSE use
    /\ use' \in Uses
    /\ UNCHANGED << status, queues, event, chan, starting, panicked >>

NothingToClose == nQueue \in nClosed \cup {0} \/ bQueue \in bClosed \cup {0}

\* Mutant: only the neuron queue is closed.
closeQueuesNeurons(c) ==
    \/ /\ ~NothingToClose
       /\ Step(c, "close", "setShutdown")
       /\ nClosed' = nClosed \cup {nQueue}
       /\ UNCHANGED << status, nQueue, bQueue, nBuf, bBuf, bClosed, event, chan, starting,
                       panicked, calls, use >>
    \/ Panic(c, "close") /\ NothingToClose

closeQueues(c) ==
    \/ /\ ~NothingToClose
       /\ Step(c, "close", "setShutdown")
       /\ nClosed' = nClosed \cup {nQueue} /\ bClosed' = bClosed \cup {bQueue}
       /\ UNCHANGED << status, nQueue, bQueue, nBuf, bBuf, event, chan, starting, panicked,
                       calls, use >>
    \/ Panic(c, "close") /\ NothingToClose

setShutdown(c) ==
    /\ Step(c, "setShutdown", IF c \in starting THEN "makeN" ELSE "idle")
    /\ state' = "Shutdown"
    /\ UNCHANGED << link, neuron, queues, event, chan, starting, panicked, calls, use >>

callWait(c) ==
    /\ Step(c, "idle", "waiting")
    /\ UNCHANGED << status, queues, event, chan, starting, panicked, calls, use >>

waitReturns(c) ==
    /\ state # "Running"
    /\ Step(c, "waiting", "idle")
    /\ UNCHANGED << status, queues, event, chan, starting, panicked, calls, use >>

\* The steps of a call that has begun.
ClientStep(c) ==
    \/ ensureMaintainerStart(c) \/ maintainerStart(c) \/ makeNQueue(c) \/ makeBQueue(c)
    \/ maintainerStarted(c) \/ trigLink(c) \/ publishEvent(c) \/ publishSend(c)
    \/ refreshState(c)
    \/ closeQueues(c) \/ setShutdown(c) \/ waitReturns(c)

-----------------------------------------------------------------------------
(* BuildBrain: the brain is in the state Shutdown and has no queues.        *)

Init ==
    /\ state = "Shutdown" /\ link = "Init" /\ neuron = "Inactive"
    /\ nQueue = 0 /\ bQueue = 0
    /\ nBuf = [g \in Starts |-> 0] /\ bBuf = [g \in Starts |-> << >>]
    /\ nClosed = {} /\ bClosed = {}
    /\ pc = [p \in Goroutines |-> IF p \in Clients THEN "idle" ELSE "none"]
    /\ event = [p \in Goroutines |-> "none"]
    /\ chan = [p \in Maintainers \cup NeuronWorkers |-> 0]
    /\ starting = {} /\ panicked = FALSE /\ calls = 0 /\ use = "quiet"

Next ==
    \/ \E p \in Maintainers : MaintainerStep(p)
    \/ \E p \in NeuronWorkers : WorkerStep(p)
    \/ \E c \in Clients : trigLinks(c) \/ callShutdown(c) \/ callWait(c) \/ ClientStep(c)

\* Every goroutine that can run is eventually run, and a processor returns;
\* whether a client makes a call is not assumed.
Spec ==
    /\ Init /\ [][Next]_vars
    /\ \A p \in Maintainers : WF_vars(MaintainerStep(p))
    /\ \A p \in NeuronWorkers : WF_vars(WorkerStep(p))
    /\ \A c \in Clients : WF_vars(ClientStep(c))

-----------------------------------------------------------------------------
(* Properties.                                                              *)

\* The types, with: a goroutine ranges over a queue that was made, and the two
\* queues are made and closed in step except inside a start or a Shutdown.
TypeOK ==
    /\ state \in {"Shutdown", "Sleeping", "Running"}
    /\ link \in {"Init", "Ready"} /\ neuron \in {"Inactive", "Active"}
    /\ nQueue \in 0..MaxStarts /\ bQueue \in 0..MaxStarts
    /\ nBuf \in [Starts -> 0..NQueueLen]
    /\ bBuf \in [Starts -> Seq(Events)] /\ \A g \in Starts : Len(bBuf[g]) <= BQueueLen
    /\ nClosed \subseteq Starts /\ bClosed \subseteq Starts
    /\ DOMAIN pc = Goroutines
    /\ \A p \in Maintainers : pc[p] \in {"none", "spawned", "range", "try_activate_neuron",
          "enqueue", "sendNeuron", "brain_sleep", "refresh", "publish", "send", "done"}
    /\ \A p \in NeuronWorkers : pc[p] \in {"none", "spawned", "range", "activate", "process",
          "publish", "send", "done"}
    /\ \A c \in Clients : pc[c] \in StopPcs \cup {"idle", "waiting", "ensure", "start", "makeN",
          "makeB", "started", "trig", "refresh", "publish", "send"}
    /\ event \in [Goroutines -> Events \cup {"none"}]
    /\ chan \in [Maintainers \cup NeuronWorkers -> 0..MaxStarts]
    /\ \A p \in Maintainers \cup NeuronWorkers :
          pc[p] \notin {"none", "spawned"} => chan[p] # 0
    /\ starting \subseteq Clients /\ panicked \in BOOLEAN
    /\ calls \in 0..MaxCalls /\ use \in {"quiet", "waited", "rough"}

Calm == \A c \in Clients : pc[c] \notin StopPcs /\ c \notin starting

\* A program whose first triggers do not overlap and that calls Shutdown when
\* the brain has drained is never ended by a send on a closed queue or by a
\* second close, however often the brain is started and stopped.
QuietNoPanic == use = "quiet" => ~panicked

\* Under the same use the state tells the truth about the queues: it is
\* Shutdown exactly while b.bQueue and b.nQueue are nil or closed. No
\* refreshState or ForceSleep overwrites it afterwards (ensureMaintainerStart
\* would then not start the brain, and the next trigger would panic).
StateTellsQueues ==
    use = "quiet" /\ Calm =>
        /\ state = "Shutdown" <=> bQueue \in bClosed \cup {0}
        /\ state = "Shutdown" <=> nQueue \in nClosed \cup {0}

\* There is one maintainer: two never range over the same queue, and only the
\* one of b.bQueue is at work (handlers rely on being alone).
OneMaintainer ==
    use = "quiet" => \A p, q \in Maintainers :
        pc[p] \notin {"none", "done"} /\ pc[q] \notin {"none", "done"}
          => p = q \/ (chan[p] # chan[q] /\ "range" \in {pc[p], pc[q]})

\* A Shutdown of a drained, sleeping brain leaves nothing behind that changes
\* the next start: no Ready link (trigLink would send nothing) and no event.
RestartsClean ==
    use = "quiet" /\ state = "Shutdown" /\ Calm =>
        link = "Init" /\ neuron = "Inactive" /\ Drained

\* "Use Brain.Shutdown() to release all resource of the current Brain"
\* (README.md:369): whatever the program does, the goroutines that serve a queue
\* that was closed come to their end (unless the program crashes).
ReleasesGoroutines ==
    \A g \in Starts : g \in bClosed \cap nClosed ~>
        panicked \/ \A p \in Maintainers \cup NeuronWorkers : chan[p] = g => pc[p] = "done"

-----------------------------------------------------------------------------

\* "A `Wait` method is provided to wait for the Brain to complete execution"
\* (DESIGN.md:83): a Shutdown that follows Wait, with no other call under way,
\* does not crash the program. Refuted by the run shutdown_after_wait.
WaitedNoPanic == use # "rough" => ~panicked

=============================================================================
