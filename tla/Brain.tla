-------------------------------- MODULE Brain --------------------------------
(***************************************************************************)
(* What a brain promises (README: Neuron, TriggerGroup, CastGroup, Brain   *)
(* States), without goroutines, queues and events: a neuron is activated   *)
(* for a trigger group whose links were all seen ready, each activation    *)
(* becomes one run that takes the neuron's in-links, each successful run   *)
(* owes one cast, only a cast that is owed or a call of the program makes  *)
(* a link ready, and the brain goes to sleep only on a request of somebody *)
(* who has seen every link idle, or with END triggered.  To see is not to  *)
(* freeze: the links of a group, or of the brain, are seen at different    *)
(* moments, and there need be none at which all are as they were seen.     *)
(***************************************************************************)
EXTENDS Naturals

CONSTANTS
    Neurons, Links, EndNeuron,
    From,           \* the source of a link
    TriggerGroups,  \* per neuron, a set of link sets
    Triggered,      \* links the program may trigger
    Observers       \* who may ask for sleep

VARIABLES
    ready,    \* links that carry a trigger
    due,      \* per neuron, activations that have not begun to run
    runs,     \* per neuron, runs that have taken their in-links
    casts,    \* per neuron, casts that are owed
    sleeps,   \* requests to sleep that are not yet fulfilled
    running,  \* the brain says Running
    tested,   \* the neuron, if any, one of whose trigger groups is being tested
    missing,  \* links of that group that the test has still to see ready
    unseen    \* per observer, links it has still to see idle

seen == << tested, missing, unseen >>
vars == << ready, due, runs, casts, sleeps, running, seen >>

OutLinks(n) == {l \in Links : From[l] = n}

Init ==
    /\ ready = {} /\ sleeps = 0 /\ running = FALSE
    /\ due = [n \in Neurons |-> 0] /\ runs = [n \in Neurons |-> 0]
    /\ casts = [n \in Neurons |-> 0]
    /\ tested = {} /\ missing = {} /\ unseen = [o \in Observers |-> Links]

Trigger ==
    /\ \E l \in Triggered : ready' = ready \cup {l}
    /\ UNCHANGED << running, seen, sleeps, due, runs, casts >>

\* A running brain begins to test a trigger group, sees some of its links
\* ready, and gives up the test or has seen them all.
Test(n) ==
    /\ running
    /\ \E g \in TriggerGroups[n] \ {{}} : tested' = {n} /\ missing' = g
    /\ UNCHANGED << running, ready, unseen, sleeps, due, runs, casts >>

SeeReady ==
    /\ missing' \in SUBSET missing /\ missing \ missing' \subseteq ready
    /\ UNCHANGED << running, ready, tested, unseen, sleeps, due, runs, casts >>

EndTest == tested' = {} /\ missing' = {}

GiveUp ==
    /\ EndTest
    /\ UNCHANGED << running, ready, unseen, sleeps, due, runs, casts >>

Complete(n) == n \in tested /\ missing \subseteq ready

Activate(n) ==
    /\ n # EndNeuron /\ Complete(n) /\ EndTest
    /\ due' = [due EXCEPT ![n] = @ + 1]
    /\ UNCHANGED << running, ready, unseen, sleeps, runs, casts >>

Begin(n) ==
    /\ due[n] > 0
    /\ due' = [due EXCEPT ![n] = @ - 1] /\ runs' = [runs EXCEPT ![n] = @ + 1]
    /\ ready' = ready \ UNION TriggerGroups[n]
    /\ UNCHANGED << running, seen, sleeps, casts >>

\* A run or a cast takes back out-links of its neuron.
Withdraw(n) ==
    /\ runs[n] > 0 \/ casts[n] > 0
    /\ \E ls \in SUBSET OutLinks(n) : ready' = ready \ ls
    /\ UNCHANGED << running, seen, sleeps, due, runs, casts >>

Finish(n) ==
    /\ runs[n] > 0
    /\ runs' = [runs EXCEPT ![n] = @ - 1]
    /\ casts' \in {casts, [casts EXCEPT ![n] = @ + 1]}  \* it failed, or not
    /\ UNCHANGED << running, ready, seen, sleeps, due >>

Continue(n) ==
    /\ runs[n] > 0
    /\ casts' = [casts EXCEPT ![n] = @ + 1]
    /\ UNCHANGED << running, ready, seen, sleeps, due, runs >>

CastLink(n) ==
    /\ casts[n] > 0
    /\ \E l \in OutLinks(n) : ready' = ready \cup {l}
    /\ UNCHANGED << running, seen, sleeps, due, runs, casts >>

\* A cast that meets a link which is still ready is owed once more.
CastAgain(n) ==
    /\ casts[n] > 0 /\ OutLinks(n) \cap ready # {}
    /\ casts' = [casts EXCEPT ![n] = @ + 1]
    /\ UNCHANGED << running, ready, seen, sleeps, due, runs >>

EndCast(n) ==
    /\ casts[n] > 0
    /\ casts' = [casts EXCEPT ![n] = @ - 1]
    /\ \E ls \in SUBSET OutLinks(n) : ready' = ready \ ls
    /\ UNCHANGED << running, seen, sleeps, due, runs >>

\* An observer sees some links idle, and starts over or has seen them all.
SeeIdle(o) ==
    /\ \E ls \in SUBSET (Links \ ready) : unseen' = [unseen EXCEPT ![o] = @ \ ls]
    /\ UNCHANGED << running, ready, tested, missing, sleeps, due, runs, casts >>

StartOver(o) == unseen' = [unseen EXCEPT ![o] = Links]

Desist(o) ==
    /\ StartOver(o)
    /\ UNCHANGED << running, ready, tested, missing, sleeps, due, runs, casts >>

AskSleep(o) ==
    /\ unseen[o] \cap ready = {} /\ StartOver(o)
    /\ sleeps' = sleeps + 1
    /\ UNCHANGED << running, ready, tested, missing, due, runs, casts >>

ReachEnd ==
    /\ Complete(EndNeuron) /\ EndTest
    /\ sleeps' = sleeps + 1
    /\ UNCHANGED << running, ready, unseen, due, runs, casts >>

ResetLinks ==
    /\ sleeps > 0
    /\ ready' = {}
    /\ UNCHANGED << running, seen, sleeps, due, runs, casts >>

Sleep ==
    /\ sleeps > 0 /\ sleeps' = sleeps - 1
    /\ running' = FALSE
    /\ UNCHANGED << ready, seen, due, runs, casts >>

Wake ==
    /\ running' = TRUE
    /\ UNCHANGED << ready, seen, sleeps, due, runs, casts >>

Next ==
    \/ SeeReady \/ GiveUp \/ Trigger \/ ReachEnd \/ ResetLinks \/ Sleep \/ Wake
    \/ \E o \in Observers : SeeIdle(o) \/ Desist(o) \/ AskSleep(o)
    \/ \E n \in Neurons :
          \/ Test(n) \/ Activate(n) \/ Begin(n) \/ Withdraw(n) \/ Finish(n) \/ Continue(n)
          \/ CastLink(n) \/ CastAgain(n) \/ EndCast(n)

Spec == Init /\ [][Next]_vars

=============================================================================
