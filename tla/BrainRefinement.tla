-------------------------- MODULE BrainRefinement --------------------------
(***************************************************************************)
(* BrainLocal implements Brain (ImplementsBrain), for every topology,      *)
(* number of workers and clients, and length of the queues: activations,   *)
(* casts and requests to sleep are counted through the queues and the      *)
(* goroutines that hold them.                                              *)
(***************************************************************************)
EXTENDS BrainLocalProofs, FiniteSetTheorems

-----------------------------------------------------------------------------
(* Counting elements of a queue and members of a finite set.                *)

\* The positions of a queue are finite.
LEMMA PositionsFinite ==
    ASSUME NEW T, NEW q \in Seq(T), NEW S
    PROVE  IsFiniteSet(Positions(q, S)) /\ Cardinality(Positions(q, S)) \in Nat
<1>1. Positions(q, S) \subseteq 1..Len(q) /\ IsFiniteSet(1..Len(q))
  BY FS_Interval DEF Positions
<1> QED BY <1>1, FS_Subset, FS_CardinalityType

\* A send adds one to the elements of a kind, or none.
LEMMA CountAppend ==
    ASSUME NEW T, NEW q \in Seq(T), NEW e \in T, NEW S
    PROVE  Cardinality(Positions(Append(q, e), S)) = Cardinality(Positions(q, S)) + Count(e \in S)
<1> DEFINE r == Append(q, e)
<1>1. /\ r \in Seq(T) /\ Len(r) = Len(q) + 1 /\ DOMAIN r = 1..(Len(q) + 1) /\ DOMAIN q = 1..Len(q)
      /\ r[Len(q) + 1] = e /\ \A i \in 1..Len(q) : r[i] = q[i]
  OBVIOUS
<1>2. Len(q) \in Nat
  OBVIOUS
<1>3. Len(q) + 1 \notin Positions(q, S)
  BY <1>1, <1>2 DEF Positions
<1> HIDE DEF r
<1>4. CASE e \in S
  <2>1. Positions(r, S) = Positions(q, S) \cup {Len(q) + 1}
    BY <1>1, <1>2, <1>4 DEF Positions
  <2> QED BY <1>3, <1>4, <2>1, PositionsFinite, FS_AddElement DEF r, Count
<1>5. CASE e \notin S
  <2>1. Positions(r, S) = Positions(q, S)
    BY <1>1, <1>2, <1>5 DEF Positions
  <2> QED BY <1>5, <2>1, PositionsFinite DEF r, Count
<1> QED BY <1>4, <1>5

\* A receive takes one of them away, or none.
LEMMA CountTail ==
    ASSUME NEW T, NEW q \in Seq(T), q # << >>, NEW S
    PROVE  Cardinality(Positions(q, S)) = Cardinality(Positions(Tail(q), S)) + Count(Head(q) \in S)
<1> DEFINE r == Tail(q)
           A == Positions(q, S) \ {1}
           f == [i \in Positions(r, S) |-> i + 1]
<1>1. /\ r \in Seq(T) /\ Len(r) = Len(q) - 1 /\ DOMAIN r = 1..(Len(q) - 1) /\ DOMAIN q = 1..Len(q)
      /\ Head(q) = q[1] /\ \A i \in 1..(Len(q) - 1) : r[i] = q[i + 1]
  OBVIOUS
<1>2. Len(q) \in Nat \ {0}
  OBVIOUS
<1> HIDE DEF r
<1>3. f \in Bijection(Positions(r, S), A)
  <2>1. \A i \in Positions(r, S) : f[i] \in A
    BY <1>1, <1>2 DEF Positions
  <2>2. \A i, j \in Positions(r, S) : f[i] = f[j] => i = j
    BY <1>1, <1>2 DEF Positions
  <2>3. \A j \in A : j - 1 \in Positions(r, S) /\ f[j - 1] = j
    BY <1>1, <1>2 DEF Positions
  <2> QED BY <2>1, <2>2, <2>3 DEF Bijection, Injection, IsInjective, Surjection
<1>4. IsFiniteSet(Positions(r, S)) /\ IsFiniteSet(Positions(q, S))
  BY <1>1, PositionsFinite
<1>5. Cardinality(A) = Cardinality(Positions(r, S))
  BY <1>3, <1>4, FS_Bijection DEF ExistsBijection
<1>6. 1 \in Positions(q, S) <=> Head(q) \in S
  BY <1>1, <1>2 DEF Positions
<1>7. Cardinality(Positions(q, S)) \in Nat
  BY PositionsFinite
<1> HIDE DEF A
<1>8. Cardinality(A) = IF 1 \in Positions(q, S) THEN Cardinality(Positions(q, S)) - 1
                       ELSE Cardinality(Positions(q, S))
  BY <1>4, FS_RemoveElement DEF A
<1> QED BY <1>5, <1>6, <1>7, <1>8 DEF r, Count

\* Two sets that differ at most in one member.
LEMMA CountMember ==
    ASSUME NEW S, NEW T, NEW x, IsFiniteSet(S), IsFiniteSet(T), S \ {x} = T \ {x}
    PROVE  /\ Cardinality(S) \in Nat /\ Cardinality(T) \in Nat
           /\ Cardinality(S) + Count(x \in T) = Cardinality(T) + Count(x \in S)
<1>1. Cardinality(S) \in Nat /\ Cardinality(T) \in Nat
  BY FS_CardinalityType
<1>2. Cardinality(S \ {x}) = IF x \in S THEN Cardinality(S) - 1 ELSE Cardinality(S)
  BY FS_RemoveElement
<1>3. Cardinality(T \ {x}) = IF x \in T THEN Cardinality(T) - 1 ELSE Cardinality(T)
  BY FS_RemoveElement
<1> QED BY <1>1, <1>2, <1>3 DEF Count
-----------------------------------------------------------------------------
(* Where an activation, a cast or a request to sleep can be.                *)

QueuedDue(n) == Cardinality(Positions(nQueue, {n}))
QueuedCasts(n) == Cardinality(Positions(bQueue, {TryCast(n), CastAnyway(n)}))
QueuedSleeps == Cardinality(Positions(bQueue, {BrainSleep}))
HeldDue(n) == Count(mPc = "enqueue" /\ mEvent.id = n)
HeldCast(n) == Count(mEvent \in {TryCast(n), CastAnyway(n)})
HeldSleep == Count(mEvent = BrainSleep \/ mPc \in {"end", "sleep"})
Beginning(n) == CountWorkers(n, {"activate", "inLinks"})
Running(n) == CountWorkers(n, {"outLinks", "process"})
Casting(n) == CountWorkers(n, {"cast"})
Asking == Cardinality({c \in Clients : cPc[c] = "sleep"})

\* The counts of the refinement mapping are the sums of these parts.
LEMMA Parts ==
    /\ \A n : DueOf(n) = QueuedDue(n) + HeldDue(n) + Beginning(n)
    /\ \A n : CastsOf(n) = QueuedCasts(n) + HeldCast(n) + Casting(n) + retries[n]
    /\ SleepsAsked = QueuedSleeps + HeldSleep + Asking
BY DEF DueOf, CastsOf, SleepsAsked, QueuedDue, QueuedCasts, QueuedSleeps, HeldDue, HeldCast,
       HeldSleep, Beginning, Casting, Asking

\* The same after a step.
LEMMA PartsNext ==
    /\ \A n : DueOf(n)' = QueuedDue(n)' + HeldDue(n)' + Beginning(n)'
    /\ \A n : CastsOf(n)' = QueuedCasts(n)' + HeldCast(n)' + Casting(n)' + retries'[n]
    /\ SleepsAsked' = QueuedSleeps' + HeldSleep' + Asking'
BY DEF DueOf, CastsOf, SleepsAsked, QueuedDue, QueuedCasts, QueuedSleeps, HeldDue, HeldCast,
       HeldSleep, Beginning, Casting, Asking

WorkersAt(n, pcs) == {w \in Workers : wNeuron[w] = n /\ wPc[w] \in pcs}

PartsOK ==
    /\ \A n : /\ QueuedDue(n) \in Nat /\ QueuedCasts(n) \in Nat
              /\ HeldDue(n) \in {0, 1} /\ HeldCast(n) \in {0, 1}
              /\ Beginning(n) \in Nat /\ Running(n) \in Nat /\ Casting(n) \in Nat
    /\ \A n \in Neurons : retries[n] \in Nat
    /\ QueuedSleeps \in Nat /\ HeldSleep \in {0, 1} /\ Asking \in Nat

\* The parts are numbers: the queues, the workers and the clients are finite.
LEMMA PartTypes == TypeOK => PartsOK
<1> SUFFICES ASSUME TypeOK PROVE PartsOK
  OBVIOUS
<1>1. \A n : QueuedDue(n) \in Nat /\ QueuedCasts(n) \in Nat
  BY PositionsFinite DEF QueuedDue, QueuedCasts, TypeOK, QueuesOK
<1>2. QueuedSleeps \in Nat
  BY PositionsFinite DEF QueuedSleeps, TypeOK, QueuesOK
<1>3. \A n, pcs : CountWorkers(n, pcs) \in Nat
  <2> SUFFICES ASSUME NEW n, NEW pcs PROVE Cardinality(WorkersAt(n, pcs)) \in Nat
    BY DEF CountWorkers, WorkersAt
  <2>1. WorkersAt(n, pcs) \subseteq Workers
    BY DEF WorkersAt
  <2> QED BY <2>1, GoroutinesAssumption, FS_Subset, FS_CardinalityType
<1>4. Asking \in Nat
  <2>1. {c \in Clients : cPc[c] = "sleep"} \subseteq Clients
    OBVIOUS
  <2> QED BY <2>1, GoroutinesAssumption, FS_Subset, FS_CardinalityType DEF Asking
<1>5. \A n \in Neurons : retries[n] \in Nat
  BY BoundsAssumption DEF TypeOK, CountsOK
<1>6. HeldSleep \in {0, 1} /\ \A n : HeldDue(n) \in {0, 1} /\ HeldCast(n) \in {0, 1}
  BY DEF HeldSleep, HeldDue, HeldCast, Count
<1> QED BY <1>1, <1>2, <1>3, <1>4, <1>5, <1>6 DEF PartsOK, Beginning, Running, Casting

\* The same after a step.
LEMMA PartTypesNext == TypeOK' => PartsOK'
BY PartTypes, PTL

\* What a send of an event does to the counts, and what a receive does.
LEMMA SendCounts ==
    ASSUME QueuesOK, NEW e \in Events, publishEvent(e)
    PROVE  /\ \A n : QueuedCasts(n)' = QueuedCasts(n) + Count(e \in {TryCast(n), CastAnyway(n)})
           /\ QueuedSleeps' = QueuedSleeps + Count(e = BrainSleep)
<1>1. bQueue' = Append(bQueue, e) /\ bQueue \in Seq(Events)
  BY DEF QueuesOK, publishEvent
<1>2. ASSUME NEW n
      PROVE  QueuedCasts(n)' = QueuedCasts(n) + Count(e \in {TryCast(n), CastAnyway(n)})
  <2> DEFINE S == {TryCast(n), CastAnyway(n)}
  <2> HIDE DEF S
  <2>1. Cardinality(Positions(bQueue', S)) = Cardinality(Positions(bQueue, S)) + Count(e \in S)
    BY <1>1, CountAppend
  <2> QED BY <2>1 DEF S, QueuedCasts
<1>3. QueuedSleeps' = QueuedSleeps + Count(e = BrainSleep)
  <2>1. Cardinality(Positions(bQueue', {BrainSleep}))
          = Cardinality(Positions(bQueue, {BrainSleep})) + Count(e \in {BrainSleep})
    BY <1>1, CountAppend
  <2> QED BY <2>1 DEF QueuedSleeps, Count
<1> QED BY <1>2, <1>3

\* A receive takes away what the event at the head counts.
LEMMA ReceiveCounts ==
    ASSUME QueuesOK, bQueue # << >>, bQueue' = Tail(bQueue)
    PROVE  /\ \A n : QueuedCasts(n) = QueuedCasts(n)'
                                        + Count(Head(bQueue) \in {TryCast(n), CastAnyway(n)})
           /\ QueuedSleeps = QueuedSleeps' + Count(Head(bQueue) = BrainSleep)
<1>1. bQueue \in Seq(Events)
  BY DEF QueuesOK
<1>2. ASSUME NEW n
      PROVE  QueuedCasts(n) = QueuedCasts(n)'
                                + Count(Head(bQueue) \in {TryCast(n), CastAnyway(n)})
  <2> DEFINE S == {TryCast(n), CastAnyway(n)}
  <2> HIDE DEF S
  <2>1. Cardinality(Positions(bQueue, S))
          = Cardinality(Positions(bQueue', S)) + Count(Head(bQueue) \in S)
    BY <1>1, CountTail
  <2> QED BY <2>1 DEF S, QueuedCasts
<1>3. QueuedSleeps = QueuedSleeps' + Count(Head(bQueue) = BrainSleep)
  <2>1. Cardinality(Positions(bQueue, {BrainSleep}))
          = Cardinality(Positions(bQueue', {BrainSleep})) + Count(Head(bQueue) \in {BrainSleep})
    BY <1>1, CountTail
  <2> QED BY <2>1 DEF QueuedSleeps, Count
<1> QED BY <1>2, <1>3

\* The same for the queue of neurons.
LEMMA NeuronQueueCounts ==
    ASSUME QueuesOK
    PROVE  /\ \A m \in Neurons \ {EndNeuron} : publishEventActivateNeuron(m) =>
                \A n : QueuedDue(n)' = QueuedDue(n) + Count(m = n)
           /\ nQueue # << >> /\ nQueue' = Tail(nQueue) =>
                \A n : QueuedDue(n) = QueuedDue(n)' + Count(Head(nQueue) = n)
<1>1. nQueue \in Seq(Neurons \ {EndNeuron})
  BY DEF QueuesOK
<1>2. ASSUME NEW m \in Neurons \ {EndNeuron}, publishEventActivateNeuron(m), NEW n
      PROVE  QueuedDue(n)' = QueuedDue(n) + Count(m = n)
  <2>1. nQueue' = Append(nQueue, m)
    BY <1>2 DEF publishEventActivateNeuron
  <2>2. Cardinality(Positions(nQueue', {n})) = Cardinality(Positions(nQueue, {n})) + Count(m \in {n})
    BY <1>1, <2>1, CountAppend
  <2> QED BY <2>2 DEF QueuedDue, Count
<1>3. ASSUME nQueue # << >>, nQueue' = Tail(nQueue), NEW n
      PROVE  QueuedDue(n) = QueuedDue(n)' + Count(Head(nQueue) = n)
  <2>1. Cardinality(Positions(nQueue, {n}))
          = Cardinality(Positions(nQueue', {n})) + Count(Head(nQueue) \in {n})
    BY <1>1, <1>3, CountTail
  <2> QED BY <2>1 DEF QueuedDue, Count
<1> QED BY <1>2, <1>3

\* One worker moves, or one client.
LEMMA WorkerCounts ==
    ASSUME NEW w \in Workers,
           \A v \in Workers \ {w} : wPc'[v] = wPc[v] /\ wNeuron'[v] = wNeuron[v], NEW n, NEW pcs
    PROVE  CountWorkers(n, pcs) + Count(wNeuron'[w] = n /\ wPc'[w] \in pcs)
             = CountWorkers(n, pcs)' + Count(wNeuron[w] = n /\ wPc[w] \in pcs)
<1> DEFINE S == {v \in Workers : wNeuron[v] = n /\ wPc[v] \in pcs}
           T == {v \in Workers : wNeuron'[v] = n /\ wPc'[v] \in pcs}
<1>1. IsFiniteSet(S) /\ IsFiniteSet(T)
  <2>1. S \subseteq Workers /\ T \subseteq Workers
    OBVIOUS
  <2> QED BY <2>1, GoroutinesAssumption, FS_Subset
<1>2. S \ {w} = T \ {w}
  OBVIOUS
<1>3. /\ w \in S <=> wNeuron[w] = n /\ wPc[w] \in pcs
      /\ w \in T <=> wNeuron'[w] = n /\ wPc'[w] \in pcs
  OBVIOUS
<1>4. CountWorkers(n, pcs) = Cardinality(S) /\ CountWorkers(n, pcs)' = Cardinality(T)
  BY DEF CountWorkers
<1> HIDE DEF S, T
<1>5. Cardinality(S) + Count(w \in T) = Cardinality(T) + Count(w \in S)
  BY <1>1, <1>2, CountMember
<1> QED BY <1>3, <1>4, <1>5 DEF Count

\* A client that comes to ask for sleep, or goes, changes the count by one.
LEMMA AskingCounts ==
    ASSUME NEW c \in Clients, \A d \in Clients \ {c} : cPc'[d] = cPc[d]
    PROVE  /\ cPc[c] # "sleep" /\ cPc'[c] = "sleep" => Asking' = Asking + 1
           /\ cPc[c] = "sleep" /\ cPc'[c] # "sleep" => Asking = Asking' + 1
<1> DEFINE S == {d \in Clients : cPc[d] = "sleep"}
           T == {d \in Clients : cPc'[d] = "sleep"}
<1>1. IsFiniteSet(S) /\ IsFiniteSet(T)
  <2>1. S \subseteq Clients /\ T \subseteq Clients
    OBVIOUS
  <2> QED BY <2>1, GoroutinesAssumption, FS_Subset
<1>2. Asking = Cardinality(S) /\ Asking' = Cardinality(T)
  BY DEF Asking
<1>3. ASSUME cPc[c] # "sleep", cPc'[c] = "sleep" PROVE Asking' = Asking + 1
  <2>1. T = S \cup {c} /\ c \notin S
    BY <1>3
  <2> HIDE DEF S, T
  <2> QED BY <1>1, <1>2, <2>1, FS_AddElement
<1>4. ASSUME cPc[c] = "sleep", cPc'[c] # "sleep" PROVE Asking = Asking' + 1
  <2>1. S = T \cup {c} /\ c \notin T
    BY <1>4
  <2> HIDE DEF S, T
  <2> QED BY <1>1, <1>2, <2>1, FS_AddElement
<1> QED BY <1>3, <1>4

\* A client that neither comes to ask for sleep nor goes leaves the count.
LEMMA AskingSame ==
    ASSUME NEW c \in Clients, \A d \in Clients \ {c} : cPc'[d] = cPc[d],
           cPc[c] # "sleep", cPc'[c] # "sleep"
    PROVE  Asking' = Asking
<1>1. {d \in Clients : cPc[d] = "sleep"} = {d \in Clients : cPc'[d] = "sleep"}
  OBVIOUS
<1> QED BY <1>1 DEF Asking
-----------------------------------------------------------------------------
(* The steps of Brain, in terms of the counts.                              *)

ReadyKept == ReadyLinks' = ReadyLinks
DueKept == \A n \in Neurons : DueOf(n)' = DueOf(n)
RunsKept == \A n \in Neurons : Running(n)' = Running(n)
CastsKept == \A n \in Neurons : CastsOf(n)' = CastsOf(n)
SleepsKept == SleepsAsked' = SleepsAsked
StateKept == state' = state
CountsKept == DueKept /\ RunsKept /\ CastsKept

\* One neuron's count goes up or down by one.
Up(n, before, after) == after = [before EXCEPT ![n] = @ + 1]
Down(n, before, after) == after = [before EXCEPT ![n] = @ - 1]

due == [n \in Neurons |-> DueOf(n)]
runs == [n \in Neurons |-> Running(n)]
casts == [n \in Neurons |-> CastsOf(n)]

\* What the test of a trigger group and the counts of links have seen.
tested == IF mPc = "group" THEN {mEvent.id} ELSE {}
missing == IF mPc = "group" THEN mLeft ELSE {}
unseen ==
    [o \in Clients \cup {"maintainer"} |->
        IF o \in Clients THEN IF cPc[o] = "countLinks" THEN cLeft[o] ELSE Links
        ELSE IF mPc = "countLinks" THEN mLeft ELSE Links]

TestKept == tested' = tested /\ missing' = missing
UnseenKept == unseen' = unseen
SeenKept == TestKept /\ UnseenKept

\* Counts that stay are variables of Brain that stay.
LEMMA KeptVariables ==
    /\ DueKept => due' = due
    /\ RunsKept => runs' = runs
    /\ CastsKept => casts' = casts
BY DEF DueKept, RunsKept, CastsKept, due, runs, casts

\* Nothing Brain sees has changed.
LEMMA MapStutter ==
    ASSUME ReadyKept, CountsKept, SleepsKept, StateKept, SeenKept
    PROVE  UNCHANGED Promise!vars
BY KeptVariables DEF
       Promise!vars, Promise!seen, CountsKept, ReadyKept, SleepsKept, StateKept, SeenKept,
       TestKept, UnseenKept, ReadyLinks, due, runs, casts, tested, missing, unseen, Running

\* A link of a call has become Ready.
LEMMA MapTrigger ==
    ASSUME NEW l \in UNION Calls, ReadyLinks' = ReadyLinks \cup {l}, CountsKept, SleepsKept,
           StateKept, SeenKept
    PROVE  Promise!Next
<1>1. Promise!Trigger
  BY KeptVariables DEF
         Promise!Trigger, Promise!seen, CountsKept, ReadyKept, SleepsKept, StateKept,
         SeenKept, TestKept, UnseenKept, ReadyLinks, due, runs, casts, tested, missing,
         unseen, Running
<1> QED BY <1>1 DEF Promise!Next

\* A running brain begins to test a trigger group,
LEMMA MapTest ==
    ASSUME NEW n \in Neurons, state = "Running", NEW g \in TriggerGroups[n] \ {{}}, tested' = {n},
           missing' = g, UnseenKept, ReadyKept, CountsKept, SleepsKept, StateKept
    PROVE  Promise!Next
<1>1. Promise!Test(n)
  BY KeptVariables DEF
         Promise!Test, Promise!seen, CountsKept, ReadyKept, SleepsKept, StateKept,
         SeenKept, TestKept, UnseenKept, ReadyLinks, due, runs, casts, tested, missing,
         unseen, Running
<1> QED BY <1>1 DEF Promise!Next

\* has seen some of its links ready,
LEMMA MapSeeReady ==
    ASSUME NEW ls \in SUBSET ReadyLinks, tested' = tested, missing' = missing \ ls, UnseenKept,
           ReadyKept, CountsKept, SleepsKept, StateKept
    PROVE  Promise!Next
<1>1. Promise!SeeReady
  BY KeptVariables DEF
         Promise!SeeReady, Promise!seen, CountsKept, ReadyKept, SleepsKept, StateKept,
         SeenKept, TestKept, UnseenKept, ReadyLinks, due, runs, casts, tested, missing,
         unseen, Running
<1> QED BY <1>1 DEF Promise!Next

\* or gives up the test.
LEMMA MapGiveUp ==
    ASSUME tested' = {}, missing' = {}, UnseenKept, ReadyKept, CountsKept, SleepsKept, StateKept
    PROVE  Promise!Next
<1>1. Promise!GiveUp
  BY KeptVariables DEF
         Promise!GiveUp, Promise!EndTest, Promise!seen, CountsKept, ReadyKept,
         SleepsKept, StateKept, SeenKept, TestKept, UnseenKept, ReadyLinks, due, runs,
         casts, tested, missing, unseen, Running
<1> QED BY <1>1 DEF Promise!Next

\* One activation more, of a neuron whose trigger group has been seen ready.
LEMMA MapActivate ==
    ASSUME NEW n \in Neurons, n # EndNeuron, n \in tested, missing \subseteq ReadyLinks, Up(n, due,
           due'), tested' = {}, missing' = {}, UnseenKept, ReadyKept, RunsKept, CastsKept, SleepsKept,
           StateKept
    PROVE  Promise!Next
<1>1. Promise!Activate(n)
  BY KeptVariables DEF
         Promise!Activate, Promise!Complete, Promise!EndTest, Up, Promise!seen,
         CountsKept, ReadyKept, SleepsKept, StateKept, SeenKept, TestKept, UnseenKept,
         ReadyLinks, due, runs, casts, tested, missing, unseen, Running
<1> QED BY <1>1 DEF Promise!Next

\* An activation has become a run and the in-links are taken.
LEMMA MapBegin ==
    ASSUME NEW n \in Neurons, DueOf(n) > 0, Down(n, due, due'), Up(n, runs, runs'), ReadyLinks' =
           ReadyLinks \ InLinks(n), CastsKept, SleepsKept, StateKept, SeenKept
    PROVE  Promise!Next
<1>1. Promise!Begin(n)
  BY KeptVariables DEF
         Promise!Begin, Up, Down, InLinks, Promise!seen, CountsKept, ReadyKept,
         SleepsKept, StateKept, SeenKept, TestKept, UnseenKept, ReadyLinks, due, runs,
         casts, tested, missing, unseen, Running
<1> QED BY <1>1 DEF Promise!Next

\* Out-links of a neuron that runs or owes a cast are no longer Ready.
LEMMA MapWithdraw ==
    ASSUME NEW n \in Neurons, Running(n) > 0 \/ CastsOf(n) > 0, NEW ls \in SUBSET {l \in Links :
           From[l] = n}, ReadyLinks' = ReadyLinks \ ls, CountsKept, SleepsKept, StateKept, SeenKept
    PROVE  Promise!Next
<1>1. Promise!Withdraw(n)
  BY KeptVariables DEF
         Promise!Withdraw, Promise!OutLinks, Promise!seen, CountsKept, ReadyKept,
         SleepsKept, StateKept, SeenKept, TestKept, UnseenKept, ReadyLinks, due, runs,
         casts, tested, missing, unseen, Running
<1> QED BY <1>1 DEF Promise!Next

\* A run is over, and may owe a cast.
LEMMA MapFinish ==
    ASSUME NEW n \in Neurons, Running(n) > 0, Down(n, runs, runs'),
           CastsKept \/ Up(n, casts, casts'), ReadyKept, DueKept, SleepsKept, StateKept, SeenKept
    PROVE  Promise!Next
<1>1. casts' \in {casts, [casts EXCEPT ![n] = @ + 1]}
  BY KeptVariables DEF Up
<1>2. Promise!Finish(n)
  BY <1>1, KeptVariables DEF
         Promise!Finish, Down, Promise!seen, ReadyKept, SleepsKept, StateKept, SeenKept, TestKept,
         UnseenKept, ReadyLinks, due, runs, casts, tested, missing, unseen, Running
<1> QED BY <1>2 DEF Promise!Next

\* A running neuron owes one cast more.
LEMMA MapContinue ==
    ASSUME NEW n \in Neurons, Running(n) > 0, Up(n, casts, casts'), ReadyKept, DueKept, RunsKept,
           SleepsKept, StateKept, SeenKept
    PROVE  Promise!Next
<1>1. Promise!Continue(n)
  BY KeptVariables DEF
         Promise!Continue, Up, Promise!seen, CountsKept, ReadyKept, SleepsKept,
         StateKept, SeenKept, TestKept, UnseenKept, ReadyLinks, due, runs, casts,
         tested, missing, unseen, Running
<1> QED BY <1>1 DEF Promise!Next

\* An out-link of a neuron that owes a cast has become Ready.
LEMMA MapCastLink ==
    ASSUME NEW n \in Neurons, CastsOf(n) > 0, NEW l \in Links, From[l] = n, ReadyLinks' = ReadyLinks
           \cup {l}, CountsKept, SleepsKept, StateKept, SeenKept
    PROVE  Promise!Next
<1>1. Promise!CastLink(n)
  BY KeptVariables DEF
         Promise!CastLink, Promise!OutLinks, Promise!seen, CountsKept, ReadyKept,
         SleepsKept, StateKept, SeenKept, TestKept, UnseenKept, ReadyLinks, due, runs,
         casts, tested, missing, unseen, Running
<1> QED BY <1>1 DEF Promise!Next

\* A cast that met a Ready link is owed once more.
LEMMA MapCastAgain ==
    ASSUME NEW n \in Neurons, CastsOf(n) > 0, NEW l \in ReadyLinks, From[l] = n, Up(n, casts, casts'),
           ReadyKept, DueKept, RunsKept, SleepsKept, StateKept, SeenKept
    PROVE  Promise!Next
<1>1. Promise!CastAgain(n)
  BY KeptVariables DEF
         Promise!CastAgain, Promise!OutLinks, Up, Promise!seen, CountsKept, ReadyKept,
         SleepsKept, StateKept, SeenKept, TestKept, UnseenKept, ReadyLinks, due, runs,
         casts, tested, missing, unseen, Running
<1> QED BY <1>1 DEF Promise!Next

\* A cast is over; it may have taken back out-links.
LEMMA MapEndCast ==
    ASSUME NEW n \in Neurons, CastsOf(n) > 0, NEW ls \in SUBSET {l \in Links : From[l] = n},
           ReadyLinks' = ReadyLinks \ ls, Down(n, casts, casts'), DueKept, RunsKept, SleepsKept,
           StateKept, SeenKept
    PROVE  Promise!Next
<1>1. Promise!EndCast(n)
  BY KeptVariables DEF
         Promise!EndCast, Promise!OutLinks, Down, Promise!seen, CountsKept, ReadyKept,
         SleepsKept, StateKept, SeenKept, TestKept, UnseenKept, ReadyLinks, due, runs,
         casts, tested, missing, unseen, Running
<1> QED BY <1>1 DEF Promise!Next

\* Somebody who counts links has seen some of them idle,
LEMMA MapSeeIdle ==
    ASSUME NEW o \in Clients \cup {"maintainer"}, NEW ls \in SUBSET (Links \ ReadyLinks), unseen' =
           [unseen EXCEPT ![o] = @ \ ls], TestKept, ReadyKept, CountsKept, SleepsKept, StateKept
    PROVE  Promise!Next
<1>1. Promise!SeeIdle(o)
  BY KeptVariables DEF
         Promise!SeeIdle, Promise!seen, CountsKept, ReadyKept, SleepsKept, StateKept,
         SeenKept, TestKept, UnseenKept, ReadyLinks, due, runs, casts, tested, missing,
         unseen, Running
<1> QED BY <1>1 DEF Promise!Next

\* or gives up the count,
LEMMA MapDesist ==
    ASSUME NEW o \in Clients \cup {"maintainer"}, unseen' = [unseen EXCEPT ![o] = Links], TestKept,
           ReadyKept, CountsKept, SleepsKept, StateKept
    PROVE  Promise!Next
<1>1. Promise!Desist(o)
  BY KeptVariables DEF
         Promise!Desist, Promise!StartOver, Promise!seen, CountsKept, ReadyKept,
         SleepsKept, StateKept, SeenKept, TestKept, UnseenKept, ReadyLinks, due, runs,
         casts, tested, missing, unseen, Running
<1> QED BY <1>1 DEF Promise!Next

\* or has seen all of them idle and asks for sleep.
LEMMA MapAskSleep ==
    ASSUME NEW o \in Clients \cup {"maintainer"}, unseen[o] \cap ReadyLinks = {}, unseen' = [unseen
           EXCEPT ![o] = Links], TestKept, SleepsAsked' = SleepsAsked + 1, ReadyKept, CountsKept,
           StateKept
    PROVE  Promise!Next
<1>1. Promise!AskSleep(o)
  BY KeptVariables DEF
         Promise!AskSleep, Promise!StartOver, Promise!seen, CountsKept, ReadyKept,
         SleepsKept, StateKept, SeenKept, TestKept, UnseenKept, ReadyLinks, due, runs,
         casts, tested, missing, unseen, Running
<1> QED BY <1>1 DEF Promise!Next

\* One more request to sleep, for a trigger group of END seen ready.
LEMMA MapReachEnd ==
    ASSUME EndNeuron \in tested, missing \subseteq ReadyLinks, tested' = {}, missing' = {},
           UnseenKept, SleepsAsked' = SleepsAsked + 1, ReadyKept, CountsKept, StateKept
    PROVE  Promise!Next
<1>1. Promise!ReachEnd
  BY KeptVariables DEF
         Promise!ReachEnd, Promise!Complete, Promise!EndTest, Promise!seen, CountsKept,
         ReadyKept, SleepsKept, StateKept, SeenKept, TestKept, UnseenKept, ReadyLinks,
         due, runs, casts, tested, missing, unseen, Running
<1> QED BY <1>1 DEF Promise!Next

\* No link is Ready any more, and a request to sleep is being handled.
LEMMA MapResetLinks ==
    ASSUME SleepsAsked > 0, ReadyLinks' = {}, CountsKept, SleepsKept, StateKept, SeenKept
    PROVE  Promise!Next
<1>1. Promise!ResetLinks
  BY KeptVariables DEF
         Promise!ResetLinks, Promise!seen, CountsKept, ReadyKept, SleepsKept,
         StateKept, SeenKept, TestKept, UnseenKept, ReadyLinks, due, runs, casts,
         tested, missing, unseen, Running
<1> QED BY <1>1 DEF Promise!Next

\* A request to sleep is fulfilled.
LEMMA MapSleep ==
    ASSUME SleepsAsked > 0, SleepsAsked' = SleepsAsked - 1, state' = "Sleeping", ReadyKept,
           CountsKept, SeenKept
    PROVE  Promise!Next
<1>1. Promise!Sleep
  BY KeptVariables DEF
         Promise!Sleep, Promise!seen, CountsKept, ReadyKept, SleepsKept, StateKept,
         SeenKept, TestKept, UnseenKept, ReadyLinks, due, runs, casts, tested, missing,
         unseen, Running
<1> QED BY <1>1 DEF Promise!Next

\* The brain says Running.
LEMMA MapWake ==
    ASSUME state' = "Running", ReadyKept, CountsKept, SleepsKept, SeenKept
    PROVE  Promise!Next
<1>1. Promise!Wake
  BY KeptVariables DEF
         Promise!Wake, Promise!seen, CountsKept, ReadyKept, SleepsKept, StateKept,
         SeenKept, TestKept, UnseenKept, ReadyLinks, due, runs, casts, tested, missing,
         unseen, Running
<1> QED BY <1>1 DEF Promise!Next

\* Who sees what, when a step leaves it alone: the test of a group is the
\* maintainer's alone, and a count of links starts with all of them.
LEMMA SeenStays ==
    /\ UNCHANGED << mPc, mEvent, mLeft >> => TestKept
    /\ mPc # "group" /\ mPc' # "group" => TestKept
    /\ UNCHANGED << mPc, mLeft, cPc, cLeft >> => UnseenKept
    /\ UNCHANGED << cPc, cLeft >> /\ mPc # "countLinks" /\ (mPc' = "countLinks" => mLeft' = Links)
         => UnseenKept
<1>1. /\ UNCHANGED << mPc, mEvent, mLeft >> => TestKept
      /\ mPc # "group" /\ mPc' # "group" => TestKept
  BY DEF TestKept, tested, missing
<1>2. ASSUME UNCHANGED << mPc, mLeft, cPc, cLeft >> PROVE UnseenKept
  BY <1>2 DEF UnseenKept, unseen
<1>3. ASSUME UNCHANGED << cPc, cLeft >>, mPc # "countLinks", mPc' = "countLinks" => mLeft' = Links
      PROVE  UnseenKept
  BY <1>3 DEF UnseenKept, unseen
<1> QED BY <1>1, <1>2, <1>3

\* The maintainer, and a client, change only their own share of what is unseen.
LEMMA OneSees ==
    /\ UNCHANGED << cPc, cLeft >> =>
         unseen' = [unseen EXCEPT !["maintainer"] = IF mPc' = "countLinks" THEN mLeft' ELSE Links]
    /\ \A c \in Clients :
         /\ UNCHANGED << mPc, mLeft >>
         /\ \A d \in Clients \ {c} : cPc'[d] = cPc[d] /\ cLeft'[d] = cLeft[d]
         => unseen' = [unseen EXCEPT ![c] = IF cPc'[c] = "countLinks" THEN cLeft'[c] ELSE Links]
<1>1. "maintainer" \notin Clients
  BY GoroutinesAssumption
<1>2. ASSUME UNCHANGED << cPc, cLeft >>
      PROVE  unseen' = [unseen EXCEPT !["maintainer"]
                                         = IF mPc' = "countLinks" THEN mLeft' ELSE Links]
  BY <1>1, <1>2 DEF unseen
<1>3. ASSUME NEW c \in Clients, UNCHANGED << mPc, mLeft >>,
             \A d \in Clients \ {c} : cPc'[d] = cPc[d] /\ cLeft'[d] = cLeft[d]
      PROVE  unseen' = [unseen EXCEPT ![c] = IF cPc'[c] = "countLinks" THEN cLeft'[c] ELSE Links]
  BY <1>1, <1>3 DEF unseen
<1> QED BY <1>2, <1>3
-----------------------------------------------------------------------------
(* Steps of the maintainer.                                                 *)

\* The events that count as a cast, and the one that counts as a request to sleep.
LEMMA EventKinds ==
    ASSUME NEW e \in Events \cup {NoEvent}
    PROVE  /\ \A n : /\ e \in {TryCast(n), CastAnyway(n)}
                          <=> e.action \in {"try_cast", "cast_anyway"} /\ e.id = n
           /\ e = BrainSleep <=> e.action = "brain_sleep"
<1>1. CASE e = NoEvent
  BY <1>1 DEF NoEvent, TryCast, CastAnyway, BrainSleep
<1>2. CASE e \in Events
  BY <1>2 DEF Events, LinkReady, TryActivate, TryCast, CastAnyway, BrainSleep
<1> QED BY <1>1, <1>2

\* What the maintainer holds, by its control point and its event.
LEMMA Held ==
    ASSUME MaintainerOK
    PROVE  /\ mPc # "enqueue" => \A n : HeldDue(n) = 0
           /\ mPc = "enqueue" => \A n : HeldDue(n) = Count(mEvent.id = n)
           /\ mEvent.action \notin {"try_cast", "cast_anyway"} => \A n : HeldCast(n) = 0
           /\ mEvent.action \in {"try_cast", "cast_anyway"} =>
                \A n : HeldCast(n) = Count(mEvent.id = n)
           /\ mEvent.action # "brain_sleep" /\ mPc \notin {"end", "sleep"} => HeldSleep = 0
           /\ mEvent.action = "brain_sleep" \/ mPc \in {"end", "sleep"} => HeldSleep = 1
<1>1. mEvent \in Events \cup {NoEvent}
  BY DEF MaintainerOK, EventOK, CastOK, ScanOK
<1>2. /\ \A n : /\ mEvent \in {TryCast(n), CastAnyway(n)}
                     <=> mEvent.action \in {"try_cast", "cast_anyway"} /\ mEvent.id = n
      /\ mEvent = BrainSleep <=> mEvent.action = "brain_sleep"
  BY <1>1, EventKinds
<1> QED BY <1>2 DEF HeldDue, HeldCast, HeldSleep, Count

HeldFacts ==
    /\ mPc # "enqueue" => \A n : HeldDue(n) = 0
    /\ mPc = "enqueue" => \A n : HeldDue(n) = Count(mEvent.id = n)
    /\ mEvent.action \notin {"try_cast", "cast_anyway"} => \A n : HeldCast(n) = 0
    /\ mEvent.action \in {"try_cast", "cast_anyway"} => \A n : HeldCast(n) = Count(mEvent.id = n)
    /\ mEvent.action # "brain_sleep" /\ mPc \notin {"end", "sleep"} => HeldSleep = 0
    /\ mEvent.action = "brain_sleep" \/ mPc \in {"end", "sleep"} => HeldSleep = 1

\* What Held says, as one formula, before
LEMMA HeldNow == TypeOK => HeldFacts
BY Held DEF HeldFacts, TypeOK

\* and after a step.
LEMMA HeldNext == TypeOK' => HeldFacts'
BY HeldNow, PTL

\* What stays when a variable stays.
LEMMA Stays ==
    /\ UNCHANGED bQueue => QueuedSleeps' = QueuedSleeps /\ \A n : QueuedCasts(n)' = QueuedCasts(n)
    /\ UNCHANGED nQueue => \A n : QueuedDue(n)' = QueuedDue(n)
    /\ UNCHANGED << mPc, mEvent >> =>
         HeldSleep' = HeldSleep /\ \A n : HeldDue(n)' = HeldDue(n) /\ HeldCast(n)' = HeldCast(n)
    /\ UNCHANGED workers => \A n : /\ Beginning(n)' = Beginning(n) /\ Running(n)' = Running(n)
                                   /\ Casting(n)' = Casting(n)
    /\ UNCHANGED cPc => Asking' = Asking
    /\ UNCHANGED linkState => ReadyKept
BY DEF QueuedDue, QueuedCasts, QueuedSleeps, HeldSleep, HeldDue, HeldCast, Beginning, Running,
       Casting, CountWorkers, Asking, ReadyKept, ReadyLinks, workers

\* The counts, before and after a step of the maintainer.
LEMMA MaintainerCounts ==
    ASSUME TypeOK, TypeOK', Maintainer
    PROVE  /\ PartsOK /\ PartsOK' /\ HeldFacts /\ HeldFacts' /\ RunsKept
           /\ \A n : Beginning(n)' = Beginning(n) /\ Casting(n)' = Casting(n)
           /\ Asking' = Asking
           /\ (\A n \in Neurons : QueuedDue(n)' + HeldDue(n)' = QueuedDue(n) + HeldDue(n))
                => DueKept
           /\ (\A n \in Neurons : QueuedCasts(n)' + HeldCast(n)' + retries'[n]
                                    = QueuedCasts(n) + HeldCast(n) + retries[n])
                => CastsKept
           /\ QueuedSleeps' + HeldSleep' = QueuedSleeps + HeldSleep => SleepsKept
<1>1. UNCHANGED << workers, cPc >>
  BY Frames DEF clients
<1>2. PartsOK /\ PartsOK' /\ HeldFacts /\ HeldFacts'
  BY PartTypes, PartTypesNext, HeldNow, HeldNext
<1>3. RunsKept /\ Asking' = Asking /\ \A n : Beginning(n)' = Beginning(n) /\ Casting(n)' = Casting(n)
  BY <1>1, Stays DEF RunsKept
<1>4. ASSUME \A n \in Neurons : QueuedDue(n)' + HeldDue(n)' = QueuedDue(n) + HeldDue(n)
      PROVE  DueKept
  BY <1>2, <1>3, <1>4, Parts, PartsNext DEF PartsOK, DueKept
<1>5. ASSUME \A n \in Neurons : QueuedCasts(n)' + HeldCast(n)' + retries'[n]
                                   = QueuedCasts(n) + HeldCast(n) + retries[n]
      PROVE  CastsKept
  BY <1>2, <1>3, <1>5, Parts, PartsNext DEF PartsOK, CastsKept
<1>6. ASSUME QueuedSleeps' + HeldSleep' = QueuedSleeps + HeldSleep PROVE SleepsKept
  BY <1>2, <1>3, <1>6, Parts, PartsNext DEF PartsOK, SleepsKept
<1> QED BY <1>2, <1>3, <1>4, <1>5, <1>6

\* Outside its tests and counts the maintainer sees nothing.
LEMMA MaintainerSees ==
    ASSUME Maintainer, mPc \notin {"group", "countLinks"}, mPc' # "group",
           mPc' = "countLinks" => mLeft' = Links
    PROVE  SeenKept
<1>1. UNCHANGED << cPc, cLeft >>
  BY Frames DEF clients
<1> QED BY <1>1, SeenStays DEF SeenKept

\* Trigger groups are tested while the brain is running: only the maintainer
\* puts it to sleep, and not during a test.
GroupRuns == mPc = "group" => state = "Running"

\* The maintainer takes an event from the queue into its hand.
LEMMA RefineReceive ==
    ASSUME TypeOK, TypeOK', runBrainMaintainer
    PROVE  UNCHANGED Promise!vars
<1>1. Maintainer
  BY DEF Maintainer
<1>2. /\ mPc = "idle" /\ bQueue # << >> /\ mEvent' = Head(bQueue) /\ bQueue' = Tail(bQueue)
      /\ mPc' = Head(bQueue).action /\ UNCHANGED << linkState, state, nQueue, retries >>
  BY DEF runBrainMaintainer, status, counts
<1>3. Head(bQueue) \in Events /\ mEvent = NoEvent /\ QueuesOK
  BY <1>2, RangeTail DEF TypeOK, QueuesOK, MaintainerOK, EventOK, CastOK, ScanOK
<1>4. /\ mEvent.action = "none"
      /\ mPc' \in {"link_ready", "try_activate_neuron", "try_cast", "cast_anyway", "brain_sleep"}
  BY <1>2, <1>3, EventFields DEF NoEvent
<1>5. /\ \A n : QueuedCasts(n) = QueuedCasts(n)' + HeldCast(n)'
      /\ QueuedSleeps = QueuedSleeps' + HeldSleep'
  <2>1. /\ \A n : QueuedCasts(n) = QueuedCasts(n)'
                                     + Count(Head(bQueue) \in {TryCast(n), CastAnyway(n)})
        /\ QueuedSleeps = QueuedSleeps' + Count(Head(bQueue) = BrainSleep)
    BY <1>2, <1>3, ReceiveCounts
  <2>2. /\ \A n : HeldCast(n)' = Count(Head(bQueue) \in {TryCast(n), CastAnyway(n)})
        /\ HeldSleep' = Count(Head(bQueue) = BrainSleep)
    BY <1>2, <1>4 DEF HeldCast, HeldSleep, Count
  <2> QED BY <2>1, <2>2
<1>6. /\ \A n : QueuedDue(n)' = QueuedDue(n) /\ HeldDue(n) = 0 /\ HeldDue(n)' = 0 /\ HeldCast(n) = 0
      /\ HeldSleep = 0
  BY <1>1, <1>2, <1>4, Stays, MaintainerCounts DEF HeldFacts
<1>7. DueKept /\ CastsKept /\ SleepsKept /\ RunsKept
  BY <1>1, <1>2, <1>5, <1>6, MaintainerCounts DEF PartsOK
<1>8. SeenKept
  BY <1>1, <1>2, <1>4, MaintainerSees
<1> QED BY <1>2, <1>7, <1>8, Stays, MapStutter DEF CountsKept, StateKept

\* What each kind of event adds to the counts when it is sent.
LEMMA SentCounts ==
    ASSUME TypeOK
    PROVE  /\ \A l \in Links : publishEvent(LinkReady(l)) =>
                QueuedSleeps' = QueuedSleeps /\ \A n : QueuedCasts(n)' = QueuedCasts(n)
           /\ \A m \in Neurons : publishEvent(TryActivate(m)) =>
                QueuedSleeps' = QueuedSleeps /\ \A n : QueuedCasts(n)' = QueuedCasts(n)
           /\ \A m \in Neurons : publishEvent(TryCast(m)) \/ publishEvent(CastAnyway(m)) =>
                /\ QueuedSleeps' = QueuedSleeps
                /\ \A n : QueuedCasts(n)' = QueuedCasts(n) + Count(m = n)
           /\ publishEvent(BrainSleep) =>
                QueuedSleeps' = QueuedSleeps + 1 /\ \A n : QueuedCasts(n)' = QueuedCasts(n)
<1>1. QueuesOK /\ QueuedSleeps \in Nat /\ \A n : QueuedCasts(n) \in Nat
  BY PartTypes DEF TypeOK, PartsOK
<1>2. ASSUME NEW l \in Links, publishEvent(LinkReady(l))
      PROVE  QueuedSleeps' = QueuedSleeps /\ \A n : QueuedCasts(n)' = QueuedCasts(n)
  <2>1. LinkReady(l) # BrainSleep /\ \A n : LinkReady(l) \notin {TryCast(n), CastAnyway(n)}
    BY DEF LinkReady, BrainSleep, TryCast, CastAnyway
  <2>2. LinkReady(l) \in Events
    BY EventTypes
  <2> QED BY <1>1, <1>2, <2>1, <2>2, SendCounts DEF Count
<1>3. ASSUME NEW m \in Neurons, publishEvent(TryActivate(m))
      PROVE  QueuedSleeps' = QueuedSleeps /\ \A n : QueuedCasts(n)' = QueuedCasts(n)
  <2>1. TryActivate(m) # BrainSleep /\ \A n : TryActivate(m) \notin {TryCast(n), CastAnyway(n)}
    BY DEF TryActivate, BrainSleep, TryCast, CastAnyway
  <2>2. TryActivate(m) \in Events
    BY EventTypes
  <2> QED BY <1>1, <1>3, <2>1, <2>2, SendCounts DEF Count
<1>4. ASSUME NEW m \in Neurons, NEW e \in {TryCast(m), CastAnyway(m)}, publishEvent(e)
      PROVE  /\ QueuedSleeps' = QueuedSleeps
             /\ \A n : QueuedCasts(n)' = QueuedCasts(n) + Count(m = n)
  <2>1. e # BrainSleep /\ \A n : e \in {TryCast(n), CastAnyway(n)} <=> m = n
    BY DEF BrainSleep, TryCast, CastAnyway
  <2>2. e \in Events
    BY EventTypes
  <2> QED BY <1>1, <1>4, <2>1, <2>2, SendCounts DEF Count
<1>5. ASSUME publishEvent(BrainSleep)
      PROVE  QueuedSleeps' = QueuedSleeps + 1 /\ \A n : QueuedCasts(n)' = QueuedCasts(n)
  <2>1. \A n : BrainSleep \notin {TryCast(n), CastAnyway(n)}
    BY DEF BrainSleep, TryCast, CastAnyway
  <2>2. BrainSleep \in Events
    BY EventTypes
  <2> QED BY <1>1, <1>5, <2>1, <2>2, SendCounts DEF Count
<1> QED BY <1>2, <1>3, <1>4, <1>5

\* One neuron's count changes by one and the others stay.
LEMMA OneChanges ==
    ASSUME NEW n \in Neurons, NEW f \in [Neurons -> Nat], NEW g \in [Neurons -> Nat]
    PROVE  /\ (\A m \in Neurons : g[m] = f[m] + Count(m = n)) => Up(n, f, g)
           /\ (\A m \in Neurons : f[m] = g[m] + Count(m = n)) => Down(n, f, g)
<1>1. ASSUME \A m \in Neurons : g[m] = f[m] + Count(m = n) PROVE Up(n, f, g)
  BY <1>1 DEF Up, Count
<1>2. ASSUME \A m \in Neurons : f[m] = g[m] + Count(m = n) PROVE Down(n, f, g)
  BY <1>2 DEF Down, Count
<1> QED BY <1>1, <1>2

\* The counts are numbers.
CountsOfNat ==
    /\ due \in [Neurons -> Nat] /\ casts \in [Neurons -> Nat] /\ runs \in [Neurons -> Nat]
    /\ SleepsAsked \in Nat

\* The variables of Brain have their types
LEMMA CountTypes == PartsOK => CountsOfNat
<1> SUFFICES ASSUME PartsOK PROVE CountsOfNat
  OBVIOUS
<1>1. \A n \in Neurons : DueOf(n) \in Nat
  BY Parts DEF PartsOK
<1>2. \A n \in Neurons : CastsOf(n) \in Nat
  BY Parts DEF PartsOK
<1>3. \A n \in Neurons : Running(n) \in Nat
  BY DEF PartsOK
<1>4. SleepsAsked \in Nat
  <2>1. QueuedSleeps \in Nat /\ HeldSleep \in Nat /\ Asking \in Nat
    BY DEF PartsOK
  <2> QED BY <2>1, Parts
<1> QED BY <1>1, <1>2, <1>3, <1>4 DEF CountsOfNat, due, casts, runs

\* after a step, too.
LEMMA CountTypesNext == PartsOK' => CountsOfNat'
BY CountTypes, PTL

\* The changes, in terms of the counts.
LEMMA CountChanges ==
    ASSUME PartsOK, PartsOK', NEW n \in Neurons
    PROVE  /\ (\A m \in Neurons : DueOf(m)' = DueOf(m) + Count(m = n)) => Up(n, due, due')
           /\ (\A m \in Neurons : DueOf(m) = DueOf(m)' + Count(m = n)) => Down(n, due, due')
           /\ (\A m \in Neurons : Running(m)' = Running(m) + Count(m = n)) => Up(n, runs, runs')
           /\ (\A m \in Neurons : Running(m) = Running(m)' + Count(m = n)) => Down(n, runs, runs')
           /\ (\A m \in Neurons : CastsOf(m)' = CastsOf(m) + Count(m = n)) => Up(n, casts, casts')
           /\ (\A m \in Neurons : CastsOf(m) = CastsOf(m)' + Count(m = n)) => Down(n, casts, casts')
<1>1. \A m \in Neurons : /\ due[m] = DueOf(m) /\ due'[m] = DueOf(m)'
                         /\ runs[m] = Running(m) /\ runs'[m] = Running(m)'
                         /\ casts[m] = CastsOf(m) /\ casts'[m] = CastsOf(m)'
  BY DEF due, runs, casts
<1>2. /\ due \in [Neurons -> Nat] /\ casts \in [Neurons -> Nat] /\ runs \in [Neurons -> Nat]
      /\ due' \in [Neurons -> Nat] /\ casts' \in [Neurons -> Nat] /\ runs' \in [Neurons -> Nat]
  BY CountTypes, CountTypesNext DEF CountsOfNat
<1> QED BY <1>1, <1>2, OneChanges
\* What the maintainer passes between its hand and the queues.
DueBalanced == \A n \in Neurons : QueuedDue(n)' + HeldDue(n)' = QueuedDue(n) + HeldDue(n)
CastsBalanced == \A n \in Neurons : QueuedCasts(n)' + HeldCast(n)' = QueuedCasts(n) + HeldCast(n)
SleepsBalanced == QueuedSleeps' + HeldSleep' = QueuedSleeps + HeldSleep

\* What is balanced is kept.
LEMMA Balanced ==
    ASSUME TypeOK, TypeOK', Maintainer
    PROVE  /\ DueBalanced => DueKept
           /\ CastsBalanced /\ UNCHANGED retries => CastsKept
           /\ SleepsBalanced => SleepsKept
<1>1. DueBalanced => DueKept
  BY MaintainerCounts DEF DueBalanced
<1>2. ASSUME CastsBalanced, UNCHANGED retries PROVE CastsKept
  <2>1. \A n \in Neurons : QueuedCasts(n)' + HeldCast(n)' + retries'[n]
                             = QueuedCasts(n) + HeldCast(n) + retries[n]
    BY <1>2 DEF CastsBalanced
  <2> QED BY <2>1, MaintainerCounts
<1>3. SleepsBalanced => SleepsKept
  BY MaintainerCounts DEF SleepsBalanced
<1> QED BY <1>1, <1>2, <1>3

\* Nothing changes hands: the queues and what is held stay.
LEMMA NothingHeld ==
    /\ UNCHANGED nQueue /\ mPc # "enqueue" /\ mPc' # "enqueue" /\ HeldFacts /\ HeldFacts'
         => DueBalanced
    /\ UNCHANGED bQueue /\ HeldFacts /\ HeldFacts'
         /\ mEvent.action \notin {"try_cast", "cast_anyway"}
         /\ mEvent'.action \notin {"try_cast", "cast_anyway"} => CastsBalanced
    /\ UNCHANGED bQueue /\ mEvent' = mEvent => CastsBalanced
    /\ UNCHANGED bQueue /\ HeldFacts /\ HeldFacts'
         /\ mEvent.action # "brain_sleep" /\ mPc \notin {"end", "sleep"}
         /\ mEvent'.action # "brain_sleep" /\ mPc' \notin {"end", "sleep"} => SleepsBalanced
<1>1. /\ UNCHANGED bQueue => QueuedSleeps' = QueuedSleeps /\ \A n : QueuedCasts(n)' = QueuedCasts(n)
      /\ UNCHANGED nQueue => \A n : QueuedDue(n)' = QueuedDue(n)
  BY Stays
<1>2. UNCHANGED nQueue /\ mPc # "enqueue" /\ mPc' # "enqueue" /\ HeldFacts /\ HeldFacts'
        => DueBalanced
  BY <1>1 DEF HeldFacts, DueBalanced
<1>3. UNCHANGED bQueue /\ HeldFacts /\ HeldFacts'
         /\ mEvent.action \notin {"try_cast", "cast_anyway"}
         /\ mEvent'.action \notin {"try_cast", "cast_anyway"} => CastsBalanced
  BY <1>1 DEF HeldFacts, CastsBalanced
<1>4. UNCHANGED bQueue /\ mEvent' = mEvent => CastsBalanced
  BY <1>1 DEF HeldCast, CastsBalanced
<1>5. UNCHANGED bQueue /\ HeldFacts /\ HeldFacts'
         /\ mEvent.action # "brain_sleep" /\ mPc \notin {"end", "sleep"}
         /\ mEvent'.action # "brain_sleep" /\ mPc' \notin {"end", "sleep"} => SleepsBalanced
  BY <1>1 DEF HeldFacts, SleepsBalanced
<1> QED BY <1>2, <1>3, <1>4, <1>5

\* A step of the maintainer in which everything is balanced is no step of Brain.
LEMMA MaintainerStutters ==
    ASSUME TypeOK, TypeOK', Maintainer, DueBalanced, CastsBalanced, SleepsBalanced,
           UNCHANGED << linkState, state, retries >>,
           mPc \notin {"group", "countLinks"}, mPc' # "group", mPc' = "countLinks" => mLeft' = Links
    PROVE  UNCHANGED Promise!vars
<1>1. DueKept /\ CastsKept /\ SleepsKept /\ RunsKept
  BY Balanced, MaintainerCounts
<1>2. ReadyKept /\ SeenKept
  BY Stays, MaintainerSees
<1> QED BY <1>1, <1>2, MapStutter DEF CountsKept, StateKept

\* Handlers that only pass an event on, or look: LinkReady to TryActivate, the
\* send of BrainSleep at END and after refreshState, the send of a neuron to
\* the workers, the send of LinkReady in neuronCast, the counting of neurons and
\* the second loop of ForceSleep.
LEMMA RefinePassing ==
    ASSUME TypeOK, TypeOK',
           \/ handleLinkReady \/ tryActivateNeuron \/ publishEnd \/ enqueueNeuron
           \/ castSend \/ countNeurons \/ publishSleep \/ forceSleepNeurons
    PROVE  UNCHANGED Promise!vars
<1>1. Maintainer
  BY DEF Maintainer
<1>2. HeldFacts /\ HeldFacts' /\ PartsOK /\ PartsOK' /\ MaintainerOK /\ QueuesOK
  BY <1>1, MaintainerCounts DEF TypeOK
<1>3. NoEvent.action = "none" /\ BrainSleep.action = "brain_sleep"
  BY EventTypes
<1>4. CASE handleLinkReady
  <2>1. /\ mEvent.action = "link_ready" /\ mPc = "link_ready" /\ mEvent'.action = "none"
        /\ mPc' = "countNeurons" /\ mEvent.id \in Links
        /\ publishEvent(TryActivate(To[mEvent.id]))
        /\ UNCHANGED << linkState, state, nQueue, retries >>
    BY <1>2, <1>3, <1>4, HandledEvent DEF handleLinkReady, HandlerDone, MaintainerOK, EventOK,
      CastOK, ScanOK, status, counts
  <2>2. QueuedSleeps' = QueuedSleeps /\ \A n : QueuedCasts(n)' = QueuedCasts(n)
    BY <2>1, SentCounts, TopologyAssumption
  <2>3. DueBalanced
    BY <1>2, <2>1, NothingHeld
  <2>4. CastsBalanced /\ SleepsBalanced
    BY <1>2, <2>1, <2>2 DEF HeldFacts, CastsBalanced, SleepsBalanced
  <2> QED BY <1>1, <2>1, <2>3, <2>4, MaintainerStutters
<1>5. CASE tryActivateNeuron
  <2>1. /\ mEvent.action = "try_activate_neuron" /\ mPc = "try_activate_neuron"
        /\ mEvent'.action \in {"none", "try_activate_neuron"}
        /\ mPc' \in {"countNeurons", "shouldActivate"}
        /\ UNCHANGED << linkState, state, bQueue, nQueue, retries >>
    BY <1>2, <1>3, <1>5 DEF tryActivateNeuron, HandlerDone, MaintainerOK, EventOK, CastOK, ScanOK,
      status, counts
  <2>2. DueBalanced /\ CastsBalanced /\ SleepsBalanced
    BY <1>2, <2>1, NothingHeld
  <2> QED BY <1>1, <2>1, <2>2, MaintainerStutters
<1>6. CASE publishEnd \/ publishSleep
  <2>1. /\ mPc \in {"end", "sleep"} /\ mEvent.action \in {"none", "try_activate_neuron"}
        /\ mPc' \in {"countNeurons", "idle"} /\ mEvent'.action = "none"
        /\ publishEvent(BrainSleep)
        /\ UNCHANGED << linkState, state, nQueue, retries >>
    BY <1>2, <1>3, <1>6 DEF publishEnd, publishSleep, HandlerDone, MaintainerOK, EventOK, TestPcs,
      status, counts
  <2>2. QueuedSleeps' = QueuedSleeps + 1 /\ \A n : QueuedCasts(n)' = QueuedCasts(n)
    BY <2>1, SentCounts
  <2>3. DueBalanced
    BY <1>2, <2>1, NothingHeld
  <2>4. HeldSleep = 1 /\ HeldSleep' = 0 /\ \A n : HeldCast(n) = 0 /\ HeldCast(n)' = 0
    BY <1>2, <2>1 DEF HeldFacts
  <2>5. CastsBalanced /\ SleepsBalanced
    BY <1>2, <2>2, <2>4 DEF PartsOK, CastsBalanced, SleepsBalanced
  <2> QED BY <1>1, <2>1, <2>3, <2>5, MaintainerStutters
<1>7. CASE enqueueNeuron
  <2>1. /\ mPc = "enqueue" /\ mEvent.action = "try_activate_neuron"
        /\ mEvent.id \in Neurons \ {EndNeuron}
        /\ mPc' = "countNeurons" /\ mEvent'.action = "none"
        /\ publishEventActivateNeuron(mEvent.id)
        /\ UNCHANGED << linkState, state, bQueue, retries >>
    BY <1>2, <1>3, <1>7, HandledEvent DEF enqueueNeuron, HandlerDone, MaintainerOK, EventOK,
      TestPcs, status, counts
  <2>2. \A n : QueuedDue(n)' = QueuedDue(n) + Count(mEvent.id = n)
    BY <1>2, <2>1, NeuronQueueCounts
  <2>3. \A n : HeldDue(n) = Count(mEvent.id = n) /\ HeldDue(n)' = 0
    BY <1>2, <2>1 DEF HeldFacts
  <2>4. DueBalanced
    BY <1>2, <2>2, <2>3 DEF PartsOK, DueBalanced
  <2>5. CastsBalanced /\ SleepsBalanced
    BY <1>2, <2>1, NothingHeld
  <2> QED BY <1>1, <2>1, <2>4, <2>5, MaintainerStutters
<1>8. CASE castSend
  <2>1. /\ mPc = "castSend" /\ mEvent.action \in {"try_cast", "cast_anyway"}
        /\ mPc' = "cast" /\ mEvent' = mEvent
        /\ publishEvent(LinkReady(mGroup[mIdx - 1]))
        /\ UNCHANGED << linkState, state, nQueue, retries >>
    BY <1>2, <1>8 DEF castSend, MaintainerOK, EventOK, CastOK, ScanOK, CastPcs, status, counts
  <2>2. mGroup[mIdx - 1] \in Links
    BY <1>2, <2>1 DEF MaintainerOK, EventOK, CastOK, ScanOK, CastPcs
  <2>3. QueuedSleeps' = QueuedSleeps /\ \A n : QueuedCasts(n)' = QueuedCasts(n)
    BY <2>1, <2>2, SentCounts
  <2>4. DueBalanced
    BY <1>2, <2>1, NothingHeld
  <2>5. CastsBalanced /\ SleepsBalanced
    BY <2>1, <2>3 DEF HeldCast, HeldSleep, CastsBalanced, SleepsBalanced
  <2> QED BY <1>1, <2>1, <2>4, <2>5, MaintainerStutters
<1>9. CASE countNeurons
  <2>1. /\ mPc = "countNeurons" /\ mEvent.action = "none" /\ mEvent' = mEvent
        /\ mPc' \in {"setRunning", "countNeurons", "countLinks"}
        /\ mPc' = "countLinks" => mLeft' = Links
        /\ UNCHANGED << linkState, state, bQueue, nQueue, retries >>
    BY <1>2, <1>3, <1>9 DEF countNeurons, MaintainerOK, EventOK, CastOK, ScanOK, status, counts
  <2>2. DueBalanced /\ CastsBalanced /\ SleepsBalanced
    BY <1>2, <2>1, NothingHeld
  <2> QED BY <1>1, <2>1, <2>2, MaintainerStutters
<1>10. CASE forceSleepNeurons
  <2>1. /\ mPc = "sleepNeurons" /\ mEvent' = mEvent /\ mPc' = "setSleeping"
        /\ UNCHANGED << linkState, state, bQueue, nQueue, retries >>
    BY <1>10 DEF forceSleepNeurons, counts
  <2>2. DueBalanced /\ CastsBalanced
    BY <1>2, <2>1, NothingHeld
  <2>3. SleepsBalanced
    BY <2>1, Stays DEF HeldSleep, SleepsBalanced
  <2> QED BY <1>1, <2>1, <2>2, <2>3, MaintainerStutters
<1> QED BY <1>4, <1>5, <1>6, <1>7, <1>8, <1>9, <1>10

\* ifNeuronShouldActivate begins: a running brain tests a trigger group, if the
\* neuron has one.
LEMMA RefineShouldActivate ==
    ASSUME TypeOK, TypeOK', shouldActivate
    PROVE  Promise!Next \/ UNCHANGED Promise!vars
<1> DEFINE n == mEvent.id
<1>1. Maintainer
  BY DEF Maintainer
<1>2. HeldFacts /\ HeldFacts' /\ PartsOK /\ PartsOK' /\ MaintainerOK /\ RunsKept
  BY <1>1, MaintainerCounts DEF TypeOK
<1>3. /\ mPc = "shouldActivate" /\ mEvent.action = "try_activate_neuron" /\ n \in Neurons
      /\ UNCHANGED << linkState, state, bQueue, nQueue, retries, cPc, cLeft >>
  BY <1>2, HandledEvent DEF shouldActivate, MaintainerOK, EventOK, TestPcs, status, counts, clients
<1>4. CASE HandlerDone
  <2>1. mPc' = "countNeurons" /\ mEvent'.action = "none"
    BY <1>4, EventTypes DEF HandlerDone
  <2>2. DueBalanced /\ CastsBalanced /\ SleepsBalanced
    BY <1>2, <1>3, <2>1, NothingHeld
  <2> QED BY <1>1, <1>3, <2>1, <2>2, MaintainerStutters
<1>5. CASE ~HandlerDone
  <2>1. /\ state = "Running" /\ mPc' = "group" /\ mEvent' = mEvent
        /\ mLeft' \in TriggerGroups[n] \ {{}}
    BY <1>5 DEF shouldActivate, NextGroup
  <2>2. DueBalanced /\ CastsBalanced /\ SleepsBalanced
    BY <1>2, <1>3, <2>1, NothingHeld
  <2>3. CountsKept /\ SleepsKept /\ ReadyKept /\ StateKept
    BY <1>1, <1>2, <1>3, <2>2, Balanced, Stays DEF CountsKept, StateKept
  <2>4. tested' = {n} /\ missing' = mLeft' /\ UnseenKept
    BY <1>3, <2>1, SeenStays DEF tested, missing
  <2> HIDE DEF n
  <2> QED BY <1>3, <2>1, <2>3, <2>4, MapTest
<1> QED BY <1>4, <1>5

\* ifNeuronShouldActivate goes on: the group fails and the next is tested, some
\* of its links are seen Ready, or all have been: END asks the brain to sleep,
\* another neuron is activated.
LEMMA RefineTestGroup ==
    ASSUME TypeOK, TypeOK', GroupRuns, testGroup
    PROVE  Promise!Next
<1> DEFINE n == mEvent.id
<1>1. Maintainer
  BY DEF Maintainer
<1>2. HeldFacts /\ HeldFacts' /\ PartsOK /\ PartsOK' /\ MaintainerOK /\ RunsKept
  BY <1>1, MaintainerCounts DEF TypeOK
<1>3. /\ mPc = "group" /\ mEvent.action = "try_activate_neuron" /\ n \in Neurons
      /\ UNCHANGED << linkState, state, bQueue, nQueue, retries, cPc, cLeft >>
  BY <1>2, HandledEvent DEF testGroup, MaintainerOK, EventOK, TestPcs, status, counts, clients
<1>4. ReadyKept /\ StateKept /\ tested = {n} /\ missing = mLeft
  BY <1>3, Stays DEF StateKept, tested, missing
<1>5. CASE HandlerDone
  <2>1. mPc' = "countNeurons" /\ mEvent'.action = "none"
    BY <1>5, EventTypes DEF HandlerDone
  <2>2. DueBalanced /\ CastsBalanced /\ SleepsBalanced
    BY <1>2, <1>3, <2>1, NothingHeld
  <2>3. CountsKept /\ SleepsKept
    BY <1>1, <1>2, <1>3, <2>2, Balanced DEF CountsKept
  <2>4. tested' = {} /\ missing' = {} /\ UnseenKept
    BY <1>3, <2>1, SeenStays DEF tested, missing
  <2> QED BY <1>4, <2>3, <2>4, MapGiveUp
<1>6. CASE mPc' = "group" /\ mEvent' = mEvent /\ mLeft' \in TriggerGroups[n] \ {{}}
  <2>1. DueBalanced /\ CastsBalanced /\ SleepsBalanced
    BY <1>2, <1>3, <1>6, NothingHeld
  <2>2. CountsKept /\ SleepsKept
    BY <1>1, <1>2, <1>3, <2>1, Balanced DEF CountsKept
  <2>3. tested' = {n} /\ missing' = mLeft' /\ UnseenKept /\ state = "Running"
    BY <1>3, <1>6, SeenStays DEF tested, missing, GroupRuns
  <2> HIDE DEF n
  <2> QED BY <1>3, <1>4, <1>6, <2>2, <2>3, MapTest
<1>7. CASE mPc' = "group" /\ mEvent' = mEvent /\ mLeft' = mLeft \ ReadyLinks
  <2>1. DueBalanced /\ CastsBalanced /\ SleepsBalanced
    BY <1>2, <1>3, <1>7, NothingHeld
  <2>2. CountsKept /\ SleepsKept
    BY <1>1, <1>2, <1>3, <2>1, Balanced DEF CountsKept
  <2>3. tested' = tested /\ missing' = missing \ ReadyLinks /\ UnseenKept
    BY <1>3, <1>7, SeenStays DEF tested, missing
  <2> QED BY <1>4, <2>2, <2>3, MapSeeReady
<1>8. CASE mLeft \subseteq ReadyLinks /\ AcceptGroup /\ n = EndNeuron
  <2>1. mPc' = "end" /\ mEvent' = mEvent
    BY <1>8 DEF AcceptGroup
  <2>2. DueBalanced /\ CastsBalanced
    BY <1>2, <1>3, <2>1, NothingHeld
  <2>3. CountsKept
    BY <1>1, <1>2, <1>3, <2>2, Balanced DEF CountsKept
  <2>4. HeldSleep = 0 /\ HeldSleep' = 1
    BY <1>2, <1>3, <2>1 DEF HeldFacts
  <2>5. QueuedSleeps' = QueuedSleeps /\ Asking' = Asking
    BY <1>1, <1>3, Stays, MaintainerCounts
  <2>6. SleepsAsked' = SleepsAsked + 1
    BY <1>2, <2>4, <2>5, Parts, PartsNext DEF PartsOK
  <2>7. tested' = {} /\ missing' = {} /\ UnseenKept
    BY <1>3, <2>1, SeenStays DEF tested, missing
  <2> QED BY <1>4, <1>8, <2>3, <2>6, <2>7, MapReachEnd
<1>9. CASE mLeft \subseteq ReadyLinks /\ AcceptGroup /\ n # EndNeuron
  <2>1. mPc' = "enqueue" /\ mEvent' = mEvent
    BY <1>9 DEF AcceptGroup
  <2>2. CastsBalanced /\ SleepsBalanced
    BY <1>2, <1>3, <2>1, NothingHeld
  <2>3. CastsKept /\ SleepsKept
    BY <1>1, <1>3, <2>2, Balanced
  <2>4. \A m : HeldDue(m) = 0 /\ HeldDue(m)' = Count(n = m)
    BY <1>2, <1>3, <2>1 DEF HeldFacts
  <2>5. \A m : QueuedDue(m)' = QueuedDue(m) /\ Beginning(m)' = Beginning(m)
    BY <1>1, <1>3, Stays, MaintainerCounts
  <2>6. \A m \in Neurons : DueOf(m)' = DueOf(m) + Count(m = n)
    BY <1>2, <2>4, <2>5, Parts, PartsNext DEF PartsOK, Count
  <2>7. tested' = {} /\ missing' = {} /\ UnseenKept
    BY <1>3, <2>1, SeenStays DEF tested, missing
  <2> HIDE DEF n
  <2>8. Up(n, due, due')
    BY <1>2, <1>3, <2>6, CountChanges
  <2> QED BY <1>2, <1>3, <1>4, <1>9, <2>3, <2>7, <2>8, MapActivate
<1>10. mTodo \subseteq TriggerGroups[n] \ {{}}
  BY <1>2, <1>3 DEF MaintainerOK, ScanOK
<1>11. CASE NextGroup(mTodo)
  BY <1>5, <1>6, <1>10, <1>11 DEF NextGroup
<1> QED BY <1>7, <1>8, <1>9, <1>11, <1>3 DEF testGroup

\* The casts of the neuron whose cast the maintainer handles are counted.
LEMMA CastIsOwed ==
    ASSUME TypeOK, mEvent.action \in {"try_cast", "cast_anyway"}, mEvent.id \in Neurons
    PROVE  CastsOf(mEvent.id) > 0
<1>1. HeldCast(mEvent.id) = 1
  BY HeldNow DEF HeldFacts, Count
<1>2. PartsOK
  BY PartTypes
<1> QED BY <1>1, <1>2, Parts DEF PartsOK

\* The end of a cast: its handler is done and the event is dropped.
LEMMA CastIsOver ==
    ASSUME TypeOK, TypeOK', Maintainer, HandlerDone, UNCHANGED << bQueue, nQueue, retries >>,
           mEvent.action \in {"try_cast", "cast_anyway"}, mEvent.id \in Neurons,
           mPc \notin {"enqueue", "end", "sleep", "group", "countLinks"}
    PROVE  /\ CastsOf(mEvent.id) > 0 /\ Down(mEvent.id, casts, casts')
           /\ DueKept /\ RunsKept /\ SleepsKept /\ SeenKept
<1>1. HeldFacts /\ HeldFacts' /\ PartsOK /\ PartsOK' /\ RunsKept
  BY MaintainerCounts
<1>2. mPc' = "countNeurons" /\ mEvent'.action = "none"
  BY EventTypes DEF HandlerDone
<1>3. DueBalanced /\ SleepsBalanced
  BY <1>1, <1>2, NothingHeld
<1>4. DueKept /\ SleepsKept
  BY <1>3, Balanced
<1>5. \A n : HeldCast(n) = Count(mEvent.id = n) /\ HeldCast(n)' = 0
  BY <1>1, <1>2 DEF HeldFacts
<1>6. \A n : QueuedCasts(n)' = QueuedCasts(n) /\ Casting(n)' = Casting(n)
  BY Stays, MaintainerCounts
<1>7. \A n \in Neurons : CastsOf(n) = CastsOf(n)' + Count(n = mEvent.id)
  BY <1>1, <1>5, <1>6, Parts, PartsNext DEF PartsOK, Count
<1> QED BY <1>1, <1>2, <1>4, <1>7, CastIsOwed, CountChanges, MaintainerSees

\* neuronCast begins, or drops a TryCast of a neuron that is active again.
LEMMA RefineNeuronCast ==
    ASSUME TypeOK, TypeOK', neuronCast
    PROVE  Promise!Next \/ UNCHANGED Promise!vars
<1>1. Maintainer
  BY DEF Maintainer
<1>2. HeldFacts /\ HeldFacts' /\ PartsOK /\ PartsOK' /\ MaintainerOK
  BY <1>1, MaintainerCounts DEF TypeOK
<1>3. /\ mPc \in {"try_cast", "cast_anyway"} /\ mEvent.action \in {"try_cast", "cast_anyway"}
      /\ mEvent.id \in Neurons
      /\ UNCHANGED << linkState, state, bQueue, nQueue, retries >>
  BY <1>2, HandledEvent DEF neuronCast, MaintainerOK, EventOK, CastOK, ScanOK, status, counts
<1>4. ReadyKept /\ StateKept
  BY <1>3, Stays DEF StateKept
<1>5. CASE HandlerDone
  <2>1. /\ CastsOf(mEvent.id) > 0 /\ Down(mEvent.id, casts, casts')
        /\ DueKept /\ RunsKept /\ SleepsKept /\ SeenKept
    BY <1>1, <1>3, <1>5, CastIsOver
  <2>2. ReadyLinks' = ReadyLinks \ {}
    BY <1>4 DEF ReadyKept
  <2> QED BY <1>3, <1>4, <2>1, <2>2, MapEndCast
<1>6. CASE mPc' = "cast" /\ mEvent' = mEvent
  <2>1. DueBalanced /\ CastsBalanced /\ SleepsBalanced
    BY <1>2, <1>3, <1>6, NothingHeld
  <2> QED BY <1>1, <1>3, <1>6, <2>1, MaintainerStutters
<1> QED BY <1>5, <1>6 DEF neuronCast

\* A link the cast has selected is an out-link of its neuron.
LEMMA SelectedLink ==
    ASSUME TypeOK, mPc \in CastPcs, mIdx <= Len(mGroup)
    PROVE  /\ mGroup[mIdx] \in Links /\ From[mGroup[mIdx]] = mEvent.id /\ mEvent.id \in Neurons
           /\ mEvent.action \in {"try_cast", "cast_anyway"}
<1>1. /\ mEvent.id \in Neurons /\ mGroup \in Selections[mEvent.id] /\ mGroup \in Seq(Links)
      /\ mIdx \in 1..(Len(mGroup) + 1) /\ mEvent.action \in {"try_cast", "cast_anyway"}
  BY HandledEvent DEF TypeOK, MaintainerOK, EventOK, CastOK, ScanOK, CastPcs
<1>2. mIdx \in 1..Len(mGroup) /\ mGroup # << >>
  BY <1>1
<1>3. mGroup[mIdx] \in Range(mGroup) /\ mGroup[mIdx] \in Links
  BY <1>1, <1>2 DEF Range
<1>4. mGroup \in CastGroups[mEvent.id]
  BY <1>1, <1>2, GroupsAssumption
<1> QED BY <1>1, <1>3, <1>4, GroupsAssumption

\* One round of the loop over the selected links: a Ready link makes
\* cast_anyway owe the cast again.
LEMMA RefineCastSelected ==
    ASSUME TypeOK, TypeOK', castSelected
    PROVE  Promise!Next \/ UNCHANGED Promise!vars
<1>1. Maintainer
  BY DEF Maintainer
<1>2. HeldFacts /\ HeldFacts' /\ PartsOK /\ PartsOK' /\ MaintainerOK /\ RunsKept
  BY <1>1, MaintainerCounts DEF TypeOK
<1>3. /\ mPc = "cast" /\ mIdx <= Len(mGroup) /\ mPc' \in {"cast", "castWrite"} /\ mEvent' = mEvent
      /\ UNCHANGED << linkState, state, bQueue, nQueue >>
  BY DEF castSelected, status
<1>4. /\ mGroup[mIdx] \in Links /\ From[mGroup[mIdx]] = mEvent.id /\ mEvent.id \in Neurons
      /\ mEvent.action \in {"try_cast", "cast_anyway"}
  BY <1>3, SelectedLink DEF CastPcs
<1>5. DueBalanced /\ CastsBalanced /\ SleepsBalanced
  BY <1>2, <1>3, <1>4, NothingHeld
<1>6. CASE UNCHANGED retries
  BY <1>1, <1>3, <1>5, <1>6, MaintainerStutters
<1>7. CASE retries' = [retries EXCEPT ![mEvent.id] = @ + 1] /\ linkState[mGroup[mIdx]] = "Ready"
  <2>1. ReadyKept /\ StateKept /\ DueKept /\ SleepsKept /\ SeenKept
    BY <1>1, <1>3, <1>5, Stays, Balanced, MaintainerSees DEF StateKept
  <2>2. retries \in [Neurons -> Nat]
    BY BoundsAssumption DEF TypeOK, CountsOK
  <2>3. \A n \in Neurons : retries'[n] = retries[n] + Count(n = mEvent.id)
    BY <1>7, <2>2 DEF Count
  <2>4. \A n : QueuedCasts(n)' = QueuedCasts(n) /\ Casting(n)' = Casting(n)
                 /\ HeldCast(n)' = HeldCast(n)
    BY <1>1, <1>3, Stays, MaintainerCounts DEF HeldCast
  <2>5. \A n \in Neurons : CastsOf(n)' = CastsOf(n) + Count(n = mEvent.id)
    BY <1>2, <2>2, <2>3, <2>4, Parts, PartsNext DEF PartsOK, Count
  <2>6. Up(mEvent.id, casts, casts')
    BY <1>2, <1>4, <2>5, CountChanges
  <2>7. mGroup[mIdx] \in ReadyLinks /\ CastsOf(mEvent.id) > 0
    BY <1>4, <1>7, CastIsOwed DEF ReadyLinks
  <2> QED BY <1>2, <1>4, <2>1, <2>6, <2>7, MapCastAgain
<1> QED BY <1>6, <1>7 DEF castSelected

\* The write of a selected link is a link the owed cast makes ready.
LEMMA RefineCastWrite ==
    ASSUME TypeOK, TypeOK', castWrite
    PROVE  Promise!Next
<1>1. Maintainer
  BY DEF Maintainer
<1>2. HeldFacts /\ HeldFacts' /\ MaintainerOK /\ RunsKept
  BY <1>1, MaintainerCounts DEF TypeOK
<1>3. /\ mPc = "castWrite" /\ mIdx <= Len(mGroup) /\ mPc' = "castSend" /\ mEvent' = mEvent
      /\ linkState' = [linkState EXCEPT ![mGroup[mIdx]] = "Ready"]
      /\ UNCHANGED << state, bQueue, nQueue, retries >>
  BY <1>2 DEF castWrite, MaintainerOK, EventOK, CastOK, ScanOK, counts
<1>4. /\ mGroup[mIdx] \in Links /\ From[mGroup[mIdx]] = mEvent.id /\ mEvent.id \in Neurons
      /\ mEvent.action \in {"try_cast", "cast_anyway"}
  BY <1>3, SelectedLink DEF CastPcs
<1>5. DueBalanced /\ CastsBalanced /\ SleepsBalanced
  BY <1>2, <1>3, <1>4, NothingHeld
<1>6. CountsKept /\ SleepsKept /\ StateKept /\ SeenKept
  BY <1>1, <1>2, <1>3, <1>5, Balanced, MaintainerSees DEF CountsKept, StateKept
<1>7. ReadyLinks' = ReadyLinks \cup {mGroup[mIdx]}
  BY <1>3, <1>4 DEF ReadyLinks, TypeOK, StatusOK
<1> QED BY <1>4, <1>6, <1>7, CastIsOwed, MapCastLink

\* One round of the loop over the links that were not selected: the cast takes
\* back some of them and goes on, or is over.
LEMMA RefineRound ==
    ASSUME TypeOK, TypeOK', Maintainer, mPc \in {"cast", "castRest", "castReset"},
           HandlerDone \/ (mPc' \in {"castRest", "castReset"} /\ mEvent' = mEvent),
           UNCHANGED << state, bQueue, nQueue, retries >>,
           NEW ls \in SUBSET Unselected, ReadyLinks' = ReadyLinks \ ls
    PROVE  Promise!Next
<1> DEFINE n == mEvent.id
           ms == {l \in Links : l \in ls}
<1>1. mEvent.action \in {"try_cast", "cast_anyway"} /\ n \in Neurons
  BY HandledEvent DEF TypeOK, MaintainerOK, CastOK, CastPcs
<1>2. ms \in SUBSET {l \in Links : From[l] = n}
  BY <1>1, GroupEnds DEF Unselected
<1>3. ReadyLinks' = ReadyLinks \ ms /\ StateKept
  BY DEF ReadyLinks, StateKept
<1>4. CASE HandlerDone
  <2>1. /\ CastsOf(n) > 0 /\ Down(n, casts, casts')
        /\ DueKept /\ RunsKept /\ SleepsKept /\ SeenKept
    BY <1>1, <1>4, CastIsOver
  <2> HIDE DEF n, ms
  <2> QED BY <1>1, <1>2, <1>3, <2>1, MapEndCast
<1>5. CASE mPc' \in {"castRest", "castReset"} /\ mEvent' = mEvent
  <2>1. HeldFacts /\ HeldFacts' /\ RunsKept
    BY MaintainerCounts
  <2>2. DueBalanced /\ CastsBalanced /\ SleepsBalanced
    BY <1>1, <1>5, <2>1, NothingHeld
  <2>3. CountsKept /\ SleepsKept /\ SeenKept
    BY <1>5, <2>1, <2>2, Balanced, MaintainerSees DEF CountsKept
  <2>4. CastsOf(n) > 0
    BY <1>1, CastIsOwed
  <2> HIDE DEF n, ms
  <2> QED BY <1>1, <1>2, <1>3, <2>3, <2>4, MapWithdraw
<1> QED BY <1>4, <1>5

\* The loop over the links that were not selected.
LEMMA RefineCastRest ==
    ASSUME TypeOK, TypeOK', castUnselected \/ castRest \/ castReset
    PROVE  Promise!Next
<1>1. Maintainer
  BY DEF Maintainer
<1>2. /\ mPc \in {"cast", "castRest", "castReset"} /\ UNCHANGED << state, bQueue, nQueue, retries >>
      /\ HandlerDone \/ (mPc' \in {"castRest", "castReset"} /\ mEvent' = mEvent)
  BY DEF castUnselected, castRest, castReset, NextVisit, status, counts
<1>3. CASE UNCHANGED linkState
  <2>1. PICK ls \in SUBSET Unselected : ls = {}
    OBVIOUS
  <2>2. ReadyLinks' = ReadyLinks \ ls
    BY <1>3, <2>1 DEF ReadyLinks
  <2> QED BY <1>1, <1>2, <2>2, RefineRound
<1>4. CASE castUnselected /\ SetLinks(Unselected, "Wait")
  <2>1. ReadyLinks' = ReadyLinks \ Unselected
    BY <1>4 DEF SetLinks, ReadyLinks
  <2> QED BY <1>1, <1>2, <2>1, RefineRound
<1>5. CASE castReset
  <2>1. ReadyLinks' = ReadyLinks \ mLeft
    BY <1>5 DEF castReset, SetLinks, ReadyLinks
  <2>2. mLeft \subseteq Unselected
    BY <1>5 DEF castReset, TypeOK, MaintainerOK, CastOK
  <2> QED BY <1>1, <1>2, <2>1, <2>2, RefineRound
<1> QED BY <1>3, <1>4, <1>5 DEF castUnselected, castRest, status

\* refreshState in the maintainer: links are seen idle, one is not and the
\* count is given up, or all have been and the brain is asked to sleep.
LEMMA RefineCountLinks ==
    ASSUME TypeOK, TypeOK', countLinks
    PROVE  Promise!Next
<1>1. Maintainer
  BY DEF Maintainer
<1>2. HeldFacts /\ HeldFacts' /\ PartsOK /\ PartsOK' /\ MaintainerOK /\ RunsKept
  BY <1>1, MaintainerCounts DEF TypeOK
<1>3. /\ mPc = "countLinks" /\ mEvent.action = "none" /\ mEvent' = mEvent /\ mLeft \subseteq Links
      /\ mPc' \in {"countLinks", "setRunning", "sleep"}
      /\ UNCHANGED << linkState, state, bQueue, nQueue, retries, cPc, cLeft >>
  BY <1>2, EventTypes DEF countLinks, MaintainerOK, EventOK, ScanOK, status, counts, clients
<1>4. DueBalanced /\ CastsBalanced
  BY <1>2, <1>3, NothingHeld
<1>5. CountsKept /\ ReadyKept /\ StateKept /\ TestKept
  BY <1>1, <1>2, <1>3, <1>4, Balanced, Stays, SeenStays DEF CountsKept, StateKept
<1>6. /\ unseen' = [unseen EXCEPT !["maintainer"] = IF mPc' = "countLinks" THEN mLeft' ELSE Links]
      /\ unseen["maintainer"] = mLeft
  BY <1>3, OneSees, GoroutinesAssumption DEF unseen
<1>7. CASE mPc' # "sleep"
  <2>1. SleepsBalanced
    BY <1>2, <1>3, <1>7, NothingHeld
  <2>2. SleepsKept
    BY <1>1, <2>1, Balanced
  <2>3. CASE mPc' = "setRunning"
    BY <1>5, <1>6, <2>2, <2>3, MapDesist
  <2>4. CASE mPc' = "countLinks"
    <3> DEFINE ls == Links \ StandByLinks
    <3>1. mLeft' = mLeft \cap StandByLinks
      BY <2>4 DEF countLinks
    <3>2. ls \in SUBSET (Links \ ReadyLinks) /\ mLeft' = mLeft \ ls
      BY <1>3, <3>1 DEF StandByLinks, ReadyLinks
    <3>3. unseen' = [unseen EXCEPT !["maintainer"] = @ \ ls]
      BY <1>6, <2>4, <3>2
    <3> HIDE DEF ls
    <3> QED BY <1>5, <2>2, <3>2, <3>3, MapSeeIdle
  <2> QED BY <1>3, <1>7, <2>3, <2>4
<1>8. CASE mPc' = "sleep"
  <2>1. HeldSleep = 0 /\ HeldSleep' = 1
    BY <1>2, <1>3, <1>8 DEF HeldFacts
  <2>2. QueuedSleeps' = QueuedSleeps /\ Asking' = Asking
    BY <1>1, <1>3, Stays, MaintainerCounts
  <2>3. SleepsAsked' = SleepsAsked + 1
    BY <1>2, <2>1, <2>2, Parts, PartsNext DEF PartsOK
  <2>4. mLeft \cap ReadyLinks = {}
    BY <1>3, <1>8 DEF countLinks, StandByLinks, ReadyLinks
  <2> QED BY <1>5, <1>6, <1>8, <2>3, <2>4, MapAskSleep
<1> QED BY <1>7, <1>8

\* refreshState in the maintainer: the brain is set Running.
LEMMA RefineSetRunning ==
    ASSUME TypeOK, TypeOK', setRunning
    PROVE  Promise!Next
<1>1. Maintainer
  BY DEF Maintainer
<1>2. HeldFacts /\ HeldFacts' /\ MaintainerOK /\ RunsKept
  BY <1>1, MaintainerCounts DEF TypeOK
<1>3. /\ mPc = "setRunning" /\ mPc' = "idle" /\ mEvent.action = "none" /\ mEvent' = mEvent
      /\ state' = "Running" /\ UNCHANGED << linkState, bQueue, nQueue, retries >>
  BY <1>2, EventTypes DEF setRunning, MaintainerOK, EventOK, counts
<1>4. DueBalanced /\ CastsBalanced /\ SleepsBalanced
  BY <1>2, <1>3, NothingHeld
<1>5. CountsKept /\ SleepsKept /\ ReadyKept /\ SeenKept
  BY <1>1, <1>2, <1>3, <1>4, Balanced, Stays, MaintainerSees DEF CountsKept
<1> QED BY <1>3, <1>5, MapWake

\* ForceSleep fulfils a request to sleep: the links are reset, and at the end
\* the brain sleeps.
LEMMA RefineForceSleep ==
    ASSUME TypeOK, TypeOK', forceSleepLinks \/ forceSleepState
    PROVE  Promise!Next
<1>1. Maintainer
  BY DEF Maintainer
<1>2. HeldFacts /\ HeldFacts' /\ PartsOK /\ PartsOK' /\ MaintainerOK /\ RunsKept
  BY <1>1, MaintainerCounts DEF TypeOK
<1>3. mEvent.action = "brain_sleep" /\ mPc \in {"brain_sleep", "setSleeping"}
  BY <1>2, EventTypes DEF forceSleepLinks, forceSleepState, MaintainerOK, EventOK, CastOK, ScanOK
<1>4. HeldSleep = 1
  BY <1>2, <1>3 DEF HeldFacts
<1>5. SleepsAsked > 0
  BY <1>2, <1>4, Parts DEF PartsOK
<1>6. CASE forceSleepLinks
  <2>1. /\ mPc' = "sleepNeurons" /\ mEvent' = mEvent
        /\ UNCHANGED << state, bQueue, nQueue, retries >>
    BY <1>6 DEF forceSleepLinks, counts
  <2>2. DueBalanced /\ CastsBalanced
    BY <1>2, <1>3, <2>1, NothingHeld
  <2>3. SleepsBalanced
    BY <1>3, <2>1, Stays DEF HeldSleep, SleepsBalanced
  <2>4. CountsKept /\ SleepsKept /\ StateKept /\ SeenKept
    BY <1>1, <1>2, <1>3, <2>1, <2>2, <2>3, Balanced, MaintainerSees DEF CountsKept, StateKept
  <2>5. ReadyLinks' = {}
    BY <1>6 DEF forceSleepLinks, ReadyLinks
  <2> QED BY <1>5, <2>4, <2>5, MapResetLinks
<1>7. CASE forceSleepState
  <2>1. /\ mPc' = "idle" /\ mEvent'.action = "none" /\ state' = "Sleeping"
        /\ UNCHANGED << linkState, bQueue, nQueue, retries >>
    BY <1>7, EventTypes DEF forceSleepState, counts
  <2>2. DueBalanced /\ CastsBalanced
    BY <1>2, <1>3, <2>1, NothingHeld
  <2>3. CountsKept /\ ReadyKept /\ SeenKept
    BY <1>1, <1>2, <1>3, <2>1, <2>2, Balanced, Stays, MaintainerSees DEF CountsKept
  <2>4. HeldSleep' = 0
    BY <1>2, <2>1 DEF HeldFacts
  <2>5. QueuedSleeps' = QueuedSleeps /\ Asking' = Asking
    BY <1>1, <2>1, Stays, MaintainerCounts
  <2>6. SleepsAsked' = SleepsAsked - 1
    BY <1>2, <1>4, <2>4, <2>5, Parts, PartsNext DEF PartsOK
  <2> QED BY <1>5, <2>1, <2>3, <2>6, MapSleep
<1> QED BY <1>6, <1>7

\* Every step of the maintainer.
LEMMA RefineMaintainer ==
    ASSUME TypeOK, TypeOK', GroupRuns, Maintainer
    PROVE  Promise!Next \/ UNCHANGED Promise!vars
BY RefineReceive, RefinePassing, RefineShouldActivate, RefineTestGroup, RefineNeuronCast,
   RefineCastSelected, RefineCastWrite, RefineCastRest, RefineCountLinks, RefineSetRunning,
   RefineForceSleep DEF Maintainer
-----------------------------------------------------------------------------
(* Steps of the workers and of the retry goroutines.                        *)

\* A step of a worker leaves alone what the others hold.
LEMMA WorkerFrame ==
    ASSUME TypeOK, TypeOK', NEW w \in Workers, Worker(w)
    PROVE  /\ PartsOK /\ PartsOK' /\ StateKept /\ SeenKept /\ UNCHANGED retries /\ Asking' = Asking
           /\ HeldSleep' = HeldSleep /\ \A n : HeldDue(n)' = HeldDue(n) /\ HeldCast(n)' = HeldCast(n)
<1>1. UNCHANGED << mPc, mEvent, mLeft, cPc, cLeft >>
  BY Frames DEF maintainer, mLoop, clients
<1>2. UNCHANGED << state, retries >>
  BY DEF Worker, runNeuronWorker, setActivated, setInLinksInit, setOutLinksWait, ContinueCast,
         processOk, processError, publishTryCast, status, counts
<1> QED BY <1>1, <1>2, Stays, SeenStays, PartTypes, PartTypesNext DEF StateKept, SeenKept

\* What a worker that moves adds to the counts of its neurons.
LEMMA WorkerMoves ==
    ASSUME NEW w \in Workers, \A v \in Workers \ {w} : wPc'[v] = wPc[v] /\ wNeuron'[v] = wNeuron[v],
           NEW n
    PROVE  /\ Beginning(n) + Count(wNeuron'[w] = n /\ wPc'[w] \in {"activate", "inLinks"})
                = Beginning(n)' + Count(wNeuron[w] = n /\ wPc[w] \in {"activate", "inLinks"})
           /\ Running(n) + Count(wNeuron'[w] = n /\ wPc'[w] \in {"outLinks", "process"})
                = Running(n)' + Count(wNeuron[w] = n /\ wPc[w] \in {"outLinks", "process"})
           /\ Casting(n) + Count(wNeuron'[w] = n /\ wPc'[w] \in {"cast"})
                = Casting(n)' + Count(wNeuron[w] = n /\ wPc[w] \in {"cast"})
<1>1. \A pcs : CountWorkers(n, pcs) + Count(wNeuron'[w] = n /\ wPc'[w] \in pcs)
                 = CountWorkers(n, pcs)' + Count(wNeuron[w] = n /\ wPc[w] \in pcs)
  BY WorkerCounts
<1> QED BY <1>1 DEF Beginning, Running, Casting

\* The worker takes a neuron from the queue, sets it Active or sends TryCast.
LEMMA RefineWorkerPassing ==
    ASSUME TypeOK, TypeOK', NEW w \in Workers,
           runNeuronWorker(w) \/ setActivated(w) \/ publishTryCast(w)
    PROVE  UNCHANGED Promise!vars
<1>1. Worker(w)
  BY DEF Worker
<1>2. /\ PartsOK /\ PartsOK' /\ StateKept /\ SeenKept /\ UNCHANGED retries /\ Asking' = Asking
      /\ HeldSleep' = HeldSleep /\ \A n : HeldDue(n)' = HeldDue(n) /\ HeldCast(n)' = HeldCast(n)
  BY <1>1, WorkerFrame
<1>3. QueuesOK /\ WorkersOK /\ UNCHANGED linkState
  BY DEF TypeOK, runNeuronWorker, setActivated, publishTryCast, status
<1>4. ReadyKept
  BY <1>3, Stays
<1>5. CASE runNeuronWorker(w)
  <2>1. /\ wPc[w] = "idle" /\ wPc'[w] = "activate" /\ wNeuron'[w] = Head(nQueue)
        /\ nQueue # << >> /\ nQueue' = Tail(nQueue) /\ UNCHANGED bQueue
        /\ \A v \in Workers \ {w} : wPc'[v] = wPc[v] /\ wNeuron'[v] = wNeuron[v]
    BY <1>3, <1>5 DEF runNeuronWorker, WorkersOK
  <2>2. ASSUME NEW n
        PROVE  /\ Beginning(n)' = Beginning(n) + Count(Head(nQueue) = n)
               /\ Running(n)' = Running(n) /\ Casting(n)' = Casting(n)
    <3>1. /\ Beginning(n) + Count(wNeuron'[w] = n /\ wPc'[w] \in {"activate", "inLinks"})
                = Beginning(n)' + Count(wNeuron[w] = n /\ wPc[w] \in {"activate", "inLinks"})
          /\ Running(n) + Count(wNeuron'[w] = n /\ wPc'[w] \in {"outLinks", "process"})
                = Running(n)' + Count(wNeuron[w] = n /\ wPc[w] \in {"outLinks", "process"})
          /\ Casting(n) + Count(wNeuron'[w] = n /\ wPc'[w] \in {"cast"})
                = Casting(n)' + Count(wNeuron[w] = n /\ wPc[w] \in {"cast"})
      BY <2>1, WorkerMoves
    <3>2. /\ Beginning(n) \in Nat /\ Running(n) \in Nat /\ Casting(n) \in Nat
          /\ Beginning(n)' \in Nat /\ Running(n)' \in Nat /\ Casting(n)' \in Nat
      BY <1>2 DEF PartsOK
    <3> QED BY <2>1, <3>1, <3>2 DEF Count
  <2>3. \A n : QueuedDue(n) = QueuedDue(n)' + Count(Head(nQueue) = n)
    BY <1>3, <2>1, NeuronQueueCounts
  <2>4. QueuedSleeps' = QueuedSleeps /\ \A n : QueuedCasts(n)' = QueuedCasts(n)
    BY <2>1, Stays
  <2>5. DueKept
    BY <1>2, <2>2, <2>3, Parts, PartsNext DEF PartsOK, DueKept, Count
  <2>6. CastsKept /\ SleepsKept /\ RunsKept
    BY <1>2, <2>2, <2>4, Parts, PartsNext DEF CastsKept, SleepsKept, RunsKept
  <2> QED BY <1>2, <1>4, <2>5, <2>6, MapStutter DEF CountsKept
<1>6. CASE setActivated(w)
  <2>1. /\ wPc[w] = "activate" /\ wPc'[w] = "inLinks" /\ wNeuron' = wNeuron
        /\ UNCHANGED << bQueue, nQueue >>
        /\ \A v \in Workers \ {w} : wPc'[v] = wPc[v] /\ wNeuron'[v] = wNeuron[v]
    BY <1>3, <1>6 DEF setActivated, WorkersOK
  <2>2. \A n : Beginning(n)' = Beginning(n) /\ Running(n)' = Running(n) /\ Casting(n)' = Casting(n)
    BY <1>2, <2>1, WorkerMoves DEF PartsOK, Count
  <2>3. /\ QueuedSleeps' = QueuedSleeps /\ \A n : QueuedCasts(n)' = QueuedCasts(n)
        /\ \A n : QueuedDue(n)' = QueuedDue(n)
    BY <2>1, Stays
  <2>4. DueKept /\ CastsKept /\ SleepsKept /\ RunsKept
    BY <1>2, <2>2, <2>3, Parts, PartsNext DEF DueKept, CastsKept, SleepsKept, RunsKept
  <2> QED BY <1>2, <1>4, <2>4, MapStutter DEF CountsKept
<1>7. CASE publishTryCast(w)
  <2>1. /\ wPc[w] = "cast" /\ wPc'[w] = "idle" /\ wNeuron[w] \in Neurons
        /\ publishEvent(TryCast(wNeuron[w])) /\ UNCHANGED nQueue
        /\ \A v \in Workers \ {w} : wPc'[v] = wPc[v] /\ wNeuron'[v] = wNeuron[v]
    BY <1>3, <1>7 DEF publishTryCast, WorkersOK
  <2>2. \A n : /\ Casting(n) = Casting(n)' + Count(wNeuron[w] = n)
               /\ Running(n)' = Running(n) /\ Beginning(n)' = Beginning(n)
    BY <1>2, <2>1, WorkerMoves DEF PartsOK, Count
  <2>3. /\ QueuedSleeps' = QueuedSleeps
        /\ \A n : QueuedCasts(n)' = QueuedCasts(n) + Count(wNeuron[w] = n)
        /\ \A n : QueuedDue(n)' = QueuedDue(n)
    BY <2>1, SentCounts, Stays
  <2>4. CastsKept
    BY <1>2, <2>2, <2>3, Parts, PartsNext DEF PartsOK, CastsKept, Count
  <2>5. DueKept /\ SleepsKept /\ RunsKept
    BY <1>2, <2>2, <2>3, Parts, PartsNext DEF DueKept, SleepsKept, RunsKept
  <2> QED BY <1>2, <1>4, <2>4, <2>5, MapStutter DEF CountsKept
<1> QED BY <1>5, <1>6, <1>7

\* The in-links are reset: an activation becomes a run.
LEMMA RefineBegin ==
    ASSUME TypeOK, TypeOK', NEW w \in Workers, setInLinksInit(w)
    PROVE  Promise!Next
<1> DEFINE n == wNeuron[w]
<1>1. Worker(w)
  BY DEF Worker
<1>2. /\ PartsOK /\ PartsOK' /\ StateKept /\ SeenKept /\ UNCHANGED retries /\ Asking' = Asking
      /\ HeldSleep' = HeldSleep /\ \A m : HeldDue(m)' = HeldDue(m) /\ HeldCast(m)' = HeldCast(m)
  BY <1>1, WorkerFrame
<1>3. /\ wPc[w] = "inLinks" /\ wPc'[w] = "outLinks" /\ wNeuron' = wNeuron /\ n \in Neurons
      /\ UNCHANGED << bQueue, nQueue >>
      /\ \A v \in Workers \ {w} : wPc'[v] = wPc[v] /\ wNeuron'[v] = wNeuron[v]
  BY DEF TypeOK, WorkersOK, setInLinksInit
<1>4. \A m : /\ Beginning(m) = Beginning(m)' + Count(m = n)
             /\ Running(m)' = Running(m) + Count(m = n) /\ Casting(m)' = Casting(m)
  BY <1>2, <1>3, WorkerMoves DEF PartsOK, Count
<1>5. /\ QueuedSleeps' = QueuedSleeps
      /\ \A m : QueuedCasts(m)' = QueuedCasts(m) /\ QueuedDue(m)' = QueuedDue(m)
  BY <1>3, Stays
<1>6. CastsKept /\ SleepsKept
  BY <1>2, <1>4, <1>5, Parts, PartsNext DEF CastsKept, SleepsKept
<1>7. \A m \in Neurons : DueOf(m) = DueOf(m)' + Count(m = n)
  BY <1>2, <1>4, <1>5, Parts, PartsNext DEF PartsOK, Count
<1>8. ReadyLinks' = ReadyLinks \ InLinks(n)
  BY DEF setInLinksInit, ReadyLinks
<1>9. DueOf(n) > 0
  <2>1. \A m \in Neurons : DueOf(m)' \in Nat
    BY <1>2, CountTypesNext DEF CountsOfNat, due
  <2>2. \E k \in Nat : DueOf(n) = k + 1
    BY <1>3, <1>7, <2>1 DEF Count
  <2> QED BY <2>2
<1> HIDE DEF n
<1>10. Down(n, due, due') /\ Up(n, runs, runs')
  BY <1>2, <1>3, <1>4, <1>7, CountChanges
<1> QED BY <1>2, <1>3, <1>6, <1>8, <1>9, <1>10, MapBegin
\* A worker past its in-links is a run of its neuron.
LEMMA RunIsCounted ==
    ASSUME PartsOK, NEW w \in Workers, wPc[w] \in {"outLinks", "process"}
    PROVE  Running(wNeuron[w]) > 0
<1> DEFINE S == {v \in Workers : wNeuron[v] = wNeuron[w] /\ wPc[v] \in {"outLinks", "process"}}
<1>1. w \in S /\ S \subseteq Workers
  OBVIOUS
<1>2. Running(wNeuron[w]) = Cardinality(S)
  BY DEF Running, CountWorkers
<1> HIDE DEF S
<1>3. IsFiniteSet(S)
  BY <1>1, GoroutinesAssumption, FS_Subset
<1>4. Cardinality(S) \in Nat /\ Cardinality(S) # 0
  BY <1>1, <1>3, FS_EmptySet, FS_CardinalityType
<1> QED BY <1>2, <1>4

\* The out-links are put on Wait: the run takes them back.
LEMMA RefineWithdraw ==
    ASSUME TypeOK, TypeOK', NEW w \in Workers, setOutLinksWait(w)
    PROVE  Promise!Next
<1> DEFINE n == wNeuron[w]
           ls == {l \in Links : l \in OutLinks(n)}
<1>1. Worker(w)
  BY DEF Worker
<1>2. /\ PartsOK /\ PartsOK' /\ StateKept /\ SeenKept /\ UNCHANGED retries /\ Asking' = Asking
      /\ HeldSleep' = HeldSleep /\ \A m : HeldDue(m)' = HeldDue(m) /\ HeldCast(m)' = HeldCast(m)
  BY <1>1, WorkerFrame
<1>3. /\ wPc[w] = "outLinks" /\ wPc'[w] = "process" /\ wNeuron' = wNeuron /\ n \in Neurons
      /\ UNCHANGED << bQueue, nQueue >>
      /\ \A v \in Workers \ {w} : wPc'[v] = wPc[v] /\ wNeuron'[v] = wNeuron[v]
  BY DEF TypeOK, WorkersOK, setOutLinksWait
<1>4. \A m : Beginning(m)' = Beginning(m) /\ Running(m)' = Running(m) /\ Casting(m)' = Casting(m)
  BY <1>2, <1>3, WorkerMoves DEF PartsOK, Count
<1>5. /\ QueuedSleeps' = QueuedSleeps
      /\ \A m : QueuedCasts(m)' = QueuedCasts(m) /\ QueuedDue(m)' = QueuedDue(m)
  BY <1>3, Stays
<1>6. CountsKept /\ SleepsKept
  BY <1>2, <1>4, <1>5, Parts, PartsNext DEF CountsKept, DueKept, RunsKept, CastsKept, SleepsKept
<1>7. ReadyLinks' = ReadyLinks \ ls
  BY DEF setOutLinksWait, ReadyLinks
<1>8. ls \in SUBSET {l \in Links : From[l] = n}
  BY <1>3, GroupEnds
<1>9. Running(n) > 0
  BY <1>2, <1>3, RunIsCounted
<1> HIDE DEF n, ls
<1> QED BY <1>2, <1>3, <1>6, <1>7, <1>8, <1>9, MapWithdraw

\* ContinueCast in a processor: the run owes one more cast.
LEMMA RefineContinue ==
    ASSUME TypeOK, TypeOK', NEW w \in Workers, ContinueCast(w)
    PROVE  Promise!Next
<1> DEFINE n == wNeuron[w]
<1>1. Worker(w)
  BY DEF Worker
<1>2. /\ PartsOK /\ PartsOK' /\ StateKept /\ SeenKept /\ UNCHANGED retries /\ Asking' = Asking
      /\ HeldSleep' = HeldSleep /\ \A m : HeldDue(m)' = HeldDue(m) /\ HeldCast(m)' = HeldCast(m)
  BY <1>1, WorkerFrame
<1>3. /\ wPc[w] = "process" /\ n \in Neurons /\ publishEvent(CastAnyway(n))
      /\ UNCHANGED << linkState, nQueue, workers >>
  BY DEF TypeOK, WorkersOK, ContinueCast, status
<1>4. /\ QueuedSleeps' = QueuedSleeps
      /\ \A m : QueuedCasts(m)' = QueuedCasts(m) + Count(n = m)
  BY <1>3, SentCounts
<1>5. /\ ReadyKept
      /\ \A m : /\ Beginning(m)' = Beginning(m) /\ Running(m)' = Running(m)
                /\ Casting(m)' = Casting(m) /\ QueuedDue(m)' = QueuedDue(m)
  BY <1>3, Stays
<1>6. DueKept /\ RunsKept /\ SleepsKept
  BY <1>2, <1>4, <1>5, Parts, PartsNext DEF DueKept, RunsKept, SleepsKept
<1>7. \A m \in Neurons : CastsOf(m)' = CastsOf(m) + Count(m = n)
  BY <1>2, <1>4, <1>5, Parts, PartsNext DEF PartsOK, Count
<1>8. Running(n) > 0
  BY <1>2, <1>3, RunIsCounted
<1> HIDE DEF n
<1>9. Up(n, casts, casts')
  BY <1>2, <1>3, <1>7, CountChanges
<1> QED BY <1>2, <1>3, <1>5, <1>6, <1>8, <1>9, MapContinue

\* The processor returns: the run is over, and owes a cast unless it failed.
LEMMA RefineFinish ==
    ASSUME TypeOK, TypeOK', NEW w \in Workers, processOk(w) \/ processError(w)
    PROVE  Promise!Next
<1> DEFINE n == wNeuron[w]
<1>1. Worker(w)
  BY DEF Worker
<1>2. /\ PartsOK /\ PartsOK' /\ StateKept /\ SeenKept /\ UNCHANGED retries /\ Asking' = Asking
      /\ HeldSleep' = HeldSleep /\ \A m : HeldDue(m)' = HeldDue(m) /\ HeldCast(m)' = HeldCast(m)
  BY <1>1, WorkerFrame
<1>3. /\ wPc[w] = "process" /\ n \in Neurons
      /\ UNCHANGED << linkState, bQueue, nQueue >>
      /\ \A v \in Workers \ {w} : wPc'[v] = wPc[v] /\ wNeuron'[v] = wNeuron[v]
      /\ \/ wPc'[w] = "cast" /\ wNeuron' = wNeuron
         \/ wPc'[w] = "idle"
  BY DEF TypeOK, WorkersOK, processOk, processError
<1>4. /\ ReadyKept /\ QueuedSleeps' = QueuedSleeps
      /\ \A m : QueuedCasts(m)' = QueuedCasts(m) /\ QueuedDue(m)' = QueuedDue(m)
  BY <1>3, Stays
<1>5. \A m : Beginning(m)' = Beginning(m) /\ Running(m) = Running(m)' + Count(m = n)
  BY <1>2, <1>3, WorkerMoves DEF PartsOK, Count
<1>6. DueKept /\ SleepsKept
  BY <1>2, <1>4, <1>5, Parts, PartsNext DEF DueKept, SleepsKept
<1>7. Running(n) > 0
  BY <1>2, <1>3, RunIsCounted
<1>8. Down(n, runs, runs')
  <2> HIDE DEF n
  <2> QED BY <1>2, <1>3, <1>5, CountChanges
<1>9. CASE wPc'[w] = "cast" /\ wNeuron' = wNeuron
  <2>1. \A m : Casting(m)' = Casting(m) + Count(m = n)
    BY <1>2, <1>3, <1>9, WorkerMoves DEF PartsOK, Count
  <2> HIDE DEF n
  <2>2. ASSUME NEW m \in Neurons PROVE CastsOf(m)' = CastsOf(m) + Count(m = n)
    <3>1. /\ CastsOf(m) = QueuedCasts(m) + HeldCast(m) + Casting(m) + retries[m]
          /\ CastsOf(m)' = QueuedCasts(m) + HeldCast(m) + (Casting(m) + Count(m = n)) + retries[m]
      BY <1>2, <1>4, <2>1, Parts, PartsNext
    <3>2. /\ QueuedCasts(m) \in Nat /\ HeldCast(m) \in Nat /\ Casting(m) \in Nat
          /\ retries[m] \in Nat /\ Count(m = n) \in Nat
      BY <1>2 DEF PartsOK, Count
    <3> QED BY <3>1, <3>2
  <2>3. Up(n, casts, casts')
    BY <1>2, <1>3, <2>2, CountChanges
  <2> QED BY <1>2, <1>3, <1>4, <1>6, <1>7, <1>8, <2>3, MapFinish
<1>10. CASE wPc'[w] = "idle"
  <2>1. \A m : Casting(m)' = Casting(m)
    BY <1>2, <1>3, <1>10, WorkerMoves DEF PartsOK, Count
  <2>2. CastsKept
    BY <1>2, <1>4, <2>1, Parts, PartsNext DEF CastsKept
  <2> HIDE DEF n
  <2> QED BY <1>2, <1>3, <1>4, <1>6, <1>7, <1>8, <2>2, MapFinish
<1> QED BY <1>3, <1>9, <1>10

\* Every step of a worker.
LEMMA RefineWorker ==
    ASSUME TypeOK, TypeOK', NEW w \in Workers, Worker(w)
    PROVE  Promise!Next \/ UNCHANGED Promise!vars
BY RefineWorkerPassing, RefineBegin, RefineWithdraw, RefineContinue, RefineFinish DEF Worker

\* A retry goroutine passes its cast back to the queue.
LEMMA RefineRetry ==
    ASSUME TypeOK, TypeOK', NEW n \in Neurons, RetryCast(n)
    PROVE  UNCHANGED Promise!vars
<1>1. PartsOK /\ PartsOK'
  BY PartTypes, PartTypesNext
<1>2. /\ UNCHANGED << linkState, state, nQueue, mPc, mEvent, mLeft, workers, cPc, cLeft >>
      /\ publishEvent(CastAnyway(n)) /\ retries' = [retries EXCEPT ![n] = @ - 1]
  BY DEF RetryCast, status, maintainer, mLoop, clients
<1>3. /\ QueuedSleeps' = QueuedSleeps
      /\ \A m : QueuedCasts(m)' = QueuedCasts(m) + Count(n = m)
  BY <1>2, SentCounts
<1>4. /\ ReadyKept /\ HeldSleep' = HeldSleep /\ Asking' = Asking
      /\ \A m : /\ Beginning(m)' = Beginning(m) /\ Running(m)' = Running(m)
                /\ Casting(m)' = Casting(m) /\ QueuedDue(m)' = QueuedDue(m)
                /\ HeldDue(m)' = HeldDue(m) /\ HeldCast(m)' = HeldCast(m)
  BY <1>2, Stays
<1>5. DueKept /\ RunsKept /\ SleepsKept /\ StateKept /\ SeenKept
  BY <1>2, <1>3, <1>4, Parts, PartsNext, SeenStays
  DEF DueKept, RunsKept, SleepsKept, StateKept, SeenKept
<1>6. \A m \in Neurons : retries[m] = retries'[m] + Count(n = m)
  <2>1. retries \in [Neurons -> Int]
    BY BoundsAssumption DEF TypeOK, CountsOK
  <2> QED BY <1>2, <2>1 DEF Count
<1>7. CastsKept
  BY <1>1, <1>3, <1>4, <1>6, Parts, PartsNext DEF PartsOK, CastsKept, Count
<1> QED BY <1>4, <1>5, <1>7, MapStutter DEF CountsKept
-----------------------------------------------------------------------------
(* Steps of the clients.                                                    *)

\* A client adds no activation, run or cast.
LEMMA ClientFrame ==
    ASSUME TypeOK, TypeOK', NEW c \in Clients, Client(c)
    PROVE  /\ PartsOK /\ PartsOK' /\ DueKept /\ RunsKept /\ HeldSleep' = HeldSleep
           /\ UNCHANGED << mPc, mLeft >> /\ TestKept
           /\ (\A n : QueuedCasts(n)' = QueuedCasts(n)) => CastsKept
<1>1. UNCHANGED << nQueue, mPc, mEvent, mLeft, workers >>
  BY Frames DEF maintainer, mLoop
<1>2. UNCHANGED retries
  BY DEF Client, ClientStep, trigLinks, trigLink, trigLinkRead, trigLinkWrite, trigLinkSend,
    clientCountNeurons, clientCountLinks, ClientScans, clientSetRunning, clientPublishSleep,
    callWait, waitReturns, counts
<1>3. /\ HeldSleep' = HeldSleep
      /\ \A m : /\ Beginning(m)' = Beginning(m) /\ Running(m)' = Running(m)
                /\ Casting(m)' = Casting(m) /\ QueuedDue(m)' = QueuedDue(m)
                /\ HeldDue(m)' = HeldDue(m) /\ HeldCast(m)' = HeldCast(m)
  BY <1>1, Stays
<1>4. DueKept /\ RunsKept
  BY <1>3, Parts, PartsNext DEF DueKept, RunsKept
<1>5. (\A n : QueuedCasts(n)' = QueuedCasts(n)) => CastsKept
  BY <1>2, <1>3, Parts, PartsNext DEF CastsKept
<1> QED BY <1>1, <1>3, <1>4, <1>5, PartTypes, PartTypesNext, SeenStays

\* Before and after its count of the links a client has all of them unseen.
LEMMA ClientSees ==
    ASSUME TypeOK, TypeOK', NEW c \in Clients, Client(c),
           \A d \in Clients \ {c} : cPc'[d] = cPc[d] /\ cLeft'[d] = cLeft[d],
           cPc[c] = "countLinks" => UNCHANGED << cPc, cLeft >>,
           cPc[c] # "countLinks" /\ cPc'[c] = "countLinks" => cLeft'[c] = Links
    PROVE  SeenKept
<1>1. UNCHANGED << mPc, mLeft >> /\ TestKept
  BY ClientFrame
<1>2. CASE UNCHANGED << cPc, cLeft >>
  BY <1>1, <1>2, SeenStays DEF SeenKept
<1>3. CASE cPc[c] # "countLinks"
  <2>1. unseen' = [unseen EXCEPT ![c] = Links]
    BY <1>1, <1>3, OneSees
  <2>2. unseen[c] = Links /\ unseen = [unseen EXCEPT ![c] = unseen[c]]
    BY <1>3 DEF unseen
  <2> QED BY <1>1, <2>1, <2>2 DEF SeenKept, UnseenKept
<1> QED BY <1>2, <1>3

\* Steps that change only where the client is, or send LinkReady.
LEMMA RefineClientPassing ==
    ASSUME TypeOK, TypeOK', NEW c \in Clients,
           \/ \E ls \in Calls : trigLinks(c, ls)
           \/ \E l \in Links : trigLinkRead(c, l) \/ trigLinkSend(c, l)
           \/ clientCountNeurons(c) \/ callWait(c) \/ waitReturns(c)
    PROVE  UNCHANGED Promise!vars
<1>1. Client(c)
  BY DEF Client, ClientStep, trigLink
<1>2. /\ UNCHANGED << linkState, state >>
      /\ \A d \in Clients \ {c} : cPc'[d] = cPc[d] /\ cLeft'[d] = cLeft[d]
      /\ \/ /\ cPc[c] \notin {"sleep", "countLinks"} /\ cPc'[c] # "sleep"
            /\ cPc'[c] = "countLinks" => cLeft'[c] = Links
         \/ UNCHANGED << cPc, cLeft >>
  BY DEF trigLinks, trigLinkRead, trigLinkSend, clientCountNeurons, ClientScans, callWait,
         waitReturns, status, TypeOK, ClientsOK
<1>3. PartsOK /\ PartsOK' /\ DueKept /\ RunsKept /\ HeldSleep' = HeldSleep
  BY <1>1, ClientFrame
<1>4. Asking' = Asking
  <2>1. CASE cPc' = cPc
    BY <2>1, Stays
  <2>2. CASE cPc[c] # "sleep" /\ cPc'[c] # "sleep"
    BY <1>2, <2>2, AskingSame
  <2> QED BY <1>2, <2>1, <2>2
<1>5. QueuedSleeps' = QueuedSleeps /\ \A n : QueuedCasts(n)' = QueuedCasts(n)
  <2>1. CASE UNCHANGED bQueue
    BY <2>1, Stays
  <2>2. CASE \E l \in Links : trigLinkSend(c, l)
    BY <2>2, SentCounts DEF trigLinkSend
  <2> QED BY <2>1, <2>2 DEF trigLinks, trigLinkRead, clientCountNeurons, callWait, waitReturns
<1>6. CastsKept /\ SleepsKept
  BY <1>1, <1>3, <1>4, <1>5, ClientFrame, Parts, PartsNext DEF SleepsKept
<1>7. ReadyKept /\ StateKept /\ SeenKept
  BY <1>1, <1>2, Stays, ClientSees DEF StateKept
<1> QED BY <1>3, <1>6, <1>7, MapStutter DEF CountsKept

\* A trigLink goroutine sets a link of its call Ready.
LEMMA RefineTrigger ==
    ASSUME TypeOK, TypeOK', CalledLinks, NEW c \in Clients, NEW l \in Links, trigLinkWrite(c, l)
    PROVE  Promise!Next
<1>1. Client(c)
  BY DEF Client, trigLink
<1>2. /\ linkState' = [linkState EXCEPT ![l] = "Ready"] /\ cTrig[c][l] = "write"
      /\ UNCHANGED << state, bQueue, cPc, cLeft >>
  BY DEF trigLinkWrite
<1>3. DueKept /\ RunsKept /\ HeldSleep' = HeldSleep /\ SeenKept
  BY <1>1, <1>2, ClientFrame, ClientSees
<1>4. Asking' = Asking /\ QueuedSleeps' = QueuedSleeps /\ \A n : QueuedCasts(n)' = QueuedCasts(n)
  BY <1>2, Stays
<1>5. CastsKept /\ SleepsKept
  BY <1>1, <1>3, <1>4, ClientFrame, Parts, PartsNext DEF SleepsKept
<1>6. ReadyLinks' = ReadyLinks \cup {l}
  BY <1>2 DEF ReadyLinks, TypeOK, StatusOK
<1>7. l \in UNION Calls
  BY <1>2 DEF CalledLinks
<1> QED BY <1>2, <1>3, <1>5, <1>6, <1>7, MapTrigger DEF CountsKept, StateKept

\* refreshState in a client: links are seen idle, one is not and the count is
\* given up, or all have been and the brain is asked to sleep; the request is
\* sent, or the brain is set Running.
LEMMA RefineClientRefresh ==
    ASSUME TypeOK, TypeOK', NEW c \in Clients,
           clientCountLinks(c) \/ clientSetRunning(c) \/ clientPublishSleep(c)
    PROVE  Promise!Next \/ UNCHANGED Promise!vars
<1>1. Client(c)
  BY DEF Client, ClientStep
<1>2. /\ PartsOK /\ PartsOK' /\ DueKept /\ RunsKept /\ HeldSleep' = HeldSleep
      /\ UNCHANGED << mPc, mLeft >> /\ TestKept
  BY <1>1, ClientFrame
<1>3. /\ UNCHANGED linkState
      /\ \A d \in Clients \ {c} : cPc'[d] = cPc[d] /\ cLeft'[d] = cLeft[d]
  BY DEF clientCountLinks, ClientScans, clientSetRunning, clientPublishSleep, status, TypeOK,
    ClientsOK
<1>4. ReadyKept
  BY <1>3, Stays
<1>5. Asking \in Nat /\ Asking' \in Nat /\ QueuedSleeps \in Nat /\ HeldSleep \in Nat
  BY <1>2 DEF PartsOK
<1>6. CASE clientCountLinks(c)
  <2>1. /\ cPc[c] = "countLinks" /\ cLeft[c] \subseteq Links /\ UNCHANGED << state, bQueue >>
        /\ \/ cPc'[c] = "setRunning"
           \/ cPc'[c] = "countLinks" /\ cLeft'[c] = cLeft[c] \cap StandByLinks
           \/ cPc'[c] = "sleep" /\ cLeft[c] \cap StandByLinks = {}
    BY <1>6 DEF clientCountLinks, ClientScans, status, TypeOK, ClientsOK
  <2>2. QueuedSleeps' = QueuedSleeps /\ \A n : QueuedCasts(n)' = QueuedCasts(n)
    BY <2>1, Stays
  <2>3. CountsKept /\ StateKept
    BY <1>1, <1>2, <2>1, <2>2, ClientFrame DEF CountsKept, StateKept
  <2>4. /\ unseen' = [unseen EXCEPT ![c] = IF cPc'[c] = "countLinks" THEN cLeft'[c] ELSE Links]
        /\ unseen[c] = cLeft[c]
    BY <1>2, <1>3, <2>1, OneSees DEF unseen
  <2>5. CASE cPc'[c] # "sleep"
    <3>1. Asking' = Asking
      BY <1>3, <2>1, <2>5, AskingSame
    <3>2. SleepsKept
      BY <1>2, <2>2, <3>1, Parts, PartsNext DEF SleepsKept
    <3>3. CASE cPc'[c] = "setRunning"
      BY <1>2, <1>4, <2>3, <2>4, <3>2, <3>3, MapDesist
    <3>4. CASE cPc'[c] = "countLinks" /\ cLeft'[c] = cLeft[c] \cap StandByLinks
      <4> DEFINE ls == Links \ StandByLinks
      <4>1. ls \in SUBSET (Links \ ReadyLinks) /\ cLeft'[c] = cLeft[c] \ ls
        BY <2>1, <3>4 DEF StandByLinks, ReadyLinks
      <4>2. unseen' = [unseen EXCEPT ![c] = @ \ ls]
        BY <2>4, <3>4, <4>1
      <4> HIDE DEF ls
      <4> QED BY <1>2, <1>4, <2>3, <3>2, <4>1, <4>2, MapSeeIdle
    <3> QED BY <2>1, <2>5, <3>3, <3>4
  <2>6. CASE cPc'[c] = "sleep"
    <3>1. Asking' = Asking + 1
      BY <1>3, <2>1, <2>6, AskingCounts
    <3>2. SleepsAsked' = SleepsAsked + 1
      BY <1>2, <1>5, <2>2, <3>1, Parts, PartsNext
    <3>3. cLeft[c] \cap ReadyLinks = {}
      BY <2>1, <2>6 DEF StandByLinks, ReadyLinks
    <3> QED BY <1>2, <1>4, <2>3, <2>4, <2>6, <3>2, <3>3, MapAskSleep
  <2> QED BY <2>5, <2>6
<1>7. CASE clientSetRunning(c)
  <2>1. /\ cPc[c] = "setRunning" /\ cPc'[c] = "idle" /\ state' = "Running" /\ UNCHANGED bQueue
    BY <1>7 DEF clientSetRunning, TypeOK, ClientsOK
  <2>2. QueuedSleeps' = QueuedSleeps /\ \A n : QueuedCasts(n)' = QueuedCasts(n)
    BY <2>1, Stays
  <2>3. Asking' = Asking
    BY <1>3, <2>1, AskingSame
  <2>4. CountsKept /\ SleepsKept /\ SeenKept
    BY <1>1, <1>2, <1>3, <2>1, <2>2, <2>3, ClientFrame, ClientSees, Parts, PartsNext
    DEF CountsKept, SleepsKept
  <2> QED BY <1>4, <2>1, <2>4, MapWake
<1>8. CASE clientPublishSleep(c)
  <2>1. /\ cPc[c] = "sleep" /\ cPc'[c] = "idle" /\ UNCHANGED state /\ publishEvent(BrainSleep)
    BY <1>8 DEF clientPublishSleep, status, TypeOK, ClientsOK
  <2>2. QueuedSleeps' = QueuedSleeps + 1 /\ \A n : QueuedCasts(n)' = QueuedCasts(n)
    BY <2>1, SentCounts
  <2>3. Asking = Asking' + 1
    BY <1>3, <2>1, AskingCounts
  <2>4. SleepsKept
    BY <1>2, <1>5, <2>2, <2>3, Parts, PartsNext DEF SleepsKept
  <2>5. CountsKept /\ StateKept /\ SeenKept
    BY <1>1, <1>2, <1>3, <2>1, <2>2, ClientFrame, ClientSees DEF CountsKept, StateKept
  <2> QED BY <1>4, <2>4, <2>5, MapStutter
<1> QED BY <1>6, <1>7, <1>8

\* Every step of a client.
LEMMA RefineClient ==
    ASSUME TypeOK, TypeOK', CalledLinks, NEW c \in Clients, Client(c)
    PROVE  Promise!Next \/ UNCHANGED Promise!vars
<1>1. ASSUME NEW l \in Links, trigLink(c, l) PROVE Promise!Next \/ UNCHANGED Promise!vars
  BY <1>1, RefineTrigger, RefineClientPassing DEF trigLink
<1>2. CASE ClientStep(c)
  BY <1>2, RefineClientPassing, RefineClientRefresh DEF ClientStep
<1> QED BY <1>1, <1>2, RefineClientPassing DEF Client
-----------------------------------------------------------------------------
(* The refinement.                                                          *)

\* Nothing is ready, due, running, owed or asked for at the start.
LEMMA RefineInit == Init => Promise!Init
<1> SUFFICES ASSUME Init PROVE Promise!Init
  OBVIOUS
<1>1. TypeOK
  BY TypeInit
<1>2. /\ linkState = [l \in Links |-> "Init"] /\ state = "Sleeping" /\ bQueue = << >>
      /\ nQueue = << >> /\ mPc = "idle" /\ mEvent.action = "none"
      /\ \A w \in Workers : wPc[w] = "idle"
      /\ \A c \in Clients : cPc[c] = "idle"
      /\ \A n \in Neurons : retries[n] = 0
  BY EventTypes DEF Init
<1>3. \A S : Positions(<< >>, S) = {}
  BY DEF Positions
<1>4. QueuedSleeps = 0 /\ \A n : QueuedDue(n) = 0 /\ QueuedCasts(n) = 0
  BY <1>2, <1>3, FS_EmptySet DEF QueuedSleeps, QueuedDue, QueuedCasts
<1>5. HeldSleep = 0 /\ \A n : HeldDue(n) = 0 /\ HeldCast(n) = 0
  BY <1>1, <1>2, HeldNow DEF HeldFacts
<1>6. Asking = 0
  <2>1. {c \in Clients : cPc[c] = "sleep"} = {}
    BY <1>2
  <2> QED BY <2>1, FS_EmptySet DEF Asking
<1>7. \A n : Beginning(n) = 0 /\ Running(n) = 0 /\ Casting(n) = 0
  <2>1. \A n : /\ {w \in Workers : wNeuron[w] = n /\ wPc[w] \in {"activate", "inLinks"}} = {}
               /\ {w \in Workers : wNeuron[w] = n /\ wPc[w] \in {"outLinks", "process"}} = {}
               /\ {w \in Workers : wNeuron[w] = n /\ wPc[w] \in {"cast"}} = {}
    BY <1>2
  <2> QED BY <2>1, FS_EmptySet DEF Beginning, Running, Casting, CountWorkers
<1>8. SleepsAsked = 0 /\ \A n \in Neurons : DueOf(n) = 0 /\ CastsOf(n) = 0
  BY <1>2, <1>4, <1>5, <1>6, <1>7, Parts
<1>9. ReadyLinks = {} /\ state # "Running"
  BY <1>2 DEF ReadyLinks
<1>10. tested = {} /\ missing = {} /\ unseen = [o \in Clients \cup {"maintainer"} |-> Links]
  BY <1>2 DEF tested, missing, unseen
<1> QED BY <1>7, <1>8, <1>9, <1>10 DEF Promise!Init, ReadyLinks, Running, tested, missing, unseen

\* Every step of the engine is a step of Brain, or changes nothing Brain sees.
LEMMA RefineStep ==
    TypeOK /\ TypeOK' /\ CalledLinks /\ GroupRuns /\ [Next]_vars => [Promise!Next]_(Promise!vars)
<1> SUFFICES ASSUME TypeOK, TypeOK', CalledLinks, GroupRuns, [Next]_vars
             PROVE  Promise!Next \/ UNCHANGED Promise!vars
  OBVIOUS
<1>1. CASE UNCHANGED vars
  BY <1>1 DEF vars, status, counts, maintainer, mLoop, workers, clients, Promise!vars,
    Promise!seen, DueOf, CastsOf, SleepsAsked, CountWorkers, Positions, ReadyLinks
<1>2. CASE Next
  BY <1>2, RefineMaintainer, RefineWorker, RefineRetry, RefineClient DEF Next
<1> QED BY <1>1, <1>2

\* Who writes the state of the brain: only ForceSleep writes Sleeping.
LEMMA StateWriters ==
    ASSUME [Next]_vars
    PROVE  state' \in {state, "Running"} \/ forceSleepState
<1>1. CASE Maintainer
  BY <1>1 DEF Maintainer, runBrainMaintainer, handleLinkReady, tryActivateNeuron, shouldActivate,
    testGroup, publishEnd, enqueueNeuron, neuronCast, castSelected, castWrite, castSend,
    castUnselected, castRest, castReset, countNeurons, countLinks, setRunning, publishSleep,
    forceSleepLinks, forceSleepNeurons, status
<1>2. ASSUME NEW w \in Workers, Worker(w) PROVE UNCHANGED state
  BY <1>2 DEF Worker, runNeuronWorker, setActivated, setInLinksInit, setOutLinksWait, ContinueCast,
    processOk, processError, publishTryCast, status
<1>3. ASSUME NEW n \in Neurons, RetryCast(n) PROVE UNCHANGED state
  BY <1>3 DEF RetryCast, status
<1>4. ASSUME NEW c \in Clients, Client(c) PROVE state' \in {state, "Running"}
  BY <1>4 DEF Client, ClientStep, trigLinks, trigLink, trigLinkRead, trigLinkWrite, trigLinkSend,
    clientCountNeurons, clientCountLinks, clientSetRunning, clientPublishSleep, callWait,
    waitReturns, status
<1>5. CASE UNCHANGED vars
  BY <1>5 DEF vars, status
<1> QED BY <1>1, <1>2, <1>3, <1>4, <1>5 DEF Next

\* The brain stays Running while trigger groups are tested.
LEMMA GroupRunsStep == TypeOK /\ GroupRuns /\ [Next]_vars => GroupRuns'
<1> SUFFICES ASSUME TypeOK, GroupRuns, [Next]_vars, mPc' = "group" PROVE state' = "Running"
  BY DEF GroupRuns
<1>1. CASE shouldActivate
  BY <1>1 DEF shouldActivate, NextGroup, HandlerDone, status
<1>2. CASE testGroup
  BY <1>2 DEF testGroup, GroupRuns, status
<1>3. CASE mPc = "group" /\ UNCHANGED maintainer
  <2>1. ~forceSleepState
    BY <1>3 DEF forceSleepState
  <2>2. state' \in {state, "Running"}
    BY <1>3, <2>1, StateWriters
  <2> QED BY <1>3, <2>2 DEF GroupRuns
<1> QED BY <1>1, <1>2, <1>3, PcStep

\* The engine of BrainLocal implements Brain for every topology, any number of
\* workers and clients and any length of the queues: a neuron is activated for a
\* trigger group whose links were all seen Ready, one after the other, in one
\* test; no activation, run or cast is lost, doubled or made up on its way
\* through queues and goroutines; and links are reset only on the request of a
\* goroutine that saw every link idle in one count, or a group of END Ready.
THEOREM EngineImplementsBrain == Spec => ImplementsBrain
<1>1. Init => CalledLinks /\ GroupRuns
  BY DEF Init, CalledLinks, GroupRuns
<1>2. TypeOK /\ CalledLinks /\ [Next]_vars => CalledLinks'
  BY CalledLinksStep
<1> QED BY <1>1, <1>2, RefineInit, RefineStep, GroupRunsStep, TypeCorrect, PTL
        DEF Spec, ImplementsBrain, Promise!Spec

=============================================================================
