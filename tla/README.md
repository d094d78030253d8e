# A TLA+ model of rModel

rModel runs a *brain*: a graph of *neurons* (units of user code) and *links*
between them. A program draws a *blueprint*, builds a brain from it, triggers its
entry links and waits until the brain sleeps; the neurons share a *memory*. The
modules here model the blueprint, the engine that runs a brain, its start and
shutdown, and the memories of BrainLocal and BrainLite; they check them with TLC on
small instances, and prove their safety properties, and that the engine and the
memories implement their abstract specifications, with TLAPS for every topology and
every number of goroutines.

Source paths are relative to the repository root, as `src/...`.

## 1. The system

| Component | State it keeps | Operations | Module |
|---|---|---|---|
| Blueprint, neurons, links (`src/brainprint.go`, `src/neuron.go`, `src/link.go`) | neurons, links with their ends, a neuron's trigger groups (sets of in-links) and cast groups (named sets of out-links) | NewBlueprint, AddNeuron, AddLink, AddEntryLinkTo, AddEndLinkFrom, AddTriggerGroup, AddCastGroup, Clone | `Blueprint` |
| Engine of BrainLocal (`src/brainlocal/maintain.go`, `neuron_runner.go`, `event.go`, `brain_context.go`, `brain_local.go`) | status of each link (Init, Wait, Ready) and neuron (Inactive, Active), state of the brain, event queue `bQueue`, neuron queue `nQueue` | maintainer: one handler per event; worker: activateNeuron; clients: TrigLinks, Entry, Wait; processors: ContinueCast | `Brain`, `BrainLocal` |
| Engine of BrainLite (`src/brainlite/maintain.go`, `neuron_runner.go`, ...) | the same | the same: the files are those of BrainLocal with another receiver type | `Lifecycle`; read `BrainLocal` |
| Lifecycle of both (`ensureMaintainerStart`, `maintainerStart`, `Shutdown`) | the state Shutdown, the queues that `b.bQueue` and `b.nQueue` name, the goroutines of each start | start on first use, stop, start again | `Lifecycle` |
| Memory of BrainLite (`src/brainlite/memory.go`) | the handle `m.db`, the database file and its table | SetMemory, GetMemory, ExistMemory, DeleteMemory, ClearMemory, and Close in Shutdown | `Memory`, `LiteMemory` |
| Memory of BrainLocal (`src/brainlocal/brain_local.go`) | the pointer `b.cache` and the ristretto cache | the same | `Memory`, `LocalMemory` |
| Processors, selectors (`src/processor`) | none of their own | user code: process, select a cast group | constants of `BrainLocal` |
| Options, labels, error values, core interfaces, Python processors | configuration | setters, texts, I/O | not modelled |

How the parts interact. A client's `trigLinks` starts one goroutine per link, which
sets the link Ready and sends `link_ready` to `bQueue`. The one maintainer goroutine
takes events from `bQueue`: `link_ready` becomes `try_activate_neuron` for the link's
destination; that tests the neuron's trigger groups and, if one is complete, puts the
neuron into `nQueue` (or, for END, sends `brain_sleep`). A worker takes the neuron,
sets it Active, its in-links Init and its out-links Wait, calls the processor, sets it
Inactive and sends `try_cast`; the maintainer then asks the selector for a cast group
and sets its links Ready, each with a `link_ready`. After every link and neuron event,
and at the end of `trigLinks` in the client's goroutine, `refreshState` counts the busy
neurons and links and either writes Running or sends `brain_sleep`, on which `ForceSleep`
resets everything and writes Sleeping.

What is hard about it. All goroutines read and write the link and neuron status words
without a lock; `refreshState` takes two counts, word by word, while they change, and
`ifNeuronShouldActivate` and `neuronCast` scan links in the same way; the maintainer sends to
the queue it alone receives from; events are handled long after the state they were sent
for; a neuron can be queued or run twice; a processor can fail; `ContinueCast` casts in
the middle of a run and retries from yet another goroutine; `Shutdown` closes queues that
other goroutines are about to send on; in the memories the handle is tested in one step
and used in another. `PROJECT.json` lists each hazard at its line.

What makes each component correct:

- engine: a neuron starts only after all links of a trigger group were supplied; no
  neuron stays Active and no link on Wait with nobody to finish it; a Ready link is not
  silently withdrawn; a complete trigger group is acted on; the brain says Sleeping
  exactly when nothing is busy; whatever was started drains; END puts the brain to sleep;
- blueprint: grouping loses no link and adopts no foreign one, no trigger group contains
  another, both ends of a link exist. These are the assumptions `BrainLocal` makes;
- lifecycle: nobody sends on a closed queue or closes one twice; the state says whether
  the queues are open; one maintainer is at work; a start does not see what the last
  one left; the goroutines of a brain that was shut down end;
- memory: a map changed only by the calls of the program, until Shutdown; Shutdown
  leaves nothing behind; a nil handle is not used.

## 2. Modules

`BrainLocal` — the engine of a started brain. Variables are the code's fields
(`linkState` is `link.status.state`, `neuronState` is `neuron.status.state`, `state` is
`b.state`, the queues) and the local state of each goroutine: `mPc`, `mEvent`, `mGroup`,
`mIdx`, `mTodo`, `mLeft` for the maintainer, `wPc`, `wNeuron` per worker, `cPc`, `cLeft` per
client, `cTrig` per client and link for the goroutines of `trigLinks`, `retries` for the
sleeping retries of `neuronCast`. Actions carry the names of the functions; a function
that reads shared state, and later acts on what it read, is several actions. `succeeded`
and `failed` are the neurons' counters as far as a property looks at them.

| Code | Actions |
|---|---|
| `runBrainMaintainer`, `maintain` | `runBrainMaintainer`, `HandlerDone` |
| `handleLinkEvent` | `handleLinkReady` |
| `tryActivateNeuron`, `ifNeuronShouldActivate` | `tryActivateNeuron`, `shouldActivate`, `testGroup`, `publishEnd`, `enqueueNeuron` |
| `neuronCast` | `neuronCast`, `castSelected`, `castWrite`, `castSend`, `castUnselected`, `castRest`, `castReset`, `RetryCast` |
| `refreshState` | `countNeurons`, `countLinks`, `setRunning`, `publishSleep`; in a client `clientCountNeurons`, `clientCountLinks`, `clientSetRunning`, `clientPublishSleep` |
| `ForceSleep` | `forceSleepLinks`, `forceSleepNeurons`, `forceSleepState` |
| `runNeuronWorker`, `activateNeuron` | `runNeuronWorker`, `setActivated`, `setInLinksInit`, `setOutLinksWait`, `processOk`, `processError`, `publishTryCast` |
| `ContinueCast` | `ContinueCast` |
| `trigLinks`, `trigLink`, `Wait` | `trigLinks`, `trigLinkRead`, `trigLinkWrite`, `trigLinkSend`, `callWait`, `waitReturns` |

Scans. A loop that reads status words is not one step, since others write them meanwhile.
`mLeft` (`cLeft` in a client) is what the loop has still to read; a step reads any of it
that tells it nothing (a link that is Init, for a count; one that is Ready, for the test
of a trigger group), ends the loop at a word that decides it, or ends it when nothing is
left. A step that reads all such words loses no outcome: a scan that should meet one of
them changed is the scan that takes no step yet. `ScansOn` is the case that some words are
passed and others not. A count goes on after a first busy word in the code, which cannot
change what `refreshState` does. The order of a scan is any order: the counts and the loops
over groups range over maps, and the links of a trigger group come in the order in which
the program listed them. `mTodo` holds the trigger groups still to test, and in the
last loop of `neuronCast` the visits still to make, one per group and link; `castRest` is
the test for Wait, `castReset` the write of Init that follows it.

Other abstractions. A loop that only writes one constant (`ForceSleep`, the in-links and
out-links of `activateNeuron`, the Waits of `cast_anyway`) is one step. A send is a step that waits for room in the queue; goroutines blocked on the same queue
may go on in any order. A status word is written whole. The retry of `cast_anyway` fires
at any time after it was started, and a neuron's sleeping retries are counted up to
`MaxRetries`. The events `link_init`, `link_wait`, `try_inactive_neuron` and
`brain_shutdown` are never sent by the code and are left out. `ForceSleep` is modelled as
the maintainer calls it. Processors are constants: `Faulty` may return errors,
`Streamers` may call ContinueCast, `Selections` says what a selector may choose; an unknown
group name selects no link. `Waiters` are the clients that call Wait.

`Brain` — what the engine promises, with no goroutines: the links that are `ready`, and
per neuron the activations that are `due`, the `runs` and the `casts` that are owed, as
counters; requests to sleep, and whether the brain says Running. A neuron is activated
after one test has seen every link of a trigger group ready, each activation becomes one run
that takes the in-links, each successful run owes one cast, only a cast that is owed or a
call makes a link ready, and the links are reset only on the request of an observer (the
maintainer or a client) that has seen every link idle, or with END triggered. What is seen
is seen at different moments: `missing` is what a test, `unseen` what an observer has still
to see. The stronger promise, a request only at a moment at which no link is ready, is not
kept: a count can pass over `eb` while `ea` is Ready, a client then sets `eb` Ready, a run
takes `ea`, and the count finds `ea` idle; likewise a group can be seen complete that is
complete at no moment. `BrainLocal` implements it (`ImplementsBrain`) by counting an activation
wherever it is (in the maintainer's hand, in `nQueue`, at a worker that has not reset the
in-links), a cast likewise (worker, `bQueue`, maintainer, retry).

`Lifecycle` — starting and stopping, from the copy of the engine in `src/brainlite`. Each
start makes a new `bQueue`, `nQueue`, workers and maintainer; `bQueue` and `nQueue` are
the numbers of the queues the brain's fields name, `bBuf` and `nBuf` what every queue
ever made holds, `chan` the queue a goroutine ranges over, read when it first runs.
`publishEvent` and `publishSend` are the test and the send, in whatever goroutine; the
same for `publishEventActivateNeuron` and `sendNeuron`. A send on a closed queue and a
close of a nil or closed one set `panicked`. `Shutdown` is `callShutdown`, `closeQueues`,
`setShutdown`; the start is `ensureMaintainerStart`, `maintainerStart`, `makeNQueue`,
`makeBQueue`, `maintainerStarted`. The brain is one entry link to one neuron, and a
handler is one step up to its send. `use` is a history variable that classifies the
program: *quiet* if every Shutdown came when all events were handled and no processor
ran and no start overlapped another call, *waited* if a Shutdown came when the brain
said Sleeping and no other call was under way (what a program knows after Wait), *rough*
otherwise.

`Blueprint` — one blueprint under construction; each call is one action, `panicked` is
the write to the nil `castGroups` map of END (`newEndNeuron` makes none). The map
iteration in `AddTriggerGroup` may meet the groups in any order.

`Memory` — what a brain's memory promises: a map changed only by calls, one key at a
time in the order of the call's arguments, a failing call keeping what it has changed.
Where the promise ends (`shut`) nothing is said of the contents any more; each
implementation says when: Shutdown for both, and for BrainLocal also a second cache and
the limit.

`LiteMemory` — BrainLite's memory over SQLite. `db` is the pointer `m.db` (nil, open, or
closed and not yet nil), `connected`, `onDisk`, `table` and `rows` are the database as
the handle sees it. `ensureMemoryInit`, `InitOpen` and `InitCreate` are the three steps
of the first use, `Exec` one round of SetMemory's loop or the body of Del or Clear, `Get`
the query; `Shutdown`, `CloseHandle`, `DropHandle`, `RemoveFile` are Shutdown and Close.
A value is stored as JSON with a type word and read back by it; `ReadBack` says what
comes of each value (an int32 comes back as an int). `Printed` is the text that `hashKey`
hashes; the map it implements is keyed by that text, so that the keys `1` and `"1"` are
one key, and keys that print differently never meet. SQLite and database/sql are external. One simplification: when the file of a
connected handle is removed, the handle goes on with its contents; a pool that opens a
second connection afterwards would see an empty file. This concerns only calls that
open the memory again while Shutdown is between `m.db = nil` and `os.Remove`.

`LocalMemory` — BrainLocal's memory over ristretto. `cache` is the pointer (nil, open,
closed: it never becomes nil again), `ensureMemoryInit` the test, `initMemory` the
assignment of a new cache over whatever is there by then, `Exec`, `Return` and `Get` the
use, `Shutdown` and `CloseCache` the end. ristretto is external: an operation is one step
(SetMemory ends with `cache.Wait`), a closed cache ignores a Set and finds nothing, and a
cache at `maxCost` rejects a new key or drops another one. `configured` says whether
`NewCache` accepts the settings of `WithMemorySetting`.

`BrainLocalProofs`, `BrainRefinement`, `BrainCauseProofs`, `BrainFunnelProofs`,
`BlueprintProofs`, `LifecycleProofs`, `LiteMemoryProofs`, `LocalMemoryProofs` — the
theorems. `MCBrainLocal`, `MCBlueprint`,
`MCLifecycle`, `MCLiteMemory`, `MCLocalMemory` — the instances. Operators marked "Mutant"
are wrong variants of the definition that follows them; each passing run's properties are tested against them.

## 3. Runs

| Run | Instance | Checks | Distinct states |
|---|---|---|---|
| `join` | Entry into `a` and `b`, `c` waits for both and goes to END; 2 workers, fair | UpstreamDone, WaitLinkOwned, NoStrandedTrigger, NoSilentWithdrawal, ImplementsBrain, Drains, EndSleeps | 184 thousand |
| `chat` | the loop of the README's agent in one neuron: `llm` calls itself or goes to END; 2 clients, 2 calls of Entry or of TrigLinks with unknown links | TypeOK, ActiveHasWorker, SettledSleep, ImplementsBrain, StrandedOnlyWhileActive | 561 thousand |
| `stream` | a neuron that calls ContinueCast twice, a retry, a selector that may name an unknown group, a failing successor | ActiveHasWorker, WaitLinkOwned, NoSilentWithdrawal, ImplementsBrain, ForsakenOnlyByLateWrite | 276 thousand |
| `lifecycle` | one link, one neuron, one worker per start; a program with 3 calls of Entry and Shutdown, and Wait, in any order; 2 starts; fair | TypeOK, QuietNoPanic, StateTellsQueues, OneMaintainer, RestartsClean, ReleasesGoroutines | 240 thousand |
| `blueprint` | 2 neurons, END, 4 links, 2 cast group names, any sequence of calls | TypeOK, TriggersAntichain, TriggersCover, CastsCover, EndsExist | 177 thousand |
| `lite_memory` | 2 goroutines, 4 calls, 3 keys of which 2 print alike, an unsupported key and value, Shutdown at any time | TypeOK, CrashNeedsShutdown, ReleasedIsGone, ImplementsMemory, FailuresExplained | 97 thousand |
| `local_memory` | 2 goroutines, 4 calls, 2 keys, room for 1, Shutdown at any time | TypeOK, OneCachePerClient, ReleasedIsClosed, ImplementsMemory | 25 thousand |

What they show beyond the single properties. The engine is a correct counting machine: no
interleaving loses, doubles or invents an activation or a cast, although a neuron may be
activated twice (below) and a reset may come late. The two ways in which the engine does
fail a program, a trigger nobody acts on and a brain that never sleeps, have exactly the
causes `StrandedOnlyWhileActive` and `ForsakenOnlyByLateWrite` name; both failures are
reached in the runs that check them. A brain that has drained can be shut
down and started again; whether it has drained is the one thing a program cannot find
out (`shutdown_after_wait`). The memories are maps while they live;
BrainLocal's is dead after the first Shutdown, because the closed cache is kept
(`ReleasedIsClosed`), while BrainLite's is opened anew. A program that sets its memory
before it starts other goroutines loses nothing to the initialisation race
(`OneCachePerClient`: a goroutine makes a cache at most once, in its first SetMemory or
trigger).

Bounds. The queue capacities are the code's (10); two workers are enough for two runs of
one neuron to overlap and for any two neurons to run in either order. `MaxCalls` bounds
the triggers: one Entry in the runs about a single use, two where triggers overlap a run
or a ForceSleep. `chat` needs a loop, two trigger groups of one neuron, a choice of cast
group and END, which one neuron with a link to itself has; `stream` lets one neuron call
ContinueCast and the client call Wait. Two starts and three calls are what it takes to start, stop and start
again with events of the first start still under way; one client makes every order of
calls but no two at once. Two overlapping first calls are therefore not in a run:
`maintainerStart` then shuts the other start down or overwrites its queues, and the
results are for starts that do not overlap. Two calls of `ContinueCast` are needed for one to find the link Ready
and start a retry, which then races with the end of the run, with the cast and with a
second activation; a `cast_anyway` handled after its neuron's run is where
`NoSilentWithdrawal` says most. The blueprint needs two neurons for a link
with two ends and four links for groups that overlap without containing each other. In
the memories, two goroutines reach every interleaving of two initialisations, one
goroutine with Shutdown every order of the close, and room for one entry makes the
second key meet the limit. Runs may stop (a brain that sleeps has
nothing to do), so deadlock is not an error; `Drains`, `EndSleeps` and `ReleasesGoroutines` say what must
happen.

Fairness. `FairSpec` is weak fairness of each goroutine: the maintainer, each worker, each
retry, each step of a call that has begun; `Spec` of `Lifecycle` is the same for the
goroutines of every start. The Go scheduler runs every goroutine that can
run; the one assumption on user code is that a processor returns. Whether a client makes
a call is never assumed.

What the documentation says and the code does not do (each run's counterexample is the
shortest TLC finds):

| Run | What happens |
|---|---|
| `premature_sleep` | `refreshState` counts neurons, then links; a worker that activates a neuron in between is missed by both counts, and the brain says Sleeping while a processor runs (README.md:188) |
| `stale_running` | the `refreshState` at the end of `trigLinks` writes Running after the maintainer has written Sleeping: nothing is left to do and Wait never returns (README.md:296) |
| `fan_out` | eleven links in a cast group: the maintainer blocks sending to its own queue of ten (README.md:314) |
| `double_activation` | a neuron with two trigger groups is run twice in the README's own example (README.md:470) |
| `shutdown_after_wait` | Entry, Wait, Shutdown, as `src/tests/brainlocal/simple_test.go:30-36` does it: Wait returns while the maintainer is between `publishEvent`'s test of the state and its send; Shutdown closes the queue before it sets the state, and the send panics (`src/brainlocal/DESIGN.md:83`) |

Met while modelling and not a run of its own:

- a trigger that completes a group while the neuron is Active is dropped, and nothing
  looks at the group again when the run ends (README.md:327 says the neuron is
  activated). One Entry is not enough to exclude it: where a join feeds a further neuron
  (`a` and `b` to `c`, `c` to `d`), both links of the join can be Ready before the first
  `try_activate_neuron` is handled, so that `c` runs twice and its second cast can meet
  `d` Active. `NoStrandedTrigger` is therefore checked and proved of the brains that
  `Funnel` describes (section 4);
- a client that triggers an out-link of a neuron between `neuronCast`'s test of that link
  for Wait and its write of Init (`src/brainlocal/maintain.go:251-252`) loses the trigger.
  No run makes such a call; `NoSilentWithdrawal` names the case, and its theorem says that
  no link which the program does not trigger itself can be lost there;
- nothing sets `keepMemory`, so BrainLite's file is always removed at Shutdown, although
  `src/brainlite/DESIGN.md` speaks of restoring the context after a restart;
- a processor that still runs when Shutdown returns opens BrainLite's memory again, so
  the file is there afterwards (`ReleasedIsGone` speaks of the time until then);
- SetMemory of a full cache returns nil and keeps nothing.

## 4. Proofs

All theorems hold for every topology, number of workers and clients, queue capacity and
bound that satisfy the named assumptions of the modules (ends of links exist, a trigger
group holds in-links and a cast group out-links of its neuron, capacities are positive).
`Blueprint` shows the first two of every blueprint that can be built. Where something is
counted, the goroutines that are counted are finitely many (`GoroutinesAssumption` of
`BrainLocal`, `LocalAssumption`, `ClientsAssumption` of `Lifecycle`; the first and the last
also keep the names of clients and of the brain's goroutines apart).

`BrainLocalProofs`:

- `TypeCorrect` (TypeOK). The types alone are not inductive: the handlers rely on the
  control point agreeing with the kind of event, on cast groups being the event's
  neuron's, and on END never being queued; all are parts of TypeOK.
- `ActiveNeuronHasWorker` (ActiveHasWorker): inductive together with the types, since
  only `setActivated` writes Active and only the worker that leaves the run, or
  ForceSleep, takes the last support away.
- `UpstreamCompleted` (UpstreamDone), by the invariant `SupplyInv`: a link becomes Ready
  only if it is supplied; what a test has read of a group, and what a neuron was queued
  for, stays supplied. `CastSource`
  carries a cast back to the run or the ContinueCast that asked for it.
- `WaitingLinkHasOwner` (WaitLinkOwned), by `WaitOut` (only out-links are on Wait),
  `ActiveHasWorker` (a try_cast that is skipped finds the neuron Active, hence a run that
  will cast) and `CastSource`.
- `ReadyLinkNotWithdrawn` (NoSilentWithdrawal), an action property, from the same facts,
  the lemma `LinkWriters`, which lists the steps that can write a link, and `ResetInv` for
  the window between `castRest` and `castReset`: a link that was found on Wait and is Ready
  when Init is written is one that a client triggers.
- `DrainedSleepIsTrue` (SettledSleep), by `WakeInv`: while the brain says Sleeping and a
  link or neuron is busy, something is still *stirring* (an event, a run, a call, a
  retry) that will lead to a `refreshState`.

`BlueprintProofs`: `BlueprintInvariant` is the conjunction of the run's invariants and is
inductive; `BlueprintTypes`, `TriggerGroupsAntichain`, `TriggerGroupsCover`,
`CastGroupsCover` and `LinkEndsExist` are its parts.
The heart is `AddTriggerGroupStep`: because the groups are an antichain, the loop cannot
both delete a group and meet one that contains the new group.

`BrainRefinement`: `EngineImplementsBrain` (ImplementsBrain). An activation, a cast or a
request to sleep can be in a queue, in the maintainer's hand, with a worker or client, or
with a retry goroutine; the counts of `Brain` are the sums over these places (`Parts`).
`CountAppend` and `CountTail` say what a send and a receive do to the number of events of
a kind, `CountMember` what the move of one worker does. With them every action is either
balanced (what leaves one place arrives in another: no step of `Brain`) or changes one
count by one, and one of the lemmas `Map...` names the step of `Brain` it is. A step of a
scan is `SeeReady` or `SeeIdle`: what it passes over is ready, or idle, at that step. The
invariants needed are the strong `TypeOK` (the event in the maintainer's hand is known
from its control point), `CalledLinks` (a trigLink goroutine works on a link of a call)
and `GroupRuns` (a group is only tested while the brain says Running: the maintainer, which
alone writes Sleeping, is the one that tests).

`LocalMemoryProofs`, by the inductive invariant `LocalInv`: `LocalTypes`, `CachePerClient`
(OneCachePerClient: `MadeBound` counts the caches made together with the clients that can
still make one), `ShutdownCloses` (ReleasedIsClosed: a started brain has a cache, so
Shutdown closes it, and it stays the cache unless a late `initMemory` makes a second),
`LocalImplementsMemory`.

`LiteMemoryProofs`, by `LiteInv`: `LiteTypes`, `CrashOnlyAfterShutdown`
(CrashNeedsShutdown: the handle and the file of a brain that nobody has shut down only
ever come to be, so a call past its test finds the handle), `FileReleased`
(ReleasedIsGone), `FailuresHaveReasons` (FailuresExplained, an action property) and
`LiteImplementsMemory`, where a table keyed by printed forms is mapped to what GetMemory
can see of it.

`LifecycleProofs`, by `LifeInv`. `AlwaysInv` holds under every use of the brain and gives
`LifecycleTypes`. `QuietInv` holds while the program keeps to quiet use (first triggers do
not overlap, Shutdown is called of a drained brain) and gives `QuietUseIsSafe`
(QuietNoPanic), `StateTellsTheQueues`, `MaintainerIsAlone` (OneMaintainer) and
`RestartIsClean`. Its core: while a client stops the brain every goroutine stands at its
queue and nothing is buffered, so that closing the queues meets no sender; a goroutine of
an earlier start only has a closed, empty queue to leave; and while a link is Ready the
brain says Running or a client has still to call `refreshState`, so that a brain that is
shut down has none.

`BrainCauseProofs`, what goes wrong and only there, for every topology:

- `OnlyActiveNeuronStrands` (StrandedOnlyWhileActive, an action property). A complete
  trigger group is *attended* while an event, a send, a run that has not taken its links
  or a reset is still to come for it. One lemma per form of attention says that a step
  keeps it or turns it into the next form; the one exception is the test of Active in
  `tryActivateNeuron`. The state of the brain matters on the way: a `try_activate_neuron`
  is only worth something if it will find the brain Running, which a `refreshState` ahead
  of it brings about as long as a link is Ready. What a scan has passed over may become
  Ready behind it: `ScanInv` says that then a LinkReady for it is still to come, so that a
  test or a count that misses it is not the last.
- `DroppedOrActivated`: hence NoStrandedTrigger in every behaviour in which that test
  never meets a complete group.
- `OnlyLateWriteForsakes` (ForsakenOnlyByLateWrite, an action property), by `FreshCount`:
  when the maintainer has counted something busy and is about to write Running, something
  is still busy, a worker is still at it, an event is queued, or a processor has failed.
- `SleepsUnlessLateWrite`: hence AutoSleep, which `stale_running` refutes, in every
  behaviour in which no processor fails and no client writes Running over a brain in
  which nothing is busy.

`BrainFunnelProofs`, the brains in which one call of Entry strands nothing:

- `Funnel` describes them: at most one call, of entry links; no ContinueCast; a neuron
  that casts to neurons other than END has one in-link; any two trigger groups of a neuron
  share a link. The instances `join`, the README's parallel-and-wait example, chains and
  trees are funnels; the agent loop of `chat` is not.
- `FunnelNeverStrands` (NoStrandedTrigger). A run that has taken its links must have
  spoilt every trigger group for good. So a link has to be *spent* once it has been Ready:
  nobody will make it Ready again. For a cast link this rests on its source running once,
  and that on the source's own one link being spent: `Tally` counts everything under way
  for such a neuron, from the first LinkReady to the end of its cast, and says that it is
  at most one, that nothing is left before the processor once that is done, and that its
  link was spent when it began. `FunnelInv` is the conjunction of Tally, the spent links
  and the groups of the activations and runs; it is inductive together with
  WaitLinkOwned, which shows that `neuronCast` writes no link twice. The counting
  lemmas are those of `BrainRefinement`. The group an activation is decided on need be
  complete at no one moment, but a link read as Ready is spent, so that `GroupSeen` (what a
  test has passed over is spent) is enough.
- `TreeActivatesOnce` (ActivatedOnce): a funnel in which no neuron but END joins links
  keeps the promise that `double_activation` refutes.

Only model-checked: `Drains`, `EndSleeps` and `ReleasesGoroutines` (liveness under
fairness is out of the prover's reach). `NoStrandedTrigger` is no invariant of the module,
and is proved under the conditions above; `join` checks it on a funnel with END.

## 5. Not modelled

- `ForceSleep` called by user code: it is exported by the brains and is not part of the
  interface `core.Brain`; `BrainLocal` has it as the maintainer calls it.
- In `Lifecycle`: failing processors, ContinueCast and its retries, and more than one link
  or neuron, all of which are in `BrainLocal`; two overlapping first calls, which are in
  the module and beyond its runs.
- ristretto's dropping of a Set when its buffer is contended, and its admission counters;
  SQLite errors other than a closed handle and a missing table; SetMemory without
  arguments or with an odd number of them.
- Processors in Python (another process behind the processor interface), options, labels,
  logging, error texts, the interfaces of `src/core`, and the language model of the
  example agent (its loop is the `chat` instance).

## 6. Further work

1. `SleepingMeansIdle`, which `premature_sleep` refutes, has no theorem that names its
   causes: besides the count that misses a neuron, ForceSleep on arrival at END stops
   neither the runs under way nor the neurons still queued.
2. Two overlapping first calls in `Lifecycle`, with the panics they can cause, as a run.
