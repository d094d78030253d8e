----------------------------- MODULE LocalMemory -----------------------------
(***************************************************************************)
(* The Memory of a BrainLocal (src/brainlocal/brain_local.go): a ristretto *)
(* cache made by the first SetMemory or trigger and closed by Shutdown.    *)
(*                                                                         *)
(* The pointer b.cache is a plain field, tested in one step and used in    *)
(* another; it never becomes nil again.  ristretto is external: Set, Get,  *)
(* Del, Clear and Close are one atomic step each, a closed cache ignores   *)
(* what is set and finds nothing, and a full cache (an entry costs 1)      *)
(* rejects a new key or drops another one for it.                          *)
(***************************************************************************)
EXTENDS Integers, Sequences, FiniteSets

CONSTANTS
    Clients,   \* goroutines that call the operations, processors included
    Keys,
    Values,
    NoValue,   \* nil
    SetCalls,  \* the arguments of SetMemory: sequences of << key, value >>
    MaxCost,   \* b.maxCost
    MaxCalls   \* bound: calls in a behaviour

ASSUME LocalAssumption ==
    /\ IsFiniteSet(Clients)
    /\ NoValue \notin Values
    /\ SetCalls \subseteq Seq(Keys \X Values) /\ << >> \notin SetCalls
    /\ MaxCost \in Nat \ {0} /\ MaxCalls \in Nat

VARIABLES
    cache,       \* b.cache: "nil", "open" or "closed"
    mem,         \* what the cache b.cache points to holds
    configured,  \* ristretto.NewCache accepts the settings of the options
    made,        \* caches made so far
    evicted,     \* a full cache has lost or rejected an entry
    pc, todo,    \* clients: control point and changes still to be made
    key,         \* clients: the key GetMemory looks up
    result,      \* clients: what the last GetMemory returned
    started,     \* the maintainer runs, its queues are open
    sPc,         \* Shutdown: control point
    down,        \* Shutdown has been called at some time
    calls        \* calls so far

memory == << cache, mem, configured, made, evicted >>
clients == << pc, todo, key, result >>
lifecycle == << started, sPc, down >>
vars == << memory, clients, lifecycle, calls >>

Updates ==
    [do : {"set"}, key : Keys, value : Values] \cup [do : {"del"}, key : Keys]
      \cup [do : {"clear"}]

Empty == [k \in Keys |-> NoValue]

-----------------------------------------------------------------------------
(* The calls, up to their first look at b.cache.                            *)

Begin(c) == pc[c] = "idle" /\ calls < MaxCalls /\ calls' = calls + 1
Goto(c, l) == pc' = [pc EXCEPT ![c] = l]

SetMemory(c, pairs) ==
    /\ Begin(c)
    /\ todo' = [todo EXCEPT ![c] = [i \in DOMAIN pairs |->
                   [do |-> "set", key |-> pairs[i][1], value |-> pairs[i][2]]]]
    /\ Goto(c, "ensure")
    /\ UNCHANGED << memory, key, result, lifecycle >>

\* trigLinks: ensureMemoryInit, then ensureMaintainerStart. EntryWithMemory is
\* SetMemory followed by this.
trigLinks(c) ==
    /\ Begin(c)
    /\ Goto(c, "ensure")
    /\ UNCHANGED << memory, todo, key, result, lifecycle >>

\* ExistMemory is the same call with the value dropped.
GetMemory(c, k) ==
    /\ Begin(c)
    /\ IF cache = "nil" THEN /\ result' = [result EXCEPT ![c] = NoValue]
                             /\ UNCHANGED << pc, key >>
                        ELSE /\ Goto(c, "get")
                             /\ key' = [key EXCEPT ![c] = k]
                             /\ UNCHANGED result
    /\ UNCHANGED << memory, todo, lifecycle >>

\* DeleteMemory and ClearMemory do nothing while there is no cache.
Change(c, u) ==
    /\ Begin(c)
    /\ IF cache = "nil" THEN UNCHANGED << pc, todo >>
                        ELSE Goto(c, "exec") /\ todo' = [todo EXCEPT ![c] = << u >>]
    /\ UNCHANGED << memory, key, result, lifecycle >>

DeleteMemory(c, k) == Change(c, [do |-> "del", key |-> k])
ClearMemory(c) == Change(c, [do |-> "clear"])

-----------------------------------------------------------------------------
(* ensureMemoryInit, initMemory and what follows them.                      *)

AfterInit(c) == IF todo[c] = << >> THEN "start" ELSE "exec"

\* Mutant: the memory is left to trigLinks.
ensureMemoryInitNot(c) ==
    /\ pc[c] = "ensure"
    /\ Goto(c, IF cache # "nil" \/ todo[c] # << >> THEN AfterInit(c) ELSE "init")
    /\ UNCHANGED << memory, todo, key, result, lifecycle, calls >>

\* Mutant: there is no test.
ensureMemoryInitAlways(c) ==
    /\ pc[c] = "ensure"
    /\ Goto(c, "init")
    /\ UNCHANGED << memory, todo, key, result, lifecycle, calls >>

ensureMemoryInit(c) ==
    /\ pc[c] = "ensure"
    /\ Goto(c, IF cache # "nil" THEN AfterInit(c) ELSE "init")
    /\ UNCHANGED << memory, todo, key, result, lifecycle, calls >>

\* initMemory: the new cache replaces whatever b.cache is by now; NewCache
\* fails for settings it does not accept, and so does the call.
initMemory(c) ==
    /\ pc[c] = "init"
    /\ \/ /\ configured
          /\ cache' = "open" /\ mem' = Empty /\ made' = made + 1
          /\ Goto(c, AfterInit(c))
          /\ UNCHANGED << configured, evicted, todo >>
       \/ /\ ~configured
          /\ Goto(c, "idle") /\ todo' = [todo EXCEPT ![c] = << >>]
          /\ UNCHANGED memory
    /\ UNCHANGED << key, result, lifecycle, calls >>

\* ensureMaintainerStart: a brain in the state Shutdown is started.
ensureMaintainerStart(c) ==
    /\ pc[c] = "start"
    /\ started' = (started \/ sPc = "idle")
    /\ Goto(c, "idle")
    /\ UNCHANGED << memory, todo, key, result, sPc, down, calls >>

-----------------------------------------------------------------------------
(* Set, Del, Clear and Get on the cache.                                    *)

Present == {k \in Keys : mem[k] # NoValue}

\* What an open cache may hold after a Set of cost 1.
AfterSet(k, v) ==
    IF k \in Present \/ Cardinality(Present) < MaxCost
    THEN {[mem EXCEPT ![k] = v]}
    ELSE {mem} \cup {[mem EXCEPT ![k] = v, ![victim] = NoValue] : victim \in Present}

\* One change, by what ristretto does of it.
Applied(u) ==
    CASE u.do = "set"   -> AfterSet(u.key, u.value)
      [] u.do = "del"   -> {[mem EXCEPT ![u.key] = NoValue]}
      [] u.do = "clear" -> {Empty}

\* A new key meets a full cache.
Overflows(u) == u.do = "set" /\ u.key \notin Present /\ Cardinality(Present) >= MaxCost

\* Mutant: SetMemory returns after its first pair.
ExecOnce(c) ==
    /\ pc[c] = "exec" /\ todo[c] # << >>
    /\ IF cache = "open" THEN /\ mem' \in Applied(Head(todo[c]))
                              /\ evicted' = (evicted \/ Overflows(Head(todo[c])))
                         ELSE UNCHANGED << mem, evicted >>
    /\ todo' = [todo EXCEPT ![c] = << >>]
    /\ UNCHANGED << cache, configured, made, pc, key, result, lifecycle, calls >>

\* One round of the loop of SetMemory, or Del or Clear.
Exec(c) ==
    /\ pc[c] = "exec" /\ todo[c] # << >>
    /\ IF cache = "open" THEN /\ mem' \in Applied(Head(todo[c]))
                              /\ evicted' = (evicted \/ Overflows(Head(todo[c])))
                         ELSE UNCHANGED << mem, evicted >>
    /\ todo' = [todo EXCEPT ![c] = Tail(@)]
    /\ UNCHANGED << cache, configured, made, pc, key, result, lifecycle, calls >>

Return(c) ==
    /\ pc[c] = "exec" /\ todo[c] = << >>
    /\ Goto(c, "idle")
    /\ UNCHANGED << memory, todo, key, result, lifecycle, calls >>

\* Get on the cache; a closed one holds nothing.
Get(c) ==
    /\ pc[c] = "get"
    /\ result' = [result EXCEPT ![c] = mem[key[c]]]
    /\ Goto(c, "idle") /\ key' = [key EXCEPT ![c] = NoValue]
    /\ UNCHANGED << memory, todo, lifecycle, calls >>

-----------------------------------------------------------------------------
(* Shutdown, of a brain that was started: the queues are closed, then the   *)
(* cache, then the state is set.                                            *)

Shutdown ==
    /\ started /\ sPc = "idle"
    /\ started' = FALSE /\ down' = TRUE /\ sPc' = "close"
    /\ UNCHANGED << memory, clients, calls >>

\* Mutant: the cache is not closed.
CloseCacheNot ==
    /\ sPc = "close" /\ sPc' = "idle"
    /\ UNCHANGED << memory, clients, started, down, calls >>

CloseCache ==
    /\ sPc = "close" /\ sPc' = "idle"
    /\ cache' = "closed" /\ mem' = Empty
    /\ UNCHANGED << configured, made, evicted, clients, started, down, calls >>

-----------------------------------------------------------------------------

Init ==
    /\ cache = "nil" /\ mem = Empty /\ configured \in BOOLEAN
    /\ made = 0 /\ evicted = FALSE
    /\ pc = [c \in Clients |-> "idle"] /\ todo = [c \in Clients |-> << >>]
    /\ key = [c \in Clients |-> NoValue] /\ result = [c \in Clients |-> NoValue]
    /\ started = FALSE /\ sPc = "idle" /\ down = FALSE /\ calls = 0

Client(c) ==
    \/ \E pairs \in SetCalls : SetMemory(c, pairs)
    \/ \E k \in Keys : GetMemory(c, k) \/ DeleteMemory(c, k)
    \/ ClearMemory(c) \/ trigLinks(c)
    \/ ensureMemoryInit(c) \/ initMemory(c) \/ ensureMaintainerStart(c)
    \/ Exec(c) \/ Return(c) \/ Get(c)

Next ==
    \/ \E c \in Clients : Client(c)
    \/ Shutdown \/ CloseCache

Spec == Init /\ [][Next]_vars

-----------------------------------------------------------------------------
(* Properties.                                                              *)

\* "It remains intact [...] and will not be cleared unless ClearMemory() is
\* called" (README.md:373): the cache implements the map of Memory. What ends
\* the promise is the code's: Shutdown, a second cache made by a first call
\* that overlapped another one, and the limit maxCost.
Promise == INSTANCE Memory WITH
    ReadBack <- [v \in Values |-> v],
    shut <- down \/ made > 1 \/ evicted
ImplementsMemory == Promise!Spec

\* Only first calls make a cache: each goroutine makes at most one, so that a
\* program that sets its memory before it starts others never loses it.
OneCachePerClient == made <= Cardinality(Clients)

\* Shutdown ends the memory for good: ensureMemoryInit keeps the closed cache,
\* so a brain that is started again takes nothing and finds nothing.
ReleasedIsClosed == down /\ sPc = "idle" /\ made = 1 => cache = "closed" /\ mem = Empty

\* The types, with: only an open cache holds anything, there is a cache
\* whenever one is used, and a full cache does not grow.
TypeOK ==
    /\ cache \in {"nil", "open", "closed"} /\ (cache = "nil" <=> made = 0)
    /\ mem \in [Keys -> Values \cup {NoValue}] /\ (cache # "open" => mem = Empty)
    /\ Cardinality(Present) <= MaxCost
    /\ {configured, evicted, started, down} \subseteq BOOLEAN /\ made \in Nat
    /\ pc \in [Clients -> {"idle", "ensure", "init", "start", "exec", "get"}]
    /\ todo \in [Clients -> Seq(Updates)]
    /\ \A c \in Clients : /\ todo[c] # << >> => pc[c] \in {"ensure", "init", "exec"}
                          /\ pc[c] \in {"exec", "get", "start"} => cache # "nil"
                          /\ pc[c] = "get" => key[c] \in Keys
    /\ key \in [Clients -> Keys \cup {NoValue}]
    /\ result \in [Clients -> Values \cup {NoValue}]
    /\ sPc \in {"idle", "close"} /\ calls \in 0..MaxCalls

=============================================================================
