-------------------------- MODULE LocalMemoryProofs --------------------------
(***************************************************************************)
(* Proofs about the Memory of a BrainLocal: the types with the bound on    *)
(* what a cache holds, OneCachePerClient, ReleasedIsClosed, and that the   *)
(* cache implements the map of Memory, for every set of clients, keys and  *)
(* values and every limit.                                                 *)
(***************************************************************************)
EXTENDS LocalMemory, FiniteSetTheorems, TLAPS

-----------------------------------------------------------------------------
(* The inductive invariant.                                                 *)

\* Only a finite number of keys is in the cache, whatever the keys are.
FiniteContents == IsFiniteSet(Present)

\* A brain that runs, or has run, made its cache before it was started; only
\* Shutdown closes a cache, and between its two steps sPc tells so.
StartedHasCache ==
    /\ started \/ down => cache # "nil"
    /\ sPc = "close" => down
    /\ cache = "closed" => down

\* A client that has passed the test for a cache makes one at most: no other
\* client passes it once there is a cache.
AtInit == {c \in Clients : pc[c] = "init"}
MadeBound == made + Cardinality(AtInit) <= Cardinality(Clients)

\* The only cache is closed from the end of the first Shutdown on.
ClosedByShutdown == down /\ made = 1 /\ sPc = "idle" => cache = "closed"

LocalInv == TypeOK /\ FiniteContents /\ StartedHasCache /\ MadeBound /\ ClosedByShutdown

-----------------------------------------------------------------------------
(* Lemmas about the operators.                                              *)

\* The pairs of a SetMemory become a sequence of changes.
LEMMA PairsAreUpdates ==
    ASSUME NEW pairs \in SetCalls
    PROVE  [i \in DOMAIN pairs |-> [do |-> "set", key |-> pairs[i][1], value |-> pairs[i][2]]]
             \in Seq(Updates)
<1>1. pairs \in Seq(Keys \X Values)
  BY LocalAssumption
<1>2. DOMAIN pairs = 1..Len(pairs) /\ Len(pairs) \in Nat
  BY <1>1
<1>3. \A i \in DOMAIN pairs :
        [do |-> "set", key |-> pairs[i][1], value |-> pairs[i][2]] \in Updates
  <2>1. TAKE i \in DOMAIN pairs
  <2>2. pairs[i] \in Keys \X Values
    BY <1>1, <1>2
  <2>3. pairs[i][1] \in Keys /\ pairs[i][2] \in Values
    BY <2>2
  <2> QED BY <2>3 DEF Updates
<1> QED BY <1>2, <1>3

\* A change is one of three, with a key and a value of the memory.
LEMMA UpdateKinds ==
    ASSUME NEW u \in Updates
    PROVE  /\ u.do \in {"set", "del", "clear"}
           /\ u.do \in {"set", "del"} => u.key \in Keys
           /\ u.do = "set" => u.value \in Values
BY DEF Updates

\* What a cache holds after a change: a map again, with finitely many keys and
\* no more of them than the limit allows.
LEMMA AppliedFits ==
    ASSUME mem \in [Keys -> Values \cup {NoValue}],
           IsFiniteSet(Present), Cardinality(Present) <= MaxCost,
           NEW u \in Updates, mem' \in Applied(u)
    PROVE  /\ mem' \in [Keys -> Values \cup {NoValue}]
           /\ IsFiniteSet(Present') /\ Cardinality(Present') <= MaxCost
<1> USE LocalAssumption
<1>0. Cardinality(Present) \in Nat /\ MaxCost \in Nat \ {0} /\ Present \subseteq Keys
  BY FS_CardinalityType DEF Present
<1>1. CASE u.do = "set"
  <2>1. u.key \in Keys /\ u.value \in Values /\ mem' \in AfterSet(u.key, u.value)
    BY <1>1, UpdateKinds DEF Applied
  <2>2. CASE u.key \in Present
    <3>1. mem' = [mem EXCEPT ![u.key] = u.value]
      BY <2>1, <2>2 DEF AfterSet
    <3>2. Present' = Present
      BY <2>1, <2>2, <3>1 DEF Present
    <3> QED BY <2>1, <3>1, <3>2
  <2>3. CASE u.key \notin Present /\ Cardinality(Present) < MaxCost
    <3>1. mem' = [mem EXCEPT ![u.key] = u.value]
      BY <2>1, <2>3 DEF AfterSet
    <3>2. Present' = Present \cup {u.key}
      BY <2>1, <2>3, <3>1 DEF Present
    <3>3. IsFiniteSet(Present') /\ Cardinality(Present') = Cardinality(Present) + 1
      BY <2>3, <3>2, FS_AddElement
    <3> QED BY <1>0, <2>1, <2>3, <3>1, <3>3
  <2>4. CASE u.key \notin Present /\ ~(Cardinality(Present) < MaxCost)
    <3>1. \/ mem' = mem
          \/ \E victim \in Present :
                mem' = [mem EXCEPT ![u.key] = u.value, ![victim] = NoValue]
      BY <2>1, <2>4 DEF AfterSet
    <3>2. CASE mem' = mem
      BY <3>2 DEF Present
    <3>3. ASSUME NEW victim \in Present,
                 mem' = [mem EXCEPT ![u.key] = u.value, ![victim] = NoValue]
          PROVE  /\ mem' \in [Keys -> Values \cup {NoValue}]
                 /\ IsFiniteSet(Present') /\ Cardinality(Present') <= MaxCost
      <4>1. Present' = (Present \ {victim}) \cup {u.key}
        BY <1>0, <2>1, <2>4, <3>3 DEF Present
      <4>2. /\ IsFiniteSet(Present \ {victim})
            /\ Cardinality(Present \ {victim}) = Cardinality(Present) - 1
        BY FS_RemoveElement
      <4>3. /\ IsFiniteSet(Present')
            /\ Cardinality(Present') = Cardinality(Present \ {victim}) + 1
        BY <2>4, <4>1, <4>2, FS_AddElement
      <4> QED BY <1>0, <2>1, <3>3, <4>2, <4>3
    <3> QED BY <3>1, <3>2, <3>3
  <2> QED BY <2>2, <2>3, <2>4
<1>2. CASE u.do = "del"
  <2>1. u.key \in Keys /\ mem' = [mem EXCEPT ![u.key] = NoValue]
    BY <1>2, UpdateKinds DEF Applied
  <2>2. Present' \subseteq Present
    BY <2>1 DEF Present
  <2>3. IsFiniteSet(Present') /\ Cardinality(Present') <= Cardinality(Present)
    BY <2>2, FS_Subset
  <2> QED BY <1>0, <2>1, <2>3, FS_CardinalityType
<1>3. CASE u.do = "clear"
  <2>1. mem' = Empty
    BY <1>3 DEF Applied
  <2>2. Present' = {}
    BY <2>1 DEF Present, Empty
  <2> QED BY <1>0, <2>1, <2>2, FS_EmptySet DEF Empty
<1> QED BY <1>1, <1>2, <1>3, UpdateKinds

\* An empty cache fits.
LEMMA EmptyFits ==
    ASSUME mem' = Empty
    PROVE  /\ mem' \in [Keys -> Values \cup {NoValue}]
           /\ IsFiniteSet(Present') /\ Cardinality(Present') <= MaxCost
<1>1. Present' = {}
  BY DEF Present, Empty
<1> QED BY <1>1, FS_EmptySet, LocalAssumption DEF Empty

\* Leaving "init" lowers the number of clients there; nobody else moves it.
LEMMA InitLeft ==
    ASSUME NEW c \in Clients, NEW l, l # "init", pc[c] = "init", Goto(c, l),
           pc \in [Clients -> {"idle", "ensure", "init", "start", "exec", "get"}]
    PROVE  IsFiniteSet(AtInit) /\ Cardinality(AtInit') = Cardinality(AtInit) - 1
<1>1. AtInit' = AtInit \ {c}
  BY DEF AtInit, Goto
<1>2. c \in AtInit /\ IsFiniteSet(AtInit)
  BY LocalAssumption, FS_Subset DEF AtInit
<1> QED BY <1>1, <1>2, FS_RemoveElement

\* No more clients are at "init" than there are.
LEMMA InitBound ==
    /\ IsFiniteSet(AtInit) /\ Cardinality(AtInit) \in Nat /\ Cardinality(Clients) \in Nat
    /\ Cardinality(AtInit) <= Cardinality(Clients)
<1>1. AtInit \subseteq Clients
  BY DEF AtInit
<1> QED BY <1>1, LocalAssumption, FS_Subset, FS_CardinalityType

-----------------------------------------------------------------------------
(* The invariant holds initially and every step keeps it.                   *)

\* The invariant holds of a brain that has just been built.
LEMMA LocalInit == Init => LocalInv
<1> SUFFICES ASSUME Init PROVE LocalInv
  OBVIOUS
<1> USE LocalAssumption
<1>1. Present = {} /\ AtInit = {}
  BY DEF Init, Present, AtInit, Empty
<1>2. IsFiniteSet(Present) /\ Cardinality(Present) = 0 /\ Cardinality(AtInit) = 0
  BY <1>1, FS_EmptySet
<1>3. Cardinality(Clients) \in Nat
  BY FS_CardinalityType
<1>4. TypeOK
  <2>1. todo \in [Clients -> Seq(Updates)] /\ \A c \in Clients : todo[c] = << >>
    BY DEF Init
  <2>2. mem \in [Keys -> Values \cup {NoValue}] /\ mem = Empty
    BY DEF Init, Empty
  <2>3. Cardinality(Present) <= MaxCost
    BY <1>2
  <2>4. /\ pc \in [Clients -> {"idle", "ensure", "init", "start", "exec", "get"}]
        /\ \A c \in Clients : pc[c] = "idle"
        /\ key \in [Clients -> Keys \cup {NoValue}]
        /\ result \in [Clients -> Values \cup {NoValue}]
    BY DEF Init
  <2>5. {configured, evicted, started, down} \subseteq BOOLEAN
    BY Zenon DEF Init
  <2>6. cache = "nil" /\ made = 0 /\ sPc = "idle" /\ calls \in 0..MaxCalls
    BY DEF Init
  <2> QED BY <2>1, <2>2, <2>3, <2>4, <2>5, <2>6 DEF TypeOK
<1> QED BY <1>2, <1>3, <1>4
        DEF Init, LocalInv, FiniteContents, StartedHasCache, MadeBound, ClosedByShutdown

\* A step that leaves the cache alone and sends nobody to "init" keeps what
\* the invariant says of the contents and of the caches made.
LEMMA MemoryKept ==
    ASSUME LocalInv, UNCHANGED memory, NEW c \in Clients, NEW l, l # "init",
           pc' = pc \/ Goto(c, l)
    PROVE  FiniteContents' /\ MadeBound' /\ (Cardinality(Present) <= MaxCost)'
<1>1. FiniteContents' /\ (Cardinality(Present) <= MaxCost)'
  BY DEF LocalInv, TypeOK, FiniteContents, Present, memory
<1>2. AtInit' \subseteq AtInit
  BY DEF LocalInv, TypeOK, AtInit, Goto
<1>3. Cardinality(AtInit') <= Cardinality(AtInit) /\ Cardinality(AtInit') \in Nat
  BY <1>2, InitBound, FS_Subset, FS_CardinalityType
<1>4. MadeBound'
  BY <1>3, InitBound DEF LocalInv, MadeBound, TypeOK, memory
<1> QED BY <1>1, <1>4

\* A client begins a call.
LEMMA CallStep ==
    ASSUME LocalInv, NEW c \in Clients,
           \/ \E pairs \in SetCalls : SetMemory(c, pairs)
           \/ \E k \in Keys : GetMemory(c, k) \/ DeleteMemory(c, k)
           \/ ClearMemory(c) \/ trigLinks(c)
    PROVE  LocalInv'
<1> USE LocalAssumption
<1>0. todo[c] = << >> /\ pc[c] = "idle" /\ calls' \in 0..MaxCalls /\ calls' = calls + 1
  <2>1. Begin(c)
    BY DEF SetMemory, GetMemory, DeleteMemory, ClearMemory, Change, trigLinks
  <2>2. pc[c] = "idle" /\ calls < MaxCalls /\ calls' = calls + 1
    BY <2>1 DEF Begin
  <2>3. calls \in 0..MaxCalls
    BY DEF LocalInv, TypeOK
  <2>4. todo[c] = << >>
    BY <2>2 DEF LocalInv, TypeOK
  <2> QED BY <2>2, <2>3, <2>4
<1>1. ASSUME NEW pairs \in SetCalls, SetMemory(c, pairs) PROVE LocalInv'
  <2> DEFINE new == [i \in DOMAIN pairs |->
                       [do |-> "set", key |-> pairs[i][1], value |-> pairs[i][2]]]
  <2>1. todo' = [todo EXCEPT ![c] = new] /\ new \in Seq(Updates)
    BY <1>1, PairsAreUpdates DEF SetMemory
  <2>2. FiniteContents' /\ MadeBound' /\ (Cardinality(Present) <= MaxCost)'
    BY <1>1, MemoryKept DEF SetMemory
  <2> HIDE DEF new
  <2>3. TypeOK'
    BY <1>0, <1>1, <2>1, <2>2 DEF LocalInv, TypeOK, SetMemory, Goto, memory, lifecycle
  <2> QED BY <1>1, <2>2, <2>3
          DEF LocalInv, StartedHasCache, ClosedByShutdown, SetMemory, memory, lifecycle
<1>2. ASSUME NEW k \in Keys, GetMemory(c, k) PROVE LocalInv'
  <2>2. FiniteContents' /\ MadeBound' /\ (Cardinality(Present) <= MaxCost)'
    BY <1>2, MemoryKept DEF GetMemory
  <2>3. TypeOK'
    BY <1>0, <1>2, <2>2 DEF LocalInv, TypeOK, GetMemory, Goto, memory, lifecycle
  <2> QED BY <1>2, <2>2, <2>3
          DEF LocalInv, StartedHasCache, ClosedByShutdown, GetMemory, memory, lifecycle
<1>3. ASSUME NEW u \in Updates, Change(c, u) PROVE LocalInv'
  <2>2. FiniteContents' /\ MadeBound' /\ (Cardinality(Present) <= MaxCost)'
    BY <1>3, MemoryKept DEF Change
  <2>1. << u >> \in Seq(Updates)
    OBVIOUS
  <2>3. TypeOK'
    BY <1>0, <1>3, <2>1, <2>2 DEF LocalInv, TypeOK, Change, Goto, memory, lifecycle
  <2> QED BY <1>3, <2>2, <2>3
          DEF LocalInv, StartedHasCache, ClosedByShutdown, Change, memory, lifecycle
<1>4. ASSUME NEW k \in Keys, DeleteMemory(c, k) PROVE LocalInv'
  BY <1>3, <1>4 DEF DeleteMemory, Updates
<1>5. CASE ClearMemory(c)
  BY <1>3, <1>5 DEF ClearMemory, Updates
<1>6. CASE trigLinks(c)
  <2>2. FiniteContents' /\ MadeBound' /\ (Cardinality(Present) <= MaxCost)'
    BY <1>6, MemoryKept DEF trigLinks
  <2>3. TypeOK'
    BY <1>0, <1>6, <2>2 DEF LocalInv, TypeOK, trigLinks, Goto, memory, lifecycle
  <2> QED BY <1>6, <2>2, <2>3
          DEF LocalInv, StartedHasCache, ClosedByShutdown, trigLinks, memory, lifecycle
<1> QED BY <1>1, <1>2, <1>4, <1>5, <1>6

\* ensureMemoryInit's test of the cache.
LEMMA EnsureStep ==
    ASSUME LocalInv, NEW c \in Clients, ensureMemoryInit(c)
    PROVE  LocalInv'
<1> USE LocalAssumption
<1>1. TypeOK'
  BY DEF LocalInv, TypeOK, ensureMemoryInit, Goto, AfterInit, memory, lifecycle, Present
<1>2. MadeBound'
  <2>1. CASE cache = "nil"
    <3>1. AtInit' \subseteq Clients
      BY DEF AtInit
    <3>2. Cardinality(AtInit') <= Cardinality(Clients)
      BY <3>1, FS_Subset
    <3>3. made' = 0 /\ Cardinality(AtInit') \in Nat /\ Cardinality(Clients) \in Nat
      BY <2>1, <3>1, FS_Subset, FS_CardinalityType DEF LocalInv, TypeOK, ensureMemoryInit, memory
    <3> QED BY <3>2, <3>3 DEF MadeBound
  <2>2. CASE cache # "nil"
    <3>1. UNCHANGED memory /\ Goto(c, AfterInit(c)) /\ AfterInit(c) # "init"
      BY <2>2 DEF ensureMemoryInit, AfterInit
    <3> QED BY <3>1, MemoryKept
  <2> QED BY <2>1, <2>2
<1> QED BY <1>1, <1>2 DEF LocalInv, ensureMemoryInit, memory, lifecycle, FiniteContents,
                          Present, StartedHasCache, ClosedByShutdown

\* initMemory assigns a new cache.
LEMMA InitStep ==
    ASSUME LocalInv, NEW c \in Clients, initMemory(c)
    PROVE  LocalInv'
<1> USE LocalAssumption
<1>1. CASE configured
  <2>1. /\ cache' = "open" /\ mem' = Empty /\ made' = made + 1 /\ made \in Nat
        /\ Goto(c, AfterInit(c)) /\ AfterInit(c) # "init" /\ pc[c] = "init"
        /\ pc \in [Clients -> {"idle", "ensure", "init", "start", "exec", "get"}]
    BY <1>1 DEF LocalInv, TypeOK, initMemory, AfterInit
  <2>2. FiniteContents' /\ (Cardinality(Present) <= MaxCost)'
    BY <2>1, EmptyFits DEF FiniteContents
  <2>3. MadeBound'
    BY <2>1, InitLeft, InitBound DEF LocalInv, MadeBound
  <2>4. TypeOK'
    BY <1>1, <2>1, <2>2 DEF LocalInv, TypeOK, initMemory, Goto, AfterInit, lifecycle, Empty
  <2> QED BY <2>1, <2>2, <2>3, <2>4, <1>1
          DEF LocalInv, TypeOK, initMemory, lifecycle, StartedHasCache, ClosedByShutdown
<1>2. CASE ~configured
  <2>1. UNCHANGED memory /\ Goto(c, "idle") /\ todo' = [todo EXCEPT ![c] = << >>]
    BY <1>2 DEF initMemory
  <2>2. FiniteContents' /\ MadeBound' /\ (Cardinality(Present) <= MaxCost)'
    BY <2>1, MemoryKept
  <2>3. TypeOK'
    BY <2>1, <2>2 DEF LocalInv, TypeOK, initMemory, Goto, memory, lifecycle
  <2> QED BY <2>1, <2>2, <2>3
          DEF LocalInv, StartedHasCache, ClosedByShutdown, initMemory, memory, lifecycle
<1> QED BY <1>1, <1>2

\* A Set, Del or Clear of the cache.
LEMMA ExecStep ==
    ASSUME LocalInv, NEW c \in Clients, Exec(c)
    PROVE  LocalInv'
<1> USE LocalAssumption
<1>1. /\ todo[c] \in Seq(Updates) /\ todo[c] # << >> /\ pc[c] = "exec"
      /\ Head(todo[c]) \in Updates /\ Tail(todo[c]) \in Seq(Updates)
  BY DEF LocalInv, TypeOK, Exec
<1>2. /\ mem' \in [Keys -> Values \cup {NoValue}]
      /\ FiniteContents' /\ (Cardinality(Present) <= MaxCost)'
      /\ cache' # "open" => mem' = Empty
  <2>1. CASE cache = "open"
    BY <1>1, <2>1, AppliedFits DEF Exec, LocalInv, TypeOK, FiniteContents
  <2>2. CASE cache # "open"
    BY <2>2 DEF Exec, LocalInv, TypeOK, FiniteContents, Present, Empty
  <2> QED BY <2>1, <2>2
<1>3. evicted' \in BOOLEAN
  BY DEF Exec, LocalInv, TypeOK, Overflows
<1>4. TypeOK'
  BY <1>1, <1>2, <1>3 DEF LocalInv, TypeOK, Exec, lifecycle
<1>5. MadeBound'
  BY DEF LocalInv, MadeBound, AtInit, Exec
<1> QED BY <1>2, <1>4, <1>5 DEF LocalInv, Exec, lifecycle, StartedHasCache, ClosedByShutdown

\* The start of the maintainer, a Get, the return of a call.
LEMMA OtherStep ==
    ASSUME LocalInv, NEW c \in Clients, ensureMaintainerStart(c) \/ Return(c) \/ Get(c)
    PROVE  LocalInv'
<1> USE LocalAssumption
<1>1. UNCHANGED memory /\ Goto(c, "idle")
  BY DEF ensureMaintainerStart, Return, Get
<1>2. FiniteContents' /\ MadeBound' /\ (Cardinality(Present) <= MaxCost)'
  BY <1>1, MemoryKept
<1>3. CASE ensureMaintainerStart(c)
  <2>1. TypeOK'
    BY <1>2, <1>3 DEF LocalInv, TypeOK, ensureMaintainerStart, Goto, memory
  <2> QED BY <1>2, <1>3, <2>1
          DEF LocalInv, TypeOK, StartedHasCache, ClosedByShutdown, ensureMaintainerStart, memory
<1>4. CASE Return(c)
  <2>1. TypeOK'
    BY <1>2, <1>4 DEF LocalInv, TypeOK, Return, Goto, memory, lifecycle
  <2> QED BY <1>2, <1>4, <2>1
          DEF LocalInv, StartedHasCache, ClosedByShutdown, Return, memory, lifecycle
<1>5. CASE Get(c)
  <2>1. TypeOK'
    BY <1>2, <1>5 DEF LocalInv, TypeOK, Get, Goto, memory, lifecycle
  <2> QED BY <1>2, <1>5, <2>1
          DEF LocalInv, StartedHasCache, ClosedByShutdown, Get, memory, lifecycle
<1> QED BY <1>3, <1>4, <1>5

\* The steps of Shutdown.
LEMMA ShutdownStep ==
    ASSUME LocalInv, Shutdown \/ CloseCache
    PROVE  LocalInv'
<1> USE LocalAssumption
<1>1. MadeBound'
  BY DEF LocalInv, MadeBound, AtInit, Shutdown, CloseCache, memory, clients
<1>2. CASE Shutdown
  <2>1. FiniteContents' /\ (Cardinality(Present) <= MaxCost)'
    BY <1>2 DEF LocalInv, TypeOK, FiniteContents, Present, Shutdown, memory
  <2>2. TypeOK'
    BY <1>2, <2>1 DEF LocalInv, TypeOK, Shutdown, memory, clients
  <2> QED BY <1>1, <1>2, <2>1, <2>2
          DEF LocalInv, StartedHasCache, ClosedByShutdown, Shutdown, memory
<1>3. CASE CloseCache
  <2>1. FiniteContents' /\ (Cardinality(Present) <= MaxCost)'
    BY <1>3, EmptyFits DEF CloseCache, FiniteContents
  <2>2. TypeOK'
    BY <1>3, <2>1 DEF LocalInv, TypeOK, StartedHasCache, CloseCache, clients, Empty
  <2> QED BY <1>1, <1>3, <2>1, <2>2 DEF LocalInv, StartedHasCache, ClosedByShutdown, CloseCache
<1> QED BY <1>2, <1>3

\* A step that changes nothing.
LEMMA LocalStutter == LocalInv /\ UNCHANGED vars => LocalInv'
BY DEF LocalInv, TypeOK, FiniteContents, StartedHasCache, MadeBound, ClosedByShutdown, AtInit,
       Present, vars, memory, clients, lifecycle

\* LocalInv is inductive.
LEMMA LocalNext == LocalInv /\ [Next]_vars => LocalInv'
<1> SUFFICES ASSUME LocalInv, [Next]_vars PROVE LocalInv'
  OBVIOUS
<1>1. ASSUME NEW c \in Clients, Client(c) PROVE LocalInv'
  BY <1>1, CallStep, EnsureStep, InitStep, ExecStep, OtherStep DEF Client
<1> QED BY <1>1, ShutdownStep, LocalStutter DEF Next

\* The memory's types, the limit of the cache included, in every behaviour.
THEOREM LocalTypes == Spec => []TypeOK
<1>1. LocalInv => TypeOK
  BY DEF LocalInv
<1> QED BY <1>1, LocalInit, LocalNext, PTL DEF Spec

\* However first calls overlap, no more caches are made than there are clients.
THEOREM CachePerClient == Spec => []OneCachePerClient
<1>1. LocalInv => OneCachePerClient
  BY InitBound DEF LocalInv, TypeOK, MadeBound, OneCachePerClient
<1> QED BY <1>1, LocalInit, LocalNext, PTL DEF Spec

\* After Shutdown the only cache stays closed and empty, however many calls are
\* still in flight or come later.
THEOREM ShutdownCloses == Spec => []ReleasedIsClosed
<1>1. LocalInv => ReleasedIsClosed
  BY DEF LocalInv, TypeOK, ClosedByShutdown, ReleasedIsClosed
<1> QED BY <1>1, LocalInit, LocalNext, PTL DEF Spec
-----------------------------------------------------------------------------
(* The cache implements the map of Memory.                                  *)

shut == down \/ made > 1 \/ evicted

\* The values the map of Memory may hold are those of the cache.
LEMMA SameContents ==
    {[u \in Values |-> u][v] : v \in DOMAIN [u \in Values |-> u]} \cup {NoValue}
      = Values \cup {NoValue}
OBVIOUS

\* A step that shows in none of the variables of Memory.
LEMMA PromiseStutter ==
    ASSUME UNCHANGED << mem, todo, result, down, made, evicted >>
    PROVE  [Promise!Next]_Promise!vars
BY DEF Promise!vars

\* Once the promise has ended, the contents may become anything.
LEMMA PromiseRelease ==
    ASSUME LocalInv', shut', UNCHANGED result,
           \/ UNCHANGED todo
           \/ \E c \in Clients : todo[c] # << >> /\ todo' = [todo EXCEPT ![c] = Tail(@)]
    PROVE  [Promise!Next]_Promise!vars
<1>1. mem' \in [Keys -> {[u \in Values |-> u][v] : v \in DOMAIN [u \in Values |-> u]}
                          \cup {NoValue}]
  BY SameContents DEF LocalInv, TypeOK
<1>2. Promise!Release
  BY <1>1 DEF Promise!Release, shut
<1> QED BY <1>2 DEF Promise!Next

\* The begin of a call is the begin of a call of Memory.
LEMMA PromiseCall ==
    ASSUME LocalInv, NEW c \in Clients, NEW s \in Seq(Updates), todo[c] = << >>,
           todo' = [todo EXCEPT ![c] = s], UNCHANGED << mem, result, down, made, evicted >>
    PROVE  [Promise!Next]_Promise!vars
<1>1. todo'[c] = s
  BY DEF LocalInv, TypeOK
<1>2. Promise!Call(c)
  BY <1>1 DEF Promise!Call
<1> QED BY <1>2 DEF Promise!Next

\* A client begins a call: so it does in Memory.
LEMMA CallImplements ==
    ASSUME LocalInv, NEW c \in Clients,
           \/ \E pairs \in SetCalls : SetMemory(c, pairs)
           \/ \E k \in Keys : GetMemory(c, k) \/ DeleteMemory(c, k)
           \/ ClearMemory(c) \/ trigLinks(c)
    PROVE  [Promise!Next]_Promise!vars
<1>0. todo[c] = << >>
  <2>1. Begin(c)
    BY DEF SetMemory, GetMemory, DeleteMemory, ClearMemory, Change, trigLinks
  <2> QED BY <2>1 DEF LocalInv, TypeOK, Begin
<1>1. ASSUME NEW pairs \in SetCalls, SetMemory(c, pairs) PROVE [Promise!Next]_Promise!vars
  <2> DEFINE new == [i \in DOMAIN pairs |->
                       [do |-> "set", key |-> pairs[i][1], value |-> pairs[i][2]]]
  <2>1. todo' = [todo EXCEPT ![c] = new] /\ new \in Seq(Updates)
    BY <1>1, PairsAreUpdates DEF SetMemory
  <2>2. UNCHANGED << mem, result, down, made, evicted >>
    BY <1>1 DEF SetMemory, memory, lifecycle
  <2> HIDE DEF new
  <2> QED BY <1>0, <2>1, <2>2, PromiseCall
<1>2. ASSUME NEW k \in Keys, GetMemory(c, k) PROVE [Promise!Next]_Promise!vars
  <2>1. CASE cache = "nil"
    <3>1. /\ result' = [result EXCEPT ![c] = NoValue]
          /\ UNCHANGED << mem, todo, down, made, evicted >>
      BY <1>2, <2>1 DEF GetMemory, memory, lifecycle
    <3>2. Promise!Read(c)
      BY <3>1 DEF Promise!Read
    <3> QED BY <3>2 DEF Promise!Next
  <2>2. CASE cache # "nil"
    BY <1>2, <2>2, PromiseStutter DEF GetMemory, memory, lifecycle
  <2> QED BY <2>1, <2>2
<1>3. ASSUME NEW u \in Updates, Change(c, u) PROVE [Promise!Next]_Promise!vars
  <2>1. UNCHANGED << mem, result, down, made, evicted >>
    BY <1>3 DEF Change, memory, lifecycle
  <2>2. CASE cache = "nil"
    BY <1>3, <2>1, <2>2, PromiseStutter DEF Change
  <2>3. CASE cache # "nil"
    <3>1. todo' = [todo EXCEPT ![c] = << u >>] /\ << u >> \in Seq(Updates)
      BY <1>3, <2>3 DEF Change
    <3> QED BY <1>0, <2>1, <3>1, PromiseCall
  <2> QED BY <2>2, <2>3
<1>4. ASSUME NEW k \in Keys, DeleteMemory(c, k) PROVE [Promise!Next]_Promise!vars
  BY <1>3, <1>4 DEF DeleteMemory, Updates
<1>5. CASE ClearMemory(c)
  BY <1>3, <1>5 DEF ClearMemory, Updates
<1>6. CASE trigLinks(c)
  BY <1>6, PromiseStutter DEF trigLinks, memory, lifecycle
<1> QED BY <1>1, <1>2, <1>4, <1>5, <1>6

\* A first cache is as empty as no cache; a second one ends the promise.
LEMMA InitImplements ==
    ASSUME LocalInv, LocalInv', NEW c \in Clients, initMemory(c)
    PROVE  [Promise!Next]_Promise!vars
<1>1. CASE configured
  <2>1. /\ mem' = Empty /\ made' = made + 1 /\ made \in Nat
        /\ UNCHANGED << todo, result, down, evicted >>
    BY <1>1 DEF initMemory, lifecycle, LocalInv, TypeOK
  <2>2. CASE made = 0
    <3>1. cache = "nil" /\ mem = Empty
      BY <2>2 DEF LocalInv, TypeOK
    <3>2. UNCHANGED << mem, todo, result, shut >>
      BY <2>1, <2>2, <3>1 DEF shut
    <3> QED BY <3>2 DEF Promise!vars, shut
  <2>3. CASE made # 0
    <3>1. shut'
      BY <2>1, <2>3 DEF shut
    <3> QED BY <2>1, <3>1, PromiseRelease
  <2> QED BY <2>2, <2>3
<1>2. CASE ~configured
  <2>1. /\ todo' = [todo EXCEPT ![c] = << >>]
        /\ UNCHANGED << mem, result, down, made, evicted >>
    BY <1>2 DEF initMemory, lifecycle, memory
  <2>2. CASE todo[c] = << >>
    <3>1. todo' = todo
      BY <2>1, <2>2 DEF LocalInv, TypeOK
    <3> QED BY <2>1, <3>1, PromiseStutter
  <2>3. CASE todo[c] # << >>
    <3>1. Promise!Fail(c)
      BY <2>1, <2>3 DEF Promise!Fail
    <3> QED BY <3>1 DEF Promise!Next
  <2> QED BY <2>2, <2>3
<1> QED BY <1>1, <1>2

\* A change of an open cache with room is the map's; a full cache ends the
\* promise, and a closed one is closed because Shutdown has ended it.
LEMMA ExecImplements ==
    ASSUME LocalInv, LocalInv', NEW c \in Clients, Exec(c)
    PROVE  [Promise!Next]_Promise!vars
<1> DEFINE u == Head(todo[c])
<1>1. /\ todo[c] # << >> /\ todo' = [todo EXCEPT ![c] = Tail(@)]
      /\ UNCHANGED << cache, result, down, made >>
  BY DEF Exec, lifecycle
<1>2. u \in Updates
  BY <1>1 DEF LocalInv, TypeOK
<1>3. CASE cache # "open"
  <2>1. cache = "closed"
    BY <1>3 DEF LocalInv, TypeOK, Exec
  <2>2. shut'
    BY <1>1, <2>1 DEF LocalInv, StartedHasCache, shut
  <2> QED BY <1>1, <2>2, PromiseRelease
<1>4. CASE cache = "open" /\ Overflows(u)
  <2>1. shut'
    BY <1>4 DEF Exec, shut
  <2> QED BY <1>1, <2>1, PromiseRelease
<1>5. CASE cache = "open" /\ ~Overflows(u)
  <2>1. mem' \in Applied(u) /\ evicted' = (evicted \/ Overflows(u))
    BY <1>5 DEF Exec
  <2>2. evicted' = evicted
    BY <1>5, <2>1 DEF LocalInv, TypeOK
  <2>3. Promise!Possible(u)
    BY <1>2, UpdateKinds DEF Promise!Possible
  <2>4. mem' = Promise!Applied(u)
    <3>1. CASE u.do = "set"
      <4>1. mem' \in AfterSet(u.key, u.value) /\ u.value \in Values
        BY <1>2, <2>1, <3>1, UpdateKinds DEF Applied
      <4>2. u.key \in Present \/ Cardinality(Present) < MaxCost
        BY <1>5, <3>1, FS_CardinalityType, LocalAssumption
           DEF Overflows, LocalInv, FiniteContents
      <4>3. mem' = [mem EXCEPT ![u.key] = u.value]
        BY <4>1, <4>2 DEF AfterSet
      <4> QED BY <3>1, <4>1, <4>3 DEF Promise!Applied
    <3>2. CASE u.do = "del"
      BY <2>1, <3>2 DEF Applied, Promise!Applied
    <3>3. CASE u.do = "clear"
      BY <2>1, <3>3 DEF Applied, Promise!Applied, Empty, Promise!Empty
    <3> QED BY <1>2, <3>1, <3>2, <3>3, UpdateKinds
  <2>5. Promise!Update(c)
    BY <1>1, <2>2, <2>3, <2>4 DEF Promise!Update
  <2> QED BY <2>5 DEF Promise!Next
<1> QED BY <1>3, <1>4, <1>5

\* The test of the cache, the start, a Get and a return, as Memory sees them.
LEMMA OtherImplements ==
    ASSUME LocalInv, LocalInv', NEW c \in Clients,
           ensureMemoryInit(c) \/ ensureMaintainerStart(c) \/ Return(c) \/ Get(c)
    PROVE  [Promise!Next]_Promise!vars
<1>1. CASE Get(c)
  <2>1. /\ key[c] \in Keys /\ result' = [result EXCEPT ![c] = mem[key[c]]]
        /\ UNCHANGED << mem, todo, down, made, evicted >>
    BY <1>1 DEF Get, LocalInv, TypeOK, memory, lifecycle
  <2>2. Promise!Read(c)
    BY <2>1 DEF Promise!Read
  <2> QED BY <2>2 DEF Promise!Next
<1>2. CASE ensureMemoryInit(c) \/ ensureMaintainerStart(c) \/ Return(c)
  BY <1>2, PromiseStutter DEF ensureMemoryInit, ensureMaintainerStart, Return, memory, lifecycle
<1> QED BY <1>1, <1>2

\* Shutdown ends what is remembered.
LEMMA ShutdownImplements ==
    ASSUME LocalInv, LocalInv', Shutdown \/ CloseCache
    PROVE  [Promise!Next]_Promise!vars
<1>1. down' /\ UNCHANGED << todo, result >>
  BY DEF Shutdown, CloseCache, clients, LocalInv, StartedHasCache
<1> QED BY <1>1, PromiseRelease DEF shut

\* The cache is the shared map that the README promises: every behaviour of the
\* code is one of Memory, with SetMemory's changes made one by one, until
\* Shutdown, a second cache or the limit maxCost ends the promise.
THEOREM LocalImplementsMemory == Spec => ImplementsMemory
<1>1. Init => Promise!Init
  BY DEF Init, Promise!Init, Empty, Promise!Empty
<1>2. LocalInv /\ LocalInv' /\ [Next]_vars => [Promise!Next]_Promise!vars
  <2> SUFFICES ASSUME LocalInv, LocalInv', [Next]_vars PROVE [Promise!Next]_Promise!vars
    OBVIOUS
  <2>1. ASSUME NEW c \in Clients, Client(c) PROVE [Promise!Next]_Promise!vars
    BY <2>1, CallImplements, InitImplements, ExecImplements, OtherImplements DEF Client
  <2>2. CASE UNCHANGED vars
    BY <2>2, PromiseStutter DEF vars, memory, clients, lifecycle
  <2> QED BY <2>1, <2>2, ShutdownImplements DEF Next
<1>3. Spec => []LocalInv
  BY LocalInit, LocalNext, PTL DEF Spec
<1> QED BY <1>1, <1>2, <1>3, PTL DEF Spec, ImplementsMemory, Promise!Spec

=============================================================================
