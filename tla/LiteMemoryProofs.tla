-------------------------- MODULE LiteMemoryProofs --------------------------
(***************************************************************************)
(* Proofs about the Memory of a BrainLite: the types, CrashNeedsShutdown,  *)
(* ReleasedIsGone, FailuresExplained, and that what GetMemory sees         *)
(* implements the map of Memory, for every set of clients, every set of    *)
(* keys and every way they print, and every set of values.                 *)
(***************************************************************************)
EXTENDS LiteMemory, SequenceTheorems, TLAPS

-----------------------------------------------------------------------------
(* The inductive invariant.                                                 *)

\* TypeOK in two halves: the database and the brain, and the clients.
DatabaseTypes ==
    /\ db \in {"nil", "open", "closed"} /\ sPc \in {"idle", "close", "drop", "remove"}
    /\ {connected, onDisk, table, started, down, panicked} \subseteq BOOLEAN
    /\ rows \in [Range(Printed) -> Values \cup {NoValue}] /\ (rows # NoRows => table)

ClientTypes ==
    /\ pc \in [Clients -> {"idle", "ensure", "open", "create", "start", "exec", "get"}]
    /\ todo \in [Clients -> Seq(Updates)]
    /\ \A c \in Clients : todo[c] # << >> => pc[c] \in {"ensure", "open", "create", "exec"}
    /\ key \in [Clients -> Keys \cup BadKeys \cup {NoValue}]
    /\ result \in [Clients -> Values \cup {NoValue}]
    /\ calls \in 0..MaxCalls

\* Only an open handle is connected, and a table that is neither in a file nor
\* behind a connected handle is gone.
HandleAndFile ==
    /\ db # "open" => ~connected
    /\ ~onDisk /\ ~connected => ~table

\* Shutdown is between its steps only if it was called.
ShutdownUnderWay == sPc # "idle" => down

\* Before the first Shutdown a handle that was published stays; it has its
\* table, and the table its file, unless a client is about to create it.
Undisturbed ==
    ~down => /\ ~panicked /\ db # "closed"
             /\ table \/ connected => onDisk
             /\ db = "nil" => ~table
             /\ \A c \in Clients : pc[c] \in {"create", "exec", "get"} => db # "nil"
             /\ db = "open" /\ ~table => \E c \in Clients : pc[c] = "create"

LiteInv ==
    /\ DatabaseTypes /\ ClientTypes /\ HandleAndFile /\ ShutdownUnderWay
    /\ Undisturbed /\ ReleasedIsGone

-----------------------------------------------------------------------------
(* Lemmas about the operators.                                              *)

\* The pairs of a SetMemory become a sequence of changes.
LEMMA PairsAreUpdates ==
    ASSUME NEW pairs \in SetCalls
    PROVE  [i \in DOMAIN pairs |-> [do |-> "set", key |-> pairs[i][1], value |-> pairs[i][2]]]
             \in Seq(Updates)
<1> DEFINE K == Keys \cup BadKeys
           V == Values \cup BadValues
<1>1. pairs \in Seq(K \X V)
  BY CallsAssumption
<1>2. DOMAIN pairs = 1..Len(pairs) /\ Len(pairs) \in Nat
  BY <1>1
<1>3. \A i \in DOMAIN pairs :
        [do |-> "set", key |-> pairs[i][1], value |-> pairs[i][2]] \in Updates
  <2>1. TAKE i \in DOMAIN pairs
  <2> HIDE DEF K, V
  <2>2. pairs[i] \in K \X V
    BY <1>1, <1>2
  <2>3. pairs[i][1] \in K /\ pairs[i][2] \in V
    BY <2>2
  <2> QED BY <2>3 DEF Updates, K, V
<1> QED BY <1>2, <1>3

\* A change is one of three, with a key and a value.
LEMMA UpdateKinds ==
    ASSUME NEW u \in Updates
    PROVE  /\ u.do \in {"set", "del", "clear"}
           /\ u.do \in {"set", "del"} => u.key \in Keys \cup BadKeys
           /\ u.do = "set" => u.value \in Values \cup BadValues
BY DEF Updates

\* A change that hashKey and json.Marshal take is of a row of the table.
LEMMA SupportedRows ==
    ASSUME NEW u \in Updates, ~Unsupported(u)
    PROVE  /\ u.do \in {"set", "del"} => u.key \in Keys /\ hashKey(u.key) \in Range(Printed)
           /\ u.do = "set" => u.value \in Values
<1>1. /\ u.do \in {"set", "del"} => u.key \in Keys
      /\ u.do = "set" => u.value \in Values
  BY UpdateKinds DEF Unsupported
<1> QED BY <1>1, KeysAssumption DEF Range, hashKey

\* INSERT and DELETE keep the table a table.
LEMMA StoredRows ==
    ASSUME NEW u \in Updates, ~Unsupported(u),
           rows \in [Range(Printed) -> Values \cup {NoValue}]
    PROVE  Stored(u) \in [Range(Printed) -> Values \cup {NoValue}]
<1>1. CASE u.do = "set"
  BY <1>1, SupportedRows DEF Stored
<1>2. CASE u.do = "del"
  BY <1>2, SupportedRows DEF Stored
<1>3. CASE u.do = "clear"
  BY <1>3 DEF Stored, NoRows
<1> QED BY <1>1, <1>2, <1>3, UpdateKinds

\* Another handle on the file finds what is in the file.
LEMMA FileOnlyTypes ==
    ASSUME DatabaseTypes, FileOnly
    PROVE  /\ {connected', onDisk', table'} \subseteq BOOLEAN
           /\ rows' \in [Range(Printed) -> Values \cup {NoValue}] /\ (rows' # NoRows => table')
           /\ ~connected' /\ (~onDisk' => ~table')
<1>1. {connected', onDisk', table'} \subseteq BOOLEAN
  BY Zenon DEF DatabaseTypes, FileOnly
<1>2. CASE onDisk
  BY <1>1, <1>2 DEF DatabaseTypes, FileOnly, NoRows
<1>3. CASE ~onDisk
  BY <1>1, <1>3 DEF DatabaseTypes, FileOnly, NoRows
<1> QED BY <1>1, <1>2, <1>3

\* A use of the handle leaves it connected to a file that exists, or to one
\* that was removed while it was connected.
LEMMA ConnectTypes ==
    ASSUME DatabaseTypes, Connect
    PROVE  /\ connected' /\ onDisk' \in BOOLEAN /\ db' = db
           /\ onDisk => onDisk'
           /\ ~connected => onDisk'
BY DEF DatabaseTypes, Connect

\* The value read is a value.
LEMMA ValueAtType ==
    ASSUME DatabaseTypes, NEW p \in Range(Printed)
    PROVE  ValueAt(p) \in Values \cup {NoValue}
BY KeysAssumption DEF DatabaseTypes, ValueAt

-----------------------------------------------------------------------------
(* What the steps do to the database and the brain.                         *)

\* All of the invariant but the types of the clients.
BrainInv ==
    DatabaseTypes /\ HandleAndFile /\ ShutdownUnderWay /\ Undisturbed /\ ReleasedIsGone

\* A client moves to a point where it needs no handle, or there is one; it does
\* not leave the creation of the table undone, except after a Shutdown.
Moves(c, l) ==
    /\ pc' = [pc EXCEPT ![c] = l]
    /\ l \in {"create", "exec", "get"} => db # "nil"
    /\ pc[c] = "create" => down \/ table'

\* The control point of another client, and of the one that moves.
LEMMA MovedPc ==
    ASSUME ClientTypes, NEW c \in Clients, NEW l, pc' = [pc EXCEPT ![c] = l]
    PROVE  pc'[c] = l /\ \A d \in Clients : d # c => pc'[d] = pc[d]
BY DEF ClientTypes

\* A step of a client that leaves the database alone keeps what is known of it.
LEMMA DatabaseKept ==
    ASSUME LiteInv, NEW c \in Clients, NEW l, pc' = pc \/ Moves(c, l),
           UNCHANGED << database, sPc, down, panicked >>, started' \in BOOLEAN
    PROVE  BrainInv'
<1>1. DatabaseTypes' /\ HandleAndFile' /\ ShutdownUnderWay' /\ ReleasedIsGone'
  BY DEF LiteInv, DatabaseTypes, HandleAndFile, ShutdownUnderWay, ReleasedIsGone, database
<1>2. Undisturbed'
  <2> SUFFICES ASSUME ~down' PROVE Undisturbed'
    BY DEF Undisturbed
  <2>1. ~down /\ UNCHANGED << db, connected, onDisk, table, panicked >>
    BY DEF database
  <2>2. \A d \in Clients : pc'[d] \in {"create", "exec", "get"} => db' # "nil"
    BY <2>1, MovedPc DEF LiteInv, Undisturbed, Moves
  <2>3. db' = "open" /\ ~table' => \E d \in Clients : pc'[d] = "create"
    BY <2>1, MovedPc DEF LiteInv, Undisturbed, Moves
  <2> QED BY <2>1, <2>2, <2>3 DEF LiteInv, Undisturbed
<1> QED BY <1>1, <1>2 DEF BrainInv

\* A step that uses an open handle.
LEMMA DatabaseUsed ==
    ASSUME LiteInv, NEW c \in Clients, NEW l, pc' = pc \/ Moves(c, l),
           UNCHANGED << lifecycle, panicked >>,
           db = "open", Connect, table' \in BOOLEAN, table => table',
           rows' \in [Range(Printed) -> Values \cup {NoValue}], rows' # NoRows => table'
    PROVE  BrainInv'
<1>1. /\ connected' /\ onDisk' \in BOOLEAN /\ db' = "open"
      /\ onDisk => onDisk'
      /\ ~connected => onDisk'
  BY ConnectTypes DEF LiteInv
<1>2. connected' \in BOOLEAN
  BY DEF Connect
<1>3. DatabaseTypes'
  <2>1. {connected', onDisk', table', started', down', panicked'} \subseteq BOOLEAN
    BY <1>1, <1>2 DEF LiteInv, DatabaseTypes, lifecycle
  <2> QED BY <1>1, <2>1 DEF LiteInv, DatabaseTypes, lifecycle
<1>4. HandleAndFile' /\ ShutdownUnderWay' /\ ReleasedIsGone'
  BY <1>1 DEF LiteInv, HandleAndFile, ShutdownUnderWay, ReleasedIsGone, lifecycle
<1>5. Undisturbed'
  <2> SUFFICES ASSUME ~down' PROVE Undisturbed'
    BY DEF Undisturbed
  <2>1. ~down /\ ~panicked'
    BY DEF lifecycle, LiteInv, Undisturbed
  <2>2. onDisk'
    BY <1>1, <2>1 DEF LiteInv, Undisturbed
  <2>3. ~table' => \E d \in Clients : pc'[d] = "create"
    BY <2>1, MovedPc DEF LiteInv, Undisturbed, Moves
  <2> QED BY <1>1, <2>1, <2>2, <2>3 DEF Undisturbed
<1> QED BY <1>3, <1>4, <1>5 DEF BrainInv

\* Init opens another handle.
LEMMA DatabaseOpened ==
    ASSUME LiteInv, NEW c \in Clients, InitOpen(c)
    PROVE  BrainInv'
<1>1. /\ db' = "open" /\ FileOnly /\ pc' = [pc EXCEPT ![c] = "create"]
      /\ UNCHANGED << started, sPc, down, panicked >>
  BY DEF InitOpen, Goto, lifecycle
<1>2. /\ {connected', onDisk', table'} \subseteq BOOLEAN
      /\ rows' \in [Range(Printed) -> Values \cup {NoValue}] /\ (rows' # NoRows => table')
      /\ ~connected' /\ (~onDisk' => ~table')
  BY <1>1, FileOnlyTypes DEF LiteInv
<1>3. DatabaseTypes'
  <2>1. {started', down', panicked'} \subseteq BOOLEAN
    BY <1>1 DEF LiteInv, DatabaseTypes
  <2>2. {connected', onDisk', table', started', down', panicked'} \subseteq BOOLEAN
    BY <1>2, <2>1
  <2> QED BY <1>1, <1>2, <2>2 DEF LiteInv, DatabaseTypes
<1>4. HandleAndFile' /\ ShutdownUnderWay' /\ ReleasedIsGone'
  BY <1>1, <1>2 DEF LiteInv, HandleAndFile, ShutdownUnderWay, ReleasedIsGone
<1>5. Undisturbed'
  <2>1. pc'[c] = "create"
    BY <1>1, MovedPc DEF LiteInv
  <2> QED BY <1>1, <1>2, <2>1 DEF LiteInv, Undisturbed
<1> QED BY <1>3, <1>4, <1>5 DEF BrainInv

\* A nil handle is met only after a Shutdown; the database stays as it is.
LEMMA DatabaseCrash ==
    ASSUME LiteInv, NEW c \in Clients, NilHandle(c), pc[c] \in {"create", "exec", "get"}
    PROVE  BrainInv' /\ ClientTypes'
<1>1. UNCHANGED << db, connected, onDisk, table, rows, pc, todo, key, result, calls >>
  BY DEF NilHandle, database, clients
<1>2. down /\ UNCHANGED << started, sPc, down >> /\ panicked' = TRUE
  BY DEF NilHandle, lifecycle, LiteInv, Undisturbed
<1>3. ClientTypes'
  BY <1>1 DEF LiteInv, ClientTypes
<1>4. DatabaseTypes'
  <2>1. {connected, onDisk, table, started, down, panicked'} \subseteq BOOLEAN
    BY <1>2 DEF LiteInv, DatabaseTypes
  <2> QED BY <1>1, <1>2, <2>1 DEF LiteInv, DatabaseTypes
<1>5. HandleAndFile' /\ ShutdownUnderWay' /\ ReleasedIsGone' /\ Undisturbed'
  BY <1>1, <1>2 DEF LiteInv, HandleAndFile, ShutdownUnderWay, ReleasedIsGone, Undisturbed
<1> QED BY <1>3, <1>4, <1>5 DEF BrainInv

\* The steps of Shutdown keep the invariant.
LEMMA ShutdownStep ==
    ASSUME LiteInv, Shutdown \/ CloseHandle \/ DropHandle \/ RemoveFile
    PROVE  LiteInv'
<1>0. ClientTypes'
  BY DEF LiteInv, ClientTypes, Shutdown, CloseHandle, DropHandle, RemoveFile, clients
<1>a. ASSUME down', sPc' \in {"idle", "close", "drop", "remove"},
             {started', panicked', down'} \subseteq BOOLEAN,
             db' \in {"nil", "open", "closed"},
             {connected', onDisk', table'} \subseteq BOOLEAN,
             rows' \in [Range(Printed) -> Values \cup {NoValue}], rows' # NoRows => table',
             HandleAndFile', ReleasedIsGone'
      PROVE  LiteInv'
  <2>1. {connected', onDisk', table', started', down', panicked'} \subseteq BOOLEAN
    BY <1>a
  <2> QED BY <1>0, <1>a, <2>1 DEF LiteInv, DatabaseTypes, ShutdownUnderWay, Undisturbed
<1>b. down' /\ {started', panicked', down'} \subseteq BOOLEAN
  <2>1. down' = TRUE
    BY Zenon DEF LiteInv, DatabaseTypes, ShutdownUnderWay, Shutdown, CloseHandle, DropHandle,
                 RemoveFile
  <2>2. started' \in BOOLEAN
    BY DEF LiteInv, DatabaseTypes, Shutdown, CloseHandle, DropHandle, RemoveFile
  <2>3. panicked' \in BOOLEAN
    BY DEF LiteInv, DatabaseTypes, Shutdown, CloseHandle, DropHandle, RemoveFile
  <2> QED BY <2>1, <2>2, <2>3
<1>1. CASE Shutdown
  <2>1. UNCHANGED << db, connected, onDisk, table, rows >> /\ sPc' = "close"
    BY <1>1 DEF Shutdown, database
  <2> QED BY <1>a, <1>b, <2>1
          DEF LiteInv, DatabaseTypes, HandleAndFile, ReleasedIsGone
<1>2. CASE CloseHandle
  <2>1. CASE db = "nil"
    <3>1. UNCHANGED << db, connected, onDisk, table, rows, sPc >> /\ sPc = "close"
      BY <1>2, <2>1 DEF CloseHandle, database
    <3> QED BY <1>a, <1>b, <3>1
            DEF LiteInv, DatabaseTypes, HandleAndFile, ReleasedIsGone
  <2>2. CASE db # "nil"
    <3>1. db' = "closed" /\ FileOnly /\ sPc' = "drop"
      BY <1>2, <2>2 DEF CloseHandle
    <3> QED BY <1>a, <1>b, <3>1, FileOnlyTypes DEF LiteInv, HandleAndFile, ReleasedIsGone
  <2> QED BY <2>1, <2>2
<1>3. CASE DropHandle
  <2>1. db' = "nil" /\ FileOnly /\ sPc' = "remove"
    BY <1>3 DEF DropHandle
  <2> QED BY <1>a, <1>b, <2>1, FileOnlyTypes DEF LiteInv, HandleAndFile, ReleasedIsGone
<1>4. CASE RemoveFile
  <2>1. sPc' = "idle"
    BY <1>4 DEF RemoveFile
  <2>2. CASE KeepMemory \/ ~onDisk
    <3>1. UNCHANGED << db, connected, onDisk, table, rows >>
      BY <1>4, <2>2 DEF RemoveFile, database
    <3>2. ReleasedIsGone'
      BY <2>2, <3>1 DEF ReleasedIsGone, LiteInv, HandleAndFile
    <3> QED BY <1>a, <1>b, <2>1, <3>1, <3>2 DEF LiteInv, DatabaseTypes, HandleAndFile
  <2>3. CASE ~(KeepMemory \/ ~onDisk)
    <3>1. /\ onDisk' = FALSE /\ table' = (table /\ connected)
          /\ rows' = IF connected THEN rows ELSE NoRows
          /\ UNCHANGED << db, connected >>
      BY <1>4, <2>3 DEF RemoveFile
    <3>2. {connected', onDisk', table'} \subseteq BOOLEAN
      BY <3>1, Zenon DEF LiteInv, DatabaseTypes
    <3>3. rows' \in [Range(Printed) -> Values \cup {NoValue}] /\ (rows' # NoRows => table')
      BY <3>1 DEF LiteInv, DatabaseTypes, NoRows
    <3>4. HandleAndFile' /\ ReleasedIsGone'
      BY <3>1, <3>2 DEF LiteInv, DatabaseTypes, HandleAndFile, ReleasedIsGone
    <3> QED BY <1>a, <1>b, <2>1, <3>1, <3>2, <3>3, <3>4 DEF LiteInv, DatabaseTypes
  <2> QED BY <2>2, <2>3
<1> QED BY <1>1, <1>2, <1>3, <1>4
-----------------------------------------------------------------------------
(* The invariant holds initially and every step keeps it.                   *)

\* The invariant holds of a brain that has just been built.
LEMMA LiteInit == Init => LiteInv
<1> SUFFICES ASSUME Init PROVE LiteInv
  OBVIOUS
<1>1. DatabaseTypes
  <2>1. {connected, onDisk, table, started, down, panicked} \subseteq BOOLEAN
    BY Zenon DEF Init
  <2>2. rows \in [Range(Printed) -> Values \cup {NoValue}] /\ rows = NoRows
    BY DEF Init, NoRows
  <2> QED BY <2>1, <2>2 DEF Init, DatabaseTypes
<1>2. ClientTypes
  <2>1. todo \in [Clients -> Seq(Updates)] /\ \A c \in Clients : todo[c] = << >>
    BY DEF Init
  <2>2. calls \in 0..MaxCalls
    BY CallsAssumption DEF Init
  <2> QED BY <2>1, <2>2 DEF Init, ClientTypes
<1>3. \A c \in Clients : pc[c] = "idle"
  BY DEF Init
<1> QED BY <1>1, <1>2, <1>3
        DEF Init, LiteInv, HandleAndFile, ShutdownUnderWay, Undisturbed, ReleasedIsGone

\* The invariant, in what concerns the brain and what concerns the clients.
LEMMA InvParts == BrainInv' /\ ClientTypes' => LiteInv'
BY DEF LiteInv, BrainInv

\* A call begins at an idle client, which has nothing left to change.
LEMMA BeginFacts ==
    ASSUME LiteInv, NEW c \in Clients, Begin(c)
    PROVE  todo[c] = << >> /\ pc[c] = "idle" /\ calls' \in 0..MaxCalls
<1>1. pc[c] = "idle" /\ calls < MaxCalls /\ calls' = calls + 1
  BY DEF Begin
<1>2. calls \in 0..MaxCalls /\ MaxCalls \in Nat
  BY CallsAssumption DEF LiteInv, ClientTypes
<1>3. todo[c] = << >>
  BY <1>1 DEF LiteInv, ClientTypes
<1> QED BY <1>1, <1>2, <1>3

\* A client begins a call.
LEMMA CallStep ==
    ASSUME LiteInv, NEW c \in Clients,
           \/ \E pairs \in SetCalls : SetMemory(c, pairs)
           \/ \E k \in Keys \cup BadKeys : GetMemory(c, k) \/ DeleteMemory(c, k)
           \/ ClearMemory(c) \/ trigLinks(c)
    PROVE  LiteInv'
<1>a. Begin(c) /\ UNCHANGED << database, lifecycle, panicked >>
  BY DEF SetMemory, GetMemory, DeleteMemory, ClearMemory, Change, trigLinks
<1>0. todo[c] = << >> /\ pc[c] = "idle" /\ calls' \in 0..MaxCalls
  BY <1>a, BeginFacts
<1>b. ASSUME NEW l, pc' = pc \/ pc' = [pc EXCEPT ![c] = l],
             l \in {"create", "exec", "get"} => db # "nil"
      PROVE  BrainInv'
  <2>1. UNCHANGED << database, sPc, down, panicked >> /\ started' \in BOOLEAN
    BY <1>a DEF lifecycle, LiteInv, DatabaseTypes
  <2>2. pc' = pc \/ Moves(c, l)
    BY <1>0, <1>b DEF Moves
  <2> QED BY <2>1, <2>2, DatabaseKept
<1>1. ASSUME NEW pairs \in SetCalls, SetMemory(c, pairs) PROVE LiteInv'
  <2> DEFINE new == [i \in DOMAIN pairs |->
                       [do |-> "set", key |-> pairs[i][1], value |-> pairs[i][2]]]
  <2>1. todo' = [todo EXCEPT ![c] = new] /\ new \in Seq(Updates)
    BY <1>1, PairsAreUpdates DEF SetMemory
  <2>2. pc' = [pc EXCEPT ![c] = "ensure"] /\ UNCHANGED << key, result >>
    BY <1>1 DEF SetMemory, Goto
  <2> HIDE DEF new
  <2>3. ClientTypes'
    BY <1>0, <2>1, <2>2 DEF LiteInv, ClientTypes
  <2> QED BY <1>b, <2>2, <2>3, InvParts
<1>2. ASSUME NEW k \in Keys \cup BadKeys, GetMemory(c, k) PROVE LiteInv'
  <2>1. BrainInv'
    BY <1>b, <1>2 DEF GetMemory, Goto
  <2>2. ClientTypes'
    BY <1>0, <1>2 DEF LiteInv, ClientTypes, GetMemory, Goto
  <2> QED BY <2>1, <2>2, InvParts
<1>3. ASSUME NEW u \in Updates, Change(c, u) PROVE LiteInv'
  <2>1. BrainInv'
    BY <1>b, <1>3 DEF Change, Goto
  <2>2. << u >> \in Seq(Updates)
    OBVIOUS
  <2>3. ClientTypes'
    BY <1>0, <1>3, <2>2 DEF LiteInv, ClientTypes, Change, Goto
  <2> QED BY <2>1, <2>3, InvParts
<1>4. ASSUME NEW k \in Keys \cup BadKeys, DeleteMemory(c, k) PROVE LiteInv'
  BY <1>3, <1>4 DEF DeleteMemory, Updates
<1>5. CASE ClearMemory(c)
  BY <1>3, <1>5 DEF ClearMemory, Updates
<1>6. CASE trigLinks(c)
  <2>1. BrainInv'
    BY <1>b, <1>6 DEF trigLinks, Goto
  <2>2. ClientTypes'
    BY <1>0, <1>6 DEF LiteInv, ClientTypes, trigLinks, Goto
  <2> QED BY <2>1, <2>2, InvParts
<1> QED BY <1>1, <1>2, <1>4, <1>5, <1>6

\* The first use of the memory: the test, the open, the creation of the table.
LEMMA InitStep ==
    ASSUME LiteInv, NEW c \in Clients, ensureMemoryInit(c) \/ InitOpen(c) \/ InitCreate(c)
    PROVE  LiteInv'
<1>0. AfterInit(c) \in {"start", "exec"} /\ (AfterInit(c) = "start" <=> todo[c] = << >>)
  BY DEF AfterInit
<1>1. CASE ensureMemoryInit(c)
  <2>1. \E l \in {"open", AfterInit(c)} : Moves(c, l)
    BY <1>0, <1>1 DEF ensureMemoryInit, Moves, Goto
  <2>2. UNCHANGED << database, sPc, down, panicked >> /\ started' \in BOOLEAN
    BY <1>1 DEF ensureMemoryInit, lifecycle, LiteInv, DatabaseTypes
  <2>3. BrainInv'
    BY <2>1, <2>2, DatabaseKept
  <2>4. ClientTypes'
    BY <1>0, <1>1 DEF LiteInv, ClientTypes, ensureMemoryInit, Goto
  <2> QED BY <2>3, <2>4, InvParts
<1>2. CASE InitOpen(c)
  <2>1. ClientTypes'
    BY <1>2 DEF LiteInv, ClientTypes, InitOpen, Goto
  <2> QED BY <1>2, <2>1, DatabaseOpened, InvParts
<1>3. CASE InitCreate(c)
  <2>0. pc[c] = "create"
    BY <1>3 DEF InitCreate
  <2>1. CASE NilHandle(c)
    BY <2>0, <2>1, DatabaseCrash, InvParts
  <2>2. CASE db = "closed" /\ Failed(c) /\ UNCHANGED database
    <3>1. Moves(c, "idle") /\ UNCHANGED << database, sPc, down, panicked >> /\ started' \in BOOLEAN
      BY <2>2 DEF Failed, Moves, Goto, lifecycle, LiteInv, Undisturbed, DatabaseTypes
    <3>2. ClientTypes'
      BY <2>2 DEF LiteInv, ClientTypes, Failed, Goto
    <3> QED BY <3>1, <3>2, DatabaseKept, InvParts
  <2>3. CASE /\ db = "open" /\ Connect
             /\ table' = TRUE /\ UNCHANGED rows
             /\ Goto(c, AfterInit(c))
             /\ UNCHANGED << todo, key, result, lifecycle, panicked, calls >>
    <3>1. Moves(c, AfterInit(c))
      BY <2>3 DEF Moves, Goto
    <3>2. BrainInv'
      BY <2>3, <3>1, DatabaseUsed DEF LiteInv, DatabaseTypes
    <3>3. ClientTypes'
      BY <1>0, <2>3 DEF LiteInv, ClientTypes, Goto
    <3> QED BY <3>2, <3>3, InvParts
  <2> QED BY <1>3, <2>1, <2>2, <2>3 DEF InitCreate
<1> QED BY <1>1, <1>2, <1>3

\* A statement that writes.
LEMMA ExecStep ==
    ASSUME LiteInv, NEW c \in Clients, Exec(c)
    PROVE  LiteInv'
<1> DEFINE u == Head(todo[c])
<1>0. /\ pc[c] = "exec" /\ todo[c] # << >> /\ todo[c] \in Seq(Updates)
      /\ u \in Updates /\ Tail(todo[c]) \in Seq(Updates)
  BY DEF LiteInv, ClientTypes, Exec
<1>a. ASSUME Failed(c) PROVE Moves(c, "idle") /\ ClientTypes' /\ UNCHANGED << lifecycle, panicked >>
  BY <1>0, <1>a DEF Failed, Moves, Goto, LiteInv, ClientTypes
<1>1. CASE Failed(c) /\ UNCHANGED database
  <2>1. UNCHANGED << database, sPc, down, panicked >> /\ started' \in BOOLEAN
    BY <1>1 DEF Failed, lifecycle, LiteInv, DatabaseTypes
  <2> QED BY <1>1, <1>a, <2>1, DatabaseKept, InvParts
<1>2. CASE NilHandle(c)
  BY <1>0, <1>2, DatabaseCrash, InvParts
<1>3. CASE db = "open" /\ ~table /\ Connect /\ Failed(c) /\ UNCHANGED << table, rows >>
  <2>1. BrainInv'
    BY <1>3, <1>a, DatabaseUsed DEF LiteInv, DatabaseTypes
  <2> QED BY <1>3, <1>a, <2>1, InvParts
<1>4. CASE /\ ~Unsupported(u) /\ db = "open" /\ table
           /\ Connect
           /\ rows' = Stored(u) /\ UNCHANGED table
           /\ todo' = [todo EXCEPT ![c] = Tail(@)]
           /\ UNCHANGED << pc, key, result, lifecycle, panicked, calls >>
  <2>1. rows' \in [Range(Printed) -> Values \cup {NoValue}]
    BY <1>0, <1>4, StoredRows DEF LiteInv, DatabaseTypes
  <2>2. BrainInv'
    <3> HIDE DEF u
    <3> QED BY <1>4, <2>1, DatabaseUsed DEF LiteInv, DatabaseTypes
  <2>3. ClientTypes'
    BY <1>0, <1>4 DEF LiteInv, ClientTypes
  <2> QED BY <2>2, <2>3, InvParts
<1> QED BY <1>1, <1>2, <1>3, <1>4 DEF Exec

\* A query.
LEMMA GetStep ==
    ASSUME LiteInv, NEW c \in Clients, Get(c)
    PROVE  LiteInv'
<1>0. pc[c] = "get"
  BY DEF Get
<1>1. CASE NilHandle(c)
  BY <1>0, <1>1, DatabaseCrash, InvParts
<1>2. CASE ~NilHandle(c)
  <2> DEFINE found == IF key[c] \in Keys /\ db = "open" /\ table
                      THEN ValueAt(hashKey(key[c])) ELSE NoValue
  <2>1. /\ result' = [result EXCEPT ![c] = found]
        /\ IF key[c] \in Keys /\ db = "open"
           THEN Connect /\ UNCHANGED << table, rows >> ELSE UNCHANGED database
        /\ Goto(c, "idle") /\ key' = [key EXCEPT ![c] = NoValue]
        /\ UNCHANGED << todo, lifecycle, panicked, calls >>
    BY <1>2 DEF Get
  <2>2. found \in Values \cup {NoValue}
    BY ValueAtType, KeysAssumption DEF LiteInv, hashKey, Range
  <2>3. Moves(c, "idle")
    BY <1>0, <2>1 DEF Moves, Goto
  <2>4. ClientTypes'
    <3> HIDE DEF found
    <3> QED BY <1>0, <2>1, <2>2 DEF LiteInv, ClientTypes, Goto
  <2>5. BrainInv'
    <3>1. CASE key[c] \in Keys /\ db = "open"
      <4>1. /\ table' \in BOOLEAN /\ (table => table')
            /\ rows' \in [Range(Printed) -> Values \cup {NoValue}] /\ (rows' # NoRows => table')
        BY <2>1, <3>1 DEF LiteInv, DatabaseTypes
      <4> QED BY <2>1, <2>3, <3>1, <4>1, DatabaseUsed
    <3>2. CASE ~(key[c] \in Keys /\ db = "open")
      <4>1. UNCHANGED << database, sPc, down, panicked >> /\ started' \in BOOLEAN
        BY <2>1, <3>2 DEF lifecycle, LiteInv, DatabaseTypes
      <4> QED BY <2>3, <4>1, DatabaseKept
    <3> QED BY <3>1, <3>2
  <2> QED BY <2>4, <2>5, InvParts
<1> QED BY <1>1, <1>2

\* The start of the maintainer and the return of a call.
LEMMA OtherStep ==
    ASSUME LiteInv, NEW c \in Clients, ensureMaintainerStart(c) \/ Return(c)
    PROVE  LiteInv'
<1>1. Moves(c, "idle")
  BY DEF ensureMaintainerStart, Return, Moves, Goto
<1>2. UNCHANGED << database, sPc, down, panicked >> /\ started' \in BOOLEAN
  BY DEF ensureMaintainerStart, Return, lifecycle, LiteInv, DatabaseTypes
<1>3. ClientTypes'
  BY DEF ensureMaintainerStart, Return, Goto, LiteInv, ClientTypes
<1> QED BY <1>1, <1>2, <1>3, DatabaseKept, InvParts

\* LiteInv is inductive.
LEMMA LiteNext == LiteInv /\ [Next]_vars => LiteInv'
<1> SUFFICES ASSUME LiteInv, [Next]_vars PROVE LiteInv'
  OBVIOUS
<1>1. ASSUME NEW c \in Clients, Client(c) PROVE LiteInv'
  BY <1>1, CallStep, InitStep, ExecStep, GetStep, OtherStep DEF Client
<1>2. CASE UNCHANGED vars
  BY <1>2 DEF LiteInv, DatabaseTypes, ClientTypes, HandleAndFile, ShutdownUnderWay, Undisturbed,
              ReleasedIsGone, vars, database, clients, lifecycle
<1> QED BY <1>1, <1>2, ShutdownStep DEF Next

\* LiteInv holds in every reachable state.
LEMMA LiteInvariant == Spec => []LiteInv
BY LiteInit, LiteNext, PTL DEF Spec

\* The memory's types in every behaviour: rows only in a table, and only values
\* that json.Marshal takes.
THEOREM LiteTypes == Spec => []TypeOK
<1>1. LiteInv => TypeOK
  BY DEF LiteInv, DatabaseTypes, ClientTypes, TypeOK
<1> QED BY <1>1, LiteInvariant, PTL

\* However calls overlap, a nil handle is used only after a Shutdown.
THEOREM CrashOnlyAfterShutdown == Spec => []CrashNeedsShutdown
<1>1. LiteInv => CrashNeedsShutdown
  BY DEF LiteInv, Undisturbed, CrashNeedsShutdown
<1> QED BY <1>1, LiteInvariant, PTL

\* After Shutdown, until a later call opens the memory again, the file is gone.
THEOREM FileReleased == Spec => []ReleasedIsGone
<1>1. LiteInv => ReleasedIsGone
  BY DEF LiteInv
<1> QED BY <1>1, LiteInvariant, PTL
-----------------------------------------------------------------------------
(* Failures.                                                                *)

\* What makes the call of c give up.
Reason(c) ==
    \/ Unsupported(Head(todo[c]))
    \/ down
    \/ \E d \in Clients \ {c} : pc[d] = "create"

\* A client with changes to make gives up only in Init and in its loop.
LEMMA GiveUp ==
    ASSUME LiteInv, Next, NEW c \in Clients,
           todo[c] # << >>, todo'[c] = << >>, pc'[c] = "idle"
    PROVE  Reason(c)
<1>0. /\ pc[c] \in {"ensure", "open", "create", "exec"}
      /\ pc \in [Clients -> {"idle", "ensure", "open", "create", "start", "exec", "get"}]
      /\ todo \in [Clients -> Seq(Updates)]
  BY DEF LiteInv, ClientTypes
<1>1. todo' # todo
  OBVIOUS
<1>2. ASSUME NEW d \in Clients, Client(d) PROVE Reason(c)
  <2>1. CASE Begin(d)
    <3>1. d # c
      BY <1>0, <2>1 DEF Begin
    <3>2. todo'[c] = todo[c]
      BY <1>0, <1>2, <2>1, <3>1
         DEF Client, SetMemory, GetMemory, DeleteMemory, ClearMemory, Change, trigLinks,
             ensureMemoryInit, InitOpen, InitCreate, ensureMaintainerStart, Exec, Return, Get,
             Begin, Failed, NilHandle, clients
    <3> QED BY <3>2
  <2>2. CASE ~Begin(d)
    <3>1. InitCreate(d) \/ Exec(d)
      BY <1>1, <1>2, <2>2
         DEF Client, SetMemory, GetMemory, DeleteMemory, ClearMemory, Change, trigLinks,
             ensureMemoryInit, InitOpen, ensureMaintainerStart, Return, Get, NilHandle, clients
    <3>2. d = c
      BY <1>0, <1>1, <3>1 DEF InitCreate, Exec, Failed, NilHandle, clients
    <3>3. CASE InitCreate(d)
      <4>1. db = "closed"
        BY <1>1, <3>3 DEF InitCreate, NilHandle, clients
      <4> QED BY <4>1 DEF LiteInv, Undisturbed, Reason
    <3>4. CASE Exec(d)
      <4>1. pc[c] = "exec" /\ pc' # pc
        BY <3>2, <3>4 DEF Exec
      <4>2. \/ Unsupported(Head(todo[c]))
            \/ db = "closed"
            \/ db = "open" /\ ~table
        BY <1>1, <3>2, <3>4, <4>1 DEF Exec, NilHandle, clients
      <4> QED BY <4>1, <4>2 DEF LiteInv, Undisturbed, Reason
    <3> QED BY <3>1, <3>3, <3>4
  <2> QED BY <2>1, <2>2
<1>3. CASE Shutdown \/ CloseHandle \/ DropHandle \/ RemoveFile
  BY <1>1, <1>3 DEF Shutdown, CloseHandle, DropHandle, RemoveFile, clients
<1> QED BY <1>2, <1>3 DEF Next

\* A call of SetMemory, DeleteMemory or ClearMemory gives up only for a reason
\* that FailuresExplained names.
THEOREM FailuresHaveReasons == Spec => FailuresExplained
<1>1. LiteInv /\ [Next]_vars =>
        [\A c \in Clients : todo[c] # << >> /\ todo'[c] = << >> /\ pc'[c] = "idle" =>
           \/ Unsupported(Head(todo[c]))
           \/ down
           \/ \E d \in Clients \ {c} : pc[d] = "create"]_vars
  BY GiveUp DEF Reason
<1> QED BY <1>1, LiteInvariant, PTL DEF Spec, FailuresExplained
-----------------------------------------------------------------------------
(* What GetMemory sees implements the map of Memory.                        *)

PlainUpdates == {Plain(u) : u \in Updates}
PlainSeq(s) == [i \in DOMAIN s |-> Plain(s[i])]
plainTodo == [c \in Clients |-> PlainSeq(todo[c])]

\* Changes of printed keys, one by one, in the order of the call.
LEMMA PlainSeqFacts ==
    ASSUME NEW s \in Seq(Updates)
    PROVE  /\ PlainSeq(s) \in Seq(PlainUpdates)
           /\ PlainSeq(s) = << >> <=> s = << >>
           /\ s # << >> => /\ Head(PlainSeq(s)) = Plain(Head(s))
                           /\ Tail(PlainSeq(s)) = PlainSeq(Tail(s))
<1>1. /\ DOMAIN s = 1..Len(s) /\ Len(s) \in Nat
      /\ \A i \in 1..Len(s) : s[i] \in Updates
  OBVIOUS
<1>2. \A i \in 1..Len(s) : Plain(s[i]) \in PlainUpdates
  BY <1>1 DEF PlainUpdates
<1>3. PlainSeq(s) \in Seq(PlainUpdates) /\ Len(PlainSeq(s)) = Len(s)
  BY <1>1, <1>2 DEF PlainSeq
<1>4. PlainSeq(s) = << >> <=> s = << >>
  BY <1>1, <1>3
<1>5. ASSUME s # << >>
      PROVE  Head(PlainSeq(s)) = Plain(Head(s)) /\ Tail(PlainSeq(s)) = PlainSeq(Tail(s))
  <2>1. /\ Len(s) > 0 /\ Head(s) = s[1] /\ Tail(s) \in Seq(Updates)
        /\ Len(Tail(s)) = Len(s) - 1
        /\ \A i \in 1..Len(Tail(s)) : Tail(s)[i] = s[i + 1]
    BY <1>5, HeadTailProperties
  <2>2. /\ Tail(PlainSeq(s)) \in Seq(PlainUpdates) /\ Len(Tail(PlainSeq(s))) = Len(s) - 1
        /\ \A i \in 1..Len(Tail(PlainSeq(s))) : Tail(PlainSeq(s))[i] = PlainSeq(s)[i + 1]
    BY <1>3, <1>4, <1>5, HeadTailProperties
  <2>3. Head(PlainSeq(s)) = Plain(Head(s))
    BY <1>1, <1>3, <2>1 DEF PlainSeq
  <2>4. /\ DOMAIN Tail(s) = 1..(Len(s) - 1)
        /\ \A i \in 1..(Len(s) - 1) : Tail(s)[i] \in Updates
    BY <1>1, <2>1
  <2>5. PlainSeq(Tail(s)) \in Seq(PlainUpdates) /\ Len(PlainSeq(Tail(s))) = Len(s) - 1
    BY <1>1, <2>1, <2>4 DEF PlainSeq, PlainUpdates
  <2>6. \A i \in 1..(Len(s) - 1) : PlainSeq(Tail(s))[i] = Plain(s[i + 1])
    BY <2>1, <2>4 DEF PlainSeq
  <2>7. \A i \in 1..(Len(s) - 1) : Tail(PlainSeq(s))[i] = Plain(s[i + 1])
    BY <1>1, <2>2 DEF PlainSeq
  <2>8. Tail(PlainSeq(s)) = PlainSeq(Tail(s))
    BY <2>2, <2>5, <2>6, <2>7, SeqEqual
  <2> QED BY <2>3, <2>8
<1> QED BY <1>3, <1>4, <1>5

\* The mapped todo follows the client's.
LEMMA PlainTodo ==
    ASSUME ClientTypes
    PROVE  /\ \A c \in Clients : plainTodo[c] = PlainSeq(todo[c])
           /\ todo' = todo => plainTodo' = plainTodo
           /\ \A c \in Clients, s \in Seq(Updates) :
                 todo' = [todo EXCEPT ![c] = s]
                   => /\ plainTodo' = [plainTodo EXCEPT ![c] = PlainSeq(s)]
                      /\ plainTodo'[c] = PlainSeq(s)
BY DEF ClientTypes, plainTodo

\* What can be seen is a map of printed keys to values read back.
LEMMA VisibleType ==
    ASSUME DatabaseTypes
    PROVE  visible \in [Range(Printed) -> {ReadBack[v] : v \in DOMAIN ReadBack} \cup {NoValue}]
BY KeysAssumption DEF DatabaseTypes, visible, ValueAt

\* A step that leaves the mapped variables alone is no step of Memory.
LEMMA PromiseStutter ==
    ASSUME visible' = visible, plainTodo' = plainTodo, result' = result, down' = down
    PROVE  [Promise!Next]_Promise!vars
BY DEF Promise!vars, plainTodo, PlainSeq

\* After Shutdown was called, the contents may become anything.
LEMMA PromiseRelease ==
    ASSUME LiteInv', down', plainTodo' = plainTodo, result' = result
    PROVE  [Promise!Next]_Promise!vars
<1>1. visible' \in [Range(Printed) -> {ReadBack[v] : v \in DOMAIN ReadBack} \cup {NoValue}]
  BY KeysAssumption DEF LiteInv, DatabaseTypes, visible, ValueAt
<1>2. Promise!Release
  BY <1>1 DEF Promise!Release, plainTodo, PlainSeq
<1> QED BY <1>2 DEF Promise!Next

\* The begin of a call is the begin of a call of Memory.
LEMMA PromiseCall ==
    ASSUME LiteInv, NEW c \in Clients, NEW s \in Seq(Updates), todo[c] = << >>,
           todo' = [todo EXCEPT ![c] = s],
           visible' = visible, result' = result, down' = down
    PROVE  [Promise!Next]_Promise!vars
<1>1. /\ plainTodo[c] = << >>
      /\ plainTodo' = [plainTodo EXCEPT ![c] = plainTodo'[c]]
      /\ plainTodo'[c] \in Seq(PlainUpdates)
  BY PlainTodo, PlainSeqFacts DEF LiteInv, ClientTypes
<1>2. Promise!Call(c)
  BY <1>1 DEF Promise!Call, plainTodo, PlainSeq, PlainUpdates
<1> QED BY <1>2 DEF Promise!Next

\* A call that gives up, or had nothing to change.
LEMMA PromiseFail ==
    ASSUME LiteInv, NEW c \in Clients, Failed(c), visible' = visible
    PROVE  [Promise!Next]_Promise!vars
<1>1. todo' = [todo EXCEPT ![c] = << >>] /\ result' = result /\ down' = down
  BY DEF Failed, lifecycle
<1>2. CASE todo[c] = << >>
  <2>1. todo' = todo
    BY <1>1, <1>2 DEF LiteInv, ClientTypes
  <2> QED BY <1>1, <2>1, PlainTodo, PromiseStutter DEF LiteInv
<1>3. CASE todo[c] # << >>
  <2>0. << >> \in Seq(Updates)
    OBVIOUS
  <2>1. PlainSeq(<< >>) = << >>
    BY <2>0, PlainSeqFacts
  <2>2. plainTodo' = [plainTodo EXCEPT ![c] = << >>] /\ plainTodo[c] # << >>
    BY <1>1, <1>3, <2>0, <2>1, PlainTodo, PlainSeqFacts DEF LiteInv, ClientTypes
  <2>3. Promise!Fail(c)
    BY <1>1, <2>2 DEF Promise!Fail, plainTodo, PlainSeq
  <2> QED BY <2>3 DEF Promise!Next
<1> QED BY <1>2, <1>3

\* The map depends on the handle and its table only.
LEMMA VisibleKept ==
    ASSUME UNCHANGED << db, table, rows >>
    PROVE  visible' = visible
BY DEF visible, ValueAt
\* A client begins a call: so it does in Memory.
LEMMA CallImplements ==
    ASSUME LiteInv, NEW c \in Clients,
           \/ \E pairs \in SetCalls : SetMemory(c, pairs)
           \/ \E k \in Keys \cup BadKeys : GetMemory(c, k) \/ DeleteMemory(c, k)
           \/ ClearMemory(c) \/ trigLinks(c)
    PROVE  [Promise!Next]_Promise!vars
<1>0. /\ Begin(c) /\ down' = down /\ UNCHANGED << db, table, rows >>
  BY DEF SetMemory, GetMemory, DeleteMemory, ClearMemory, Change, trigLinks, database, lifecycle
<1>a. visible' = visible /\ todo[c] = << >>
  BY <1>0, VisibleKept, BeginFacts
<1>1. ASSUME NEW pairs \in SetCalls, SetMemory(c, pairs) PROVE [Promise!Next]_Promise!vars
  <2> DEFINE new == [i \in DOMAIN pairs |->
                       [do |-> "set", key |-> pairs[i][1], value |-> pairs[i][2]]]
  <2>1. todo' = [todo EXCEPT ![c] = new] /\ new \in Seq(Updates) /\ result' = result
    BY <1>1, PairsAreUpdates DEF SetMemory
  <2> HIDE DEF new
  <2> QED BY <1>0, <1>a, <2>1, PromiseCall
<1>2. ASSUME NEW k \in Keys \cup BadKeys, GetMemory(c, k) PROVE [Promise!Next]_Promise!vars
  <2>0. plainTodo' = plainTodo
    BY <1>2, PlainTodo DEF GetMemory, LiteInv
  <2>1. CASE db = "nil"
    <3>1. result' = [result EXCEPT ![c] = NoValue]
      BY <1>2, <2>1 DEF GetMemory
    <3>2. Promise!Read(c)
      BY <1>0, <1>a, <2>0, <3>1 DEF Promise!Read, plainTodo, PlainSeq
    <3> QED BY <3>2 DEF Promise!Next
  <2>2. CASE db # "nil"
    BY <1>0, <1>2, <1>a, <2>0, <2>2, PromiseStutter DEF GetMemory
  <2> QED BY <2>1, <2>2
<1>3. ASSUME NEW u \in Updates, Change(c, u) PROVE [Promise!Next]_Promise!vars
  <2>1. result' = result
    BY <1>3 DEF Change
  <2>2. CASE db = "nil"
    <3>1. todo' = todo
      BY <1>3, <2>2 DEF Change
    <3> QED BY <1>0, <1>a, <2>1, <3>1, PlainTodo, PromiseStutter DEF LiteInv
  <2>3. CASE db # "nil"
    <3>1. todo' = [todo EXCEPT ![c] = << u >>] /\ << u >> \in Seq(Updates)
      BY <1>3, <2>3 DEF Change
    <3> QED BY <1>0, <1>a, <2>1, <3>1, PromiseCall
  <2> QED BY <2>2, <2>3
<1>4. ASSUME NEW k \in Keys \cup BadKeys, DeleteMemory(c, k) PROVE [Promise!Next]_Promise!vars
  BY <1>3, <1>4 DEF DeleteMemory, Updates
<1>5. CASE ClearMemory(c)
  BY <1>3, <1>5 DEF ClearMemory, Updates
<1>6. CASE trigLinks(c)
  BY <1>0, <1>6, <1>a, PlainTodo, PromiseStutter DEF trigLinks, LiteInv
<1> QED BY <1>1, <1>2, <1>4, <1>5, <1>6

\* A use of a nil handle ends the program and changes nothing else.
LEMMA CrashImplements ==
    ASSUME LiteInv, NEW c \in Clients, NilHandle(c)
    PROVE  [Promise!Next]_Promise!vars
<1>1. UNCHANGED << db, table, rows, todo, result, down >>
  BY DEF NilHandle, database, clients, lifecycle
<1> QED BY <1>1, VisibleKept, PlainTodo, PromiseStutter DEF LiteInv

\* Before Shutdown, another handle finds in the file all that the first one
\* showed; and a table without rows shows as much as no table.
LEMMA InitImplements ==
    ASSUME LiteInv, LiteInv', NEW c \in Clients,
           ensureMemoryInit(c) \/ InitOpen(c) \/ InitCreate(c)
    PROVE  [Promise!Next]_Promise!vars
<1>1. CASE ensureMemoryInit(c)
  <2>1. UNCHANGED << db, table, rows, todo, result, down >>
    BY <1>1 DEF ensureMemoryInit, database, lifecycle
  <2> QED BY <2>1, VisibleKept, PlainTodo, PromiseStutter DEF LiteInv
<1>2. CASE InitOpen(c)
  <2>1. db' = "open" /\ FileOnly /\ UNCHANGED << todo, result, down >>
    BY <1>2 DEF InitOpen, lifecycle
  <2>2. plainTodo' = plainTodo
    BY <2>1, PlainTodo DEF LiteInv
  <2>3. CASE down
    BY <2>1, <2>2, <2>3, PromiseRelease
  <2>4. CASE ~down
    <3>1. /\ db \in {"nil", "open"} /\ (table => onDisk) /\ (db = "nil" => ~table)
          /\ (~table => rows = NoRows)
      BY <2>4 DEF LiteInv, Undisturbed, DatabaseTypes
    <3>2. (table' <=> table) /\ (table => rows' = rows)
      BY <2>1, <3>1 DEF FileOnly, LiteInv, DatabaseTypes
    <3>3. visible' = visible
      BY <2>1, <3>1, <3>2 DEF visible, ValueAt
    <3> QED BY <2>1, <2>2, <3>3, PromiseStutter
  <2> QED BY <2>3, <2>4
<1>3. CASE InitCreate(c)
  <2>1. CASE NilHandle(c)
    BY <2>1, CrashImplements
  <2>2. CASE Failed(c) /\ UNCHANGED database
    BY <2>2, VisibleKept, PromiseFail DEF database
  <2>3. CASE /\ db = "open" /\ Connect
             /\ table' = TRUE /\ UNCHANGED rows
             /\ UNCHANGED << todo, result, lifecycle >>
    <3>1. db' = "open" /\ down' = down /\ plainTodo' = plainTodo
      BY <2>3, PlainTodo DEF Connect, lifecycle, LiteInv
    <3>2. table \/ rows = NoRows
      BY DEF LiteInv, DatabaseTypes
    <3>3. visible' = visible
      BY <2>3, <3>1, <3>2 DEF visible, ValueAt, NoRows
    <3> QED BY <2>3, <3>1, <3>3, PromiseStutter
  <2> QED BY <1>3, <2>1, <2>2, <2>3 DEF InitCreate
<1> QED BY <1>1, <1>2, <1>3

\* What a change of the table shows is the change of the map.
LEMMA StoredVisible ==
    ASSUME DatabaseTypes, db = "open", table, NEW u \in Updates, ~Unsupported(u),
           rows' = Stored(u), db' = "open", table'
    PROVE  Promise!Possible(Plain(u)) /\ visible' = Promise!Applied(Plain(u))
<1>0. /\ rows \in [Range(Printed) -> Values \cup {NoValue}]
      /\ visible = [p \in Range(Printed) |-> ValueAt(p)]
      /\ visible' = [p \in Range(Printed) |->
                       IF rows'[p] = NoValue THEN NoValue ELSE ReadBack[rows'[p]]]
  BY DEF DatabaseTypes, visible, ValueAt
<1>1. CASE u.do = "set"
  <2>1. u.key \in Keys /\ Printed[u.key] \in Range(Printed) /\ u.value \in Values
    BY <1>1, SupportedRows DEF hashKey
  <2>2. Plain(u).do = "set" /\ Plain(u).key = Printed[u.key] /\ Plain(u).value = u.value
    BY <1>1, <2>1 DEF Plain, Updates
  <2>3. rows' = [rows EXCEPT ![Printed[u.key]] = u.value]
    BY <1>1 DEF Stored, hashKey
  <2>4. visible' = [visible EXCEPT ![Printed[u.key]] = ReadBack[u.value]]
    BY <1>0, <2>1, <2>3, KeysAssumption DEF ValueAt
  <2> QED BY <2>1, <2>2, <2>4, KeysAssumption DEF Promise!Possible, Promise!Applied
<1>2. CASE u.do = "del"
  <2>1. u.key \in Keys /\ Printed[u.key] \in Range(Printed)
    BY <1>2, SupportedRows DEF hashKey
  <2>2. Plain(u).do = "del" /\ Plain(u).key = Printed[u.key]
    BY <1>2, <2>1 DEF Plain, Updates
  <2>3. rows' = [rows EXCEPT ![Printed[u.key]] = NoValue]
    BY <1>2 DEF Stored, hashKey
  <2>4. visible' = [visible EXCEPT ![Printed[u.key]] = NoValue]
    BY <1>0, <2>1, <2>3 DEF ValueAt
  <2> QED BY <2>1, <2>2, <2>4 DEF Promise!Possible, Promise!Applied
<1>3. CASE u.do = "clear"
  <2>1. Plain(u) = u /\ rows' = NoRows
    BY <1>3 DEF Plain, Stored
  <2>2. visible' = Promise!Empty
    BY <1>0, <2>1 DEF NoRows, Promise!Empty
  <2> QED BY <1>3, <2>1, <2>2 DEF Promise!Possible, Promise!Applied
<1> QED BY <1>1, <1>2, <1>3, UpdateKinds

\* A statement that writes is one update of Memory, or fails.
LEMMA ExecImplements ==
    ASSUME LiteInv, NEW c \in Clients, Exec(c)
    PROVE  [Promise!Next]_Promise!vars
<1> DEFINE u == Head(todo[c])
<1>0. /\ todo[c] # << >> /\ todo[c] \in Seq(Updates) /\ u \in Updates
      /\ Tail(todo[c]) \in Seq(Updates)
  BY DEF LiteInv, ClientTypes, Exec
<1>1. CASE Failed(c) /\ UNCHANGED << db, table, rows >>
  BY <1>1, VisibleKept, PromiseFail
<1>2. CASE NilHandle(c)
  BY <1>2, CrashImplements
<1>3. CASE /\ ~Unsupported(u) /\ db = "open" /\ table
           /\ Connect
           /\ rows' = Stored(u) /\ UNCHANGED table
           /\ todo' = [todo EXCEPT ![c] = Tail(@)]
           /\ UNCHANGED << result, lifecycle >>
  <2>1. db' = "open" /\ down' = down
    BY <1>3 DEF Connect, lifecycle
  <2>2. Promise!Possible(Plain(u)) /\ visible' = Promise!Applied(Plain(u))
    BY <1>0, <1>3, <2>1, StoredVisible DEF LiteInv
  <2>3. /\ plainTodo[c] # << >> /\ Head(plainTodo[c]) = Plain(u)
        /\ plainTodo' = [plainTodo EXCEPT ![c] = Tail(@)]
    <3>1. plainTodo[c] = PlainSeq(todo[c])
      BY PlainTodo DEF LiteInv
    <3>2. /\ PlainSeq(todo[c]) # << >> /\ Head(PlainSeq(todo[c])) = Plain(u)
          /\ Tail(PlainSeq(todo[c])) = PlainSeq(Tail(todo[c]))
      BY <1>0, PlainSeqFacts
    <3>3. todo' = [todo EXCEPT ![c] = Tail(todo[c])]
      BY <1>3
    <3>4. plainTodo' = [plainTodo EXCEPT ![c] = PlainSeq(Tail(todo[c]))]
      BY <1>0, <3>3, PlainTodo DEF LiteInv
    <3> HIDE DEF u
    <3> QED BY <3>1, <3>2, <3>4
  <2>4. Promise!Update(c)
    BY <1>3, <2>1, <2>2, <2>3 DEF Promise!Update, plainTodo, PlainSeq
  <2> QED BY <2>4 DEF Promise!Next
<1> QED BY <1>1, <1>2, <1>3 DEF Exec, Connect, database

\* A query returns what Memory allows.
LEMMA GetImplements ==
    ASSUME LiteInv, NEW c \in Clients, Get(c)
    PROVE  [Promise!Next]_Promise!vars
<1>1. CASE NilHandle(c)
  BY <1>1, CrashImplements
<1>2. CASE ~NilHandle(c)
  <2>1. /\ result' = [result EXCEPT ![c] =
              IF key[c] \in Keys /\ db = "open" /\ table
              THEN ValueAt(hashKey(key[c])) ELSE NoValue]
        /\ UNCHANGED << db, table, rows, todo, down >>
    BY <1>2 DEF Get, Connect, database, lifecycle
  <2>2. visible' = visible /\ plainTodo' = plainTodo /\ down' = down
    BY <2>1, VisibleKept, PlainTodo DEF LiteInv
  <2>3. \/ \E p \in Range(Printed) : result' = [result EXCEPT ![c] = visible[p]]
        \/ result' = [result EXCEPT ![c] = NoValue]
    <3>1. CASE key[c] \in Keys /\ db = "open" /\ table
      <4>1. Printed[key[c]] \in Range(Printed)
        BY <3>1, KeysAssumption DEF Range
      <4>2. visible[Printed[key[c]]] = ValueAt(hashKey(key[c]))
        BY <3>1, <4>1 DEF visible, hashKey
      <4> QED BY <2>1, <3>1, <4>1, <4>2
    <3>2. CASE ~(key[c] \in Keys /\ db = "open" /\ table)
      BY <2>1, <3>2
    <3> QED BY <3>1, <3>2
  <2>4. Promise!Read(c)
    BY <2>2, <2>3 DEF Promise!Read, plainTodo, PlainSeq
  <2> QED BY <2>4 DEF Promise!Next
<1> QED BY <1>1, <1>2

\* The start of the maintainer and the return of a call are no steps of Memory.
LEMMA OtherImplements ==
    ASSUME LiteInv, NEW c \in Clients, ensureMaintainerStart(c) \/ Return(c)
    PROVE  [Promise!Next]_Promise!vars
<1>1. UNCHANGED << db, table, rows, todo, result, down >>
  BY DEF ensureMaintainerStart, Return, database, lifecycle
<1> QED BY <1>1, VisibleKept, PlainTodo, PromiseStutter DEF LiteInv

\* Shutdown ends what is remembered.
LEMMA ShutdownImplements ==
    ASSUME LiteInv, LiteInv', Shutdown \/ CloseHandle \/ DropHandle \/ RemoveFile
    PROVE  [Promise!Next]_Promise!vars
<1>1. UNCHANGED << todo, result >>
  BY DEF Shutdown, CloseHandle, DropHandle, RemoveFile, clients
<1>2. down'
  BY DEF Shutdown, CloseHandle, DropHandle, RemoveFile, LiteInv, ShutdownUnderWay
<1> QED BY <1>1, <1>2, PlainTodo, PromiseRelease DEF LiteInv

\* What GetMemory sees is the shared map that the README promises, keyed by the
\* printed form of the keys, whoever initialises the table and however the calls
\* interleave, until Shutdown is called.
THEOREM LiteImplementsMemory == Spec => ImplementsMemory
<1>1. Init => Promise!Init
  <2> SUFFICES ASSUME Init PROVE Promise!Init
    OBVIOUS
  <2>1. visible = Promise!Empty /\ result = [c \in Clients |-> NoValue] /\ down = FALSE
    BY DEF Init, visible, Promise!Empty
  <2>2. plainTodo = [c \in Clients |-> << >>]
    <3>1. << >> \in Seq(Updates) /\ \A c \in Clients : todo[c] = << >>
      BY DEF Init
    <3>2. PlainSeq(<< >>) = << >>
      BY <3>1, PlainSeqFacts
    <3> QED BY <3>1, <3>2 DEF plainTodo
  <2> QED BY <2>1, <2>2 DEF Promise!Init, plainTodo, PlainSeq
<1>2. LiteInv /\ LiteInv' /\ [Next]_vars => [Promise!Next]_Promise!vars
  <2> SUFFICES ASSUME LiteInv, LiteInv', [Next]_vars PROVE [Promise!Next]_Promise!vars
    OBVIOUS
  <2>1. ASSUME NEW c \in Clients, Client(c) PROVE [Promise!Next]_Promise!vars
    BY <2>1, CallImplements, InitImplements, ExecImplements, GetImplements, OtherImplements
       DEF Client
  <2>2. CASE UNCHANGED vars
    <3>1. UNCHANGED << db, table, rows, todo, result, down >>
      BY <2>2 DEF vars, database, clients, lifecycle
    <3> QED BY <3>1, VisibleKept, PlainTodo, PromiseStutter DEF LiteInv
  <2> QED BY <2>1, <2>2, ShutdownImplements DEF Next
<1> QED BY <1>1, <1>2, LiteInvariant, PTL DEF Spec, ImplementsMemory, Promise!Spec

=============================================================================
