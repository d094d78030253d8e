----------------------------- MODULE LiteMemory -----------------------------
(***************************************************************************)
(* The Memory of a BrainLite (src/brainlite/memory.go and the operations   *)
(* of brain_lite.go around it): one SQLite table in a file of its own,     *)
(* opened by the first call that needs it and closed by Shutdown.          *)
(*                                                                         *)
(* The handle m.db is a plain field: it is tested in one step and used in  *)
(* another, and Init publishes it before the table exists.  SQLite and     *)
(* database/sql are external: an Exec or a QueryRow is one atomic step     *)
(* that fails if the handle is closed or the table is missing; the first   *)
(* use of a handle connects to the file and creates it if it is not there; *)
(* a connected handle keeps its contents when the file is removed.         *)
(***************************************************************************)
EXTENDS Integers, Sequences, FiniteSets, Functions

CONSTANTS
    Clients,    \* goroutines that call the operations, processors included
    Keys,       \* keys of a type hashKey supports
    BadKeys,    \* keys of other types
    Values,     \* values json.Marshal takes
    BadValues,  \* values it refuses
    Printed,    \* hashKey: the printed form of a key, which is what is hashed
    ReadBack,   \* the value Get makes of the JSON and the type Set has stored
    NoValue,    \* nil
    KeepMemory, \* m.keepMemory
    SetCalls,   \* the arguments of SetMemory: sequences of << key, value >>
    MaxCalls    \* bound: calls in a behaviour

ASSUME KeysAssumption ==
    /\ Keys \cap BadKeys = {} /\ Values \cap BadValues = {}
    /\ NoValue \notin Values
    /\ DOMAIN Printed = Keys
    /\ ReadBack \in [Values -> Values]

ASSUME CallsAssumption ==
    /\ << >> \notin SetCalls
    /\ SetCalls \subseteq Seq((Keys \cup BadKeys) \X (Values \cup BadValues))
    /\ KeepMemory \in BOOLEAN /\ MaxCalls \in Nat

VARIABLES
    db,        \* m.db: "nil", "open" or "closed"
    connected, \* the handle has been used
    onDisk,    \* the database file exists
    table,     \* the table memory exists
    rows,      \* its rows: a value for every printed key
    pc, todo,  \* clients: control point and changes still to be made
    key,       \* clients: the key GetMemory looks up
    result,    \* clients: what the last GetMemory returned
    started,   \* the maintainer runs, its queues are open
    sPc,       \* Shutdown: control point
    down,      \* Shutdown has been called at some time
    panicked,  \* a nil handle was used
    calls      \* calls so far

database == << db, connected, onDisk, table, rows >>
clients == << pc, todo, key, result >>
lifecycle == << started, sPc, down >>
vars == << database, clients, lifecycle, panicked, calls >>

\* One change a call makes; pairs of SetMemory become changes one by one.
Updates ==
    [do : {"set"}, key : Keys \cup BadKeys, value : Values \cup BadValues]
      \cup [do : {"del"}, key : Keys \cup BadKeys] \cup [do : {"clear"}]

NoRows == [p \in Range(Printed) |-> NoValue]
hashKey(k) == Printed[k]

-----------------------------------------------------------------------------
(* The calls, up to their first look at m.db.                               *)

Begin(c) == ~panicked /\ pc[c] = "idle" /\ calls < MaxCalls /\ calls' = calls + 1
Goto(c, l) == pc' = [pc EXCEPT ![c] = l]

SetMemory(c, pairs) ==
    /\ Begin(c)
    /\ todo' = [todo EXCEPT ![c] = [i \in DOMAIN pairs |->
                   [do |-> "set", key |-> pairs[i][1], value |-> pairs[i][2]]]]
    /\ Goto(c, "ensure")
    /\ UNCHANGED << database, key, result, lifecycle, panicked >>

\* trigLinks: ensureMemoryInit, then ensureMaintainerStart.
trigLinks(c) ==
    /\ Begin(c)
    /\ Goto(c, "ensure")
    /\ UNCHANGED << database, todo, key, result, lifecycle, panicked >>

\* ExistMemory is the same call with the value dropped.
GetMemory(c, k) ==
    /\ Begin(c)
    /\ IF db = "nil" THEN /\ result' = [result EXCEPT ![c] = NoValue]
                          /\ UNCHANGED << pc, key >>
                     ELSE /\ Goto(c, "get")
                          /\ key' = [key EXCEPT ![c] = k]
                          /\ UNCHANGED result
    /\ UNCHANGED << database, todo, lifecycle, panicked >>

\* DeleteMemory and ClearMemory do nothing while there is no handle.
Change(c, u) ==
    /\ Begin(c)
    /\ IF db = "nil" THEN UNCHANGED << pc, todo >>
                     ELSE Goto(c, "exec") /\ todo' = [todo EXCEPT ![c] = << u >>]
    /\ UNCHANGED << database, key, result, lifecycle, panicked >>

DeleteMemory(c, k) == Change(c, [do |-> "del", key |-> k])
ClearMemory(c) == Change(c, [do |-> "clear"])

-----------------------------------------------------------------------------
(* ensureMemoryInit and BrainMemory.Init.                                   *)

\* Where a call goes on after ensureMemoryInit: trigLinks, which has nothing to
\* set, with ensureMaintainerStart, SetMemory with its loop.
AfterInit(c) == IF todo[c] = << >> THEN "start" ELSE "exec"

\* Mutant: Init is left to trigLinks.
ensureMemoryInitNot(c) ==
    /\ pc[c] = "ensure"
    /\ Goto(c, IF db # "nil" \/ todo[c] # << >> THEN AfterInit(c) ELSE "open")
    /\ UNCHANGED << database, todo, key, result, lifecycle, panicked, calls >>

ensureMemoryInit(c) ==
    /\ pc[c] = "ensure"
    /\ Goto(c, IF db # "nil" THEN AfterInit(c) ELSE "open")
    /\ UNCHANGED << database, todo, key, result, lifecycle, panicked, calls >>

\* m.db is another handle: what is not in the file is lost.
FileOnly ==
    /\ connected' = FALSE
    /\ table' = (table /\ onDisk) /\ rows' = (IF onDisk THEN rows ELSE NoRows)
    /\ UNCHANGED onDisk

\* Mutant: the table is not created.
InitOpenOnly(c) ==
    /\ pc[c] = "open"
    /\ db' = "open" /\ FileOnly
    /\ Goto(c, AfterInit(c))
    /\ UNCHANGED << todo, key, result, lifecycle, panicked, calls >>

\* sql.Open and m.db = db.
InitOpen(c) ==
    /\ pc[c] = "open"
    /\ db' = "open" /\ FileOnly
    /\ Goto(c, "create")
    /\ UNCHANGED << todo, key, result, lifecycle, panicked, calls >>

\* A use of the handle; the first one connects.
Connect == connected' = TRUE /\ onDisk' = (onDisk \/ ~connected) /\ UNCHANGED db

\* A method of a nil handle is called: the program ends.
NilHandle(c) ==
    /\ db = "nil"
    /\ panicked' = TRUE
    /\ UNCHANGED << database, clients, lifecycle, calls >>

\* The call returns an error, or logs it: the rest of its work is given up.
Failed(c) ==
    /\ Goto(c, "idle")
    /\ todo' = [todo EXCEPT ![c] = << >>]
    /\ UNCHANGED << key, result, lifecycle, panicked, calls >>

\* Mutant: the table is made anew.
InitCreateAnew(c) ==
    /\ pc[c] = "create"
    /\ \/ NilHandle(c)
       \/ db = "closed" /\ Failed(c) /\ UNCHANGED database
       \/ /\ db = "open" /\ Connect
          /\ table' = TRUE /\ rows' = NoRows
          /\ Goto(c, AfterInit(c))
          /\ UNCHANGED << todo, key, result, lifecycle, panicked, calls >>

\* CREATE TABLE IF NOT EXISTS, on whatever m.db is by now.
InitCreate(c) ==
    /\ pc[c] = "create"
    /\ \/ NilHandle(c)
       \/ db = "closed" /\ Failed(c) /\ UNCHANGED database
       \/ /\ db = "open" /\ Connect
          /\ table' = TRUE /\ UNCHANGED rows
          /\ Goto(c, AfterInit(c))
          /\ UNCHANGED << todo, key, result, lifecycle, panicked, calls >>

\* ensureMaintainerStart: a brain in the state Shutdown is started. Shutdown
\* writes that state at its end.
ensureMaintainerStart(c) ==
    /\ pc[c] = "start"
    /\ started' = (started \/ sPc = "idle")
    /\ Goto(c, "idle")
    /\ UNCHANGED << database, todo, key, result, sPc, down, panicked, calls >>

-----------------------------------------------------------------------------
(* Set, Del, Clear and Get on the handle.                                   *)

\* Mutant: the error of json.Marshal is ignored.
UnsupportedKey(u) == u.do \in {"set", "del"} /\ u.key \in BadKeys

\* hashKey or json.Marshal returns an error: m.db is not used.
Unsupported(u) ==
    \/ u.do \in {"set", "del"} /\ u.key \in BadKeys
    \/ u.do = "set" /\ u.value \in BadValues

\* INSERT OR REPLACE, DELETE of a key, DELETE of all.
Stored(u) ==
    CASE u.do = "set"   -> [rows EXCEPT ![hashKey(u.key)] = u.value]
      [] u.do = "del"   -> [rows EXCEPT ![hashKey(u.key)] = NoValue]
      [] u.do = "clear" -> NoRows

\* One round of the loop of SetMemory, or the body of Del or Clear.
Exec(c) ==
    /\ pc[c] = "exec" /\ todo[c] # << >>
    /\ LET u == Head(todo[c])
       IN \/ Unsupported(u) /\ Failed(c) /\ UNCHANGED database
          \/ ~Unsupported(u) /\ NilHandle(c)
          \/ ~Unsupported(u) /\ db = "closed" /\ Failed(c) /\ UNCHANGED database
          \/ /\ ~Unsupported(u) /\ db = "open" /\ ~table
             /\ Connect /\ Failed(c) /\ UNCHANGED << table, rows >>
          \/ /\ ~Unsupported(u) /\ db = "open" /\ table
             /\ Connect
             /\ rows' = Stored(u) /\ UNCHANGED table
             /\ todo' = [todo EXCEPT ![c] = Tail(@)]
             /\ UNCHANGED << pc, key, result, lifecycle, panicked, calls >>

Return(c) ==
    /\ pc[c] = "exec" /\ todo[c] = << >>
    /\ Goto(c, "idle")
    /\ UNCHANGED << database, todo, key, result, lifecycle, panicked, calls >>

\* What SELECT finds and Get converts.
ValueAt(p) == IF rows[p] = NoValue THEN NoValue ELSE ReadBack[rows[p]]

\* Get: an unsupported key, a closed handle, a missing table and a missing row
\* are errors, which GetMemory logs and answers with nil.
Get(c) ==
    /\ pc[c] = "get"
    /\ \/ key[c] \notin BadKeys /\ NilHandle(c)
       \/ /\ key[c] \in BadKeys \/ db # "nil"
          /\ result' = [result EXCEPT ![c] =
                IF key[c] \in Keys /\ db = "open" /\ table THEN ValueAt(hashKey(key[c])) ELSE NoValue]
          /\ IF key[c] \in Keys /\ db = "open"
             THEN Connect /\ UNCHANGED << table, rows >> ELSE UNCHANGED database
          /\ Goto(c, "idle") /\ key' = [key EXCEPT ![c] = NoValue]
          /\ UNCHANGED << todo, lifecycle, panicked, calls >>

-----------------------------------------------------------------------------
(* Shutdown and BrainMemory.Close.                                          *)

\* The queues are closed; a brain that was not started has none to close.
Shutdown ==
    /\ ~panicked /\ started /\ sPc = "idle"
    /\ started' = FALSE /\ down' = TRUE /\ sPc' = "close"
    /\ UNCHANGED << database, clients, panicked, calls >>

CloseHandle ==
    /\ sPc = "close"
    /\ IF db = "nil"
       THEN panicked' = TRUE /\ UNCHANGED << database, sPc >>
       ELSE /\ db' = "closed" /\ FileOnly
            /\ sPc' = "drop"
            /\ UNCHANGED panicked
    /\ UNCHANGED << clients, started, down, calls >>

DropHandle ==
    /\ sPc = "drop"
    /\ db' = "nil" /\ FileOnly
    /\ sPc' = "remove"
    /\ UNCHANGED << clients, started, down, panicked, calls >>

\* Mutant: the file stays.
RemoveFileNot ==
    /\ sPc = "remove" /\ sPc' = "idle"
    /\ UNCHANGED << database, clients, started, down, panicked, calls >>

\* os.Remove, unless m.keepMemory; then the state Shutdown is set.
RemoveFile ==
    /\ sPc = "remove" /\ sPc' = "idle"
    /\ IF KeepMemory \/ ~onDisk
       THEN UNCHANGED database
       ELSE /\ onDisk' = FALSE
            /\ table' = (table /\ connected)
            /\ rows' = IF connected THEN rows ELSE NoRows
            /\ UNCHANGED << db, connected >>
    /\ UNCHANGED << clients, started, down, panicked, calls >>

-----------------------------------------------------------------------------

Init ==
    /\ db = "nil" /\ connected = FALSE /\ onDisk = FALSE
    /\ table = FALSE /\ rows = NoRows
    /\ pc = [c \in Clients |-> "idle"] /\ todo = [c \in Clients |-> << >>]
    /\ key = [c \in Clients |-> NoValue] /\ result = [c \in Clients |-> NoValue]
    /\ started = FALSE /\ sPc = "idle" /\ down = FALSE
    /\ panicked = FALSE /\ calls = 0

Client(c) ==
    \/ \E pairs \in SetCalls : SetMemory(c, pairs)
    \/ \E k \in Keys \cup BadKeys : GetMemory(c, k) \/ DeleteMemory(c, k)
    \/ ClearMemory(c) \/ trigLinks(c)
    \/ /\ ~panicked
       /\ \/ ensureMemoryInit(c) \/ InitOpen(c) \/ InitCreate(c)
          \/ ensureMaintainerStart(c) \/ Exec(c) \/ Return(c) \/ Get(c)

Next ==
    \/ \E c \in Clients : Client(c)
    \/ Shutdown
    \/ ~panicked /\ (CloseHandle \/ DropHandle \/ RemoveFile)

Spec == Init /\ [][Next]_vars

-----------------------------------------------------------------------------
(* Properties.                                                              *)

\* "It remains intact [...] and will not be cleared unless ClearMemory() is
\* called" (README.md:373): what GetMemory can see implements the map of
\* Memory, whoever initialises the table and however the calls of the clients
\* interleave. The keys of the map are printed forms: hashKey hashes these, so
\* that the number 1 and the string "1" are one key and no other two are.
visible == [p \in Range(Printed) |-> IF db = "open" /\ table THEN ValueAt(p) ELSE NoValue]
Plain(u) ==
    IF u.do \in {"set", "del"} /\ u.key \in Keys THEN [u EXCEPT !.key = Printed[@]] ELSE u
Promise == INSTANCE Memory WITH
    Keys <- Range(Printed),
    Updates <- {Plain(u) : u \in Updates},
    mem <- visible,
    todo <- [c \in Clients |-> [i \in DOMAIN todo[c] |-> Plain(todo[c][i])]],
    shut <- down
ImplementsMemory == Promise!Spec

\* The methods of BrainMemory use m.db without a test of their own; they meet a
\* nil handle only if Shutdown has been called.
CrashNeedsShutdown == panicked => down

\* A call gives up only for a key or value of an unsupported type, because
\* Shutdown was called, or in the moment in which another call has published
\* the handle and has not yet made the table.
FailuresExplained ==
    [][\A c \in Clients : todo[c] # << >> /\ todo'[c] = << >> /\ pc'[c] = "idle" =>
          \/ Unsupported(Head(todo[c]))
          \/ down
          \/ \E d \in Clients \ {c} : pc[d] = "create"]_vars

\* "Use Brain.Shutdown() to release all resource of the current Brain"
\* (README.md:369): when Shutdown is over and no later call has opened the
\* memory again, the database file is gone, whatever calls were in flight.
ReleasedIsGone == down /\ sPc = "idle" /\ db = "nil" /\ ~KeepMemory => ~onDisk /\ ~table

\* The types; rows exist only in a table and hold only what json.Marshal took,
\* and the changes a client has still to make belong to a call under way.
TypeOK ==
    /\ db \in {"nil", "open", "closed"} /\ sPc \in {"idle", "close", "drop", "remove"}
    /\ {connected, onDisk, table, started, down, panicked} \subseteq BOOLEAN
    /\ rows \in [Range(Printed) -> Values \cup {NoValue}] /\ (rows # NoRows => table)
    /\ pc \in [Clients -> {"idle", "ensure", "open", "create", "start", "exec", "get"}]
    /\ todo \in [Clients -> Seq(Updates)]
    /\ \A c \in Clients : todo[c] # << >> => pc[c] \in {"ensure", "open", "create", "exec"}
    /\ key \in [Clients -> Keys \cup BadKeys \cup {NoValue}]
    /\ result \in [Clients -> Values \cup {NoValue}]
    /\ calls \in 0..MaxCalls

=============================================================================
