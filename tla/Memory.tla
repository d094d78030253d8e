------------------------------- MODULE Memory -------------------------------
(***************************************************************************)
(* What a brain promises of its Memory (README: SetMemory, GetMemory,      *)
(* ExistMemory, DeleteMemory, ClearMemory): a map that all neurons and the *)
(* program share, in which a call changes one key at a time, in the order  *)
(* of its arguments, and which nothing else changes while the promise      *)
(* holds: until Shutdown, and until the loss of contents that each kind of *)
(* memory admits.                                                          *)
(***************************************************************************)
EXTENDS Sequences

CONSTANTS
    Clients,  \* goroutines that call the operations
    Keys,     \* keys of the map
    Updates,  \* one change of the map: [do: set | del | clear, key, value]
    NoValue,  \* GetMemory's nil
    ReadBack  \* the value GetMemory returns for one that was set

VARIABLES
    mem,     \* the map
    todo,    \* changes a call of each client has still to make
    result,  \* what the client's last GetMemory returned
    shut     \* the promise has ended

vars == << mem, todo, result, shut >>

Empty == [k \in Keys |-> NoValue]

Applied(u) ==
    CASE u.do = "set"   -> [mem EXCEPT ![u.key] = ReadBack[u.value]]
      [] u.do = "del"   -> [mem EXCEPT ![u.key] = NoValue]
      [] u.do = "clear" -> Empty

\* A change of a key and a value the memory takes.
Possible(u) ==
    /\ u.do \in {"set", "del"} => u.key \in Keys
    /\ u.do = "set" => u.value \in DOMAIN ReadBack

Init ==
    /\ mem = Empty
    /\ todo = [c \in Clients |-> << >>]
    /\ result = [c \in Clients |-> NoValue]
    /\ shut = FALSE

\* SetMemory, DeleteMemory or ClearMemory is called.
Call(c) ==
    /\ todo[c] = << >>
    /\ todo'[c] \in Seq(Updates)
    /\ todo' = [todo EXCEPT ![c] = todo'[c]]
    /\ UNCHANGED << mem, result, shut >>

Update(c) ==
    /\ todo[c] # << >> /\ Possible(Head(todo[c]))
    /\ mem' = Applied(Head(todo[c]))
    /\ todo' = [todo EXCEPT ![c] = Tail(@)]
    /\ UNCHANGED << result, shut >>

\* The call fails: what it has changed stays, the rest is given up.
Fail(c) ==
    /\ todo[c] # << >>
    /\ todo' = [todo EXCEPT ![c] = << >>]
    /\ UNCHANGED << mem, result, shut >>

\* A key the memory does not take is never found.
Read(c) ==
    /\ \/ \E k \in Keys : result' = [result EXCEPT ![c] = mem[k]]
       \/ result' = [result EXCEPT ![c] = NoValue]
    /\ UNCHANGED << mem, todo, shut >>

Shutdown ==
    /\ shut' = TRUE
    /\ UNCHANGED << mem, todo, result >>

\* From then on, or from the step that ends the promise, the contents may be
\* anything and a change may have no effect.
Release ==
    /\ shut'
    /\ mem' \in [Keys -> {ReadBack[v] : v \in DOMAIN ReadBack} \cup {NoValue}]
    /\ \/ UNCHANGED todo
       \/ \E c \in Clients : todo[c] # << >> /\ todo' = [todo EXCEPT ![c] = Tail(@)]
    /\ UNCHANGED result

Next ==
    \/ \E c \in Clients : Call(c) \/ Update(c) \/ Fail(c) \/ Read(c)
    \/ Shutdown \/ Release

Spec == Init /\ [][Next]_vars

=============================================================================
