---------------------------- MODULE MCLocalMemory ----------------------------
(* A small memory for model checking LocalMemory: two keys, and room for    *)
(* one entry, so that a call that sets both meets the limit.                *)
EXTENDS LocalMemory, TLC

CONSTANTS name, count, text, number

MCKeys == {name, count}
MCValues == {text, number}
MCSetCalls == {<< << name, text >> >>, << << name, number >>, << count, number >> >>}

=============================================================================
