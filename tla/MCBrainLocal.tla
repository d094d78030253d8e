---------------------------- MODULE MCBrainLocal ----------------------------
(***************************************************************************)
(* Brains for model checking BrainLocal: the topologies the runs use.      *)
(* A topology is a relation from links to << from, to >> pairs.            *)
(***************************************************************************)
EXTENDS BrainLocal, TLC

Entry == "__EXTERNAL_SIGNAL__"
End   == "__END_NEURON__"
NoCasts == {<< >>}

\* Calls of Entry.
EntryCalls == {EntryLinks}

\* Workers are interchangeable, and so are clients: for the safety runs.
Symmetry == Permutations(Workers) \cup Permutations(Clients)

\* Entry to a and to b; c joins both (README, trigger groups) and goes to END.
JoinNeurons == {"a", "b", "c", End}
JoinLinks == {"ea", "eb", "ac", "bc", "ce"}
JoinFrom == [l \in JoinLinks |->
    CASE l = "ac" -> "a" [] l = "bc" -> "b" [] l = "ce" -> "c" [] OTHER -> Entry]
JoinTo == [l \in JoinLinks |->
    CASE l = "ea" -> "a" [] l = "eb" -> "b" [] l = "ce" -> End [] OTHER -> "c"]
JoinTriggers == [n \in JoinNeurons |->
    CASE n = "a" -> {{"ea"}} [] n = "b" -> {{"eb"}} [] n = "c" -> {{"ac", "bc"}}
      [] OTHER -> {{"ce"}}]
JoinCasts == [n \in JoinNeurons |->
    CASE n = "a" -> {<< "ac" >>} [] n = "b" -> {<< "bc" >>} [] n = "c" -> {<< "ce" >>}
      [] OTHER -> {}]

\* The loop of the README's chat agent in one neuron: it calls itself once more
\* or goes to END.
ChatNeurons == {"llm", End}
ChatLinks == {"el", "ll", "le"}
ChatFrom == [l \in ChatLinks |-> IF l = "el" THEN Entry ELSE "llm"]
ChatTo == [l \in ChatLinks |-> IF l = "le" THEN End ELSE "llm"]
ChatTriggers == [n \in ChatNeurons |-> IF n = "llm" THEN {{"el"}, {"ll"}} ELSE {{"le"}}]
ChatCasts == [n \in ChatNeurons |-> IF n = "llm" THEN {<< "ll" >>, << "le" >>} ELSE {}]
\* Entry, or TrigLinks with links the brain does not have.
ChatCalls == {EntryLinks, {}}

\* A producer that streams: it may call ContinueCast while it runs and then
\* casts to sink, which may fail, or names a cast group it does not have.
StreamNeurons == {"src", "sink"}
StreamLinks == {"es", "ss"}
StreamFrom == [l \in StreamLinks |-> IF l = "es" THEN Entry ELSE "src"]
StreamTo == [l \in StreamLinks |-> IF l = "es" THEN "src" ELSE "sink"]
StreamTriggers == [n \in StreamNeurons |-> IF n = "src" THEN {{"es"}} ELSE {{"ss"}}]
StreamCasts == [n \in StreamNeurons |-> IF n = "src" THEN {<< "ss" >>} ELSE NoCasts]
StreamSelections == [n \in StreamNeurons |-> StreamCasts[n] \cup NoCasts]

\* The parallel-and-wait example of the README: generate has the trigger groups
\* {input, poetry} and {input, joke}.
WaitNeurons == {"input", "poetry", "joke", "generate"}
WaitLinks == {"ei", "ep", "ej", "ig", "pg", "jg"}
WaitFrom == [l \in WaitLinks |->
    CASE l = "ig" -> "input" [] l = "pg" -> "poetry" [] l = "jg" -> "joke" [] OTHER -> Entry]
WaitTo == [l \in WaitLinks |->
    CASE l = "ei" -> "input" [] l = "ep" -> "poetry" [] l = "ej" -> "joke" [] OTHER -> "generate"]
WaitTriggers == [n \in WaitNeurons |->
    CASE n = "input" -> {{"ei"}} [] n = "poetry" -> {{"ep"}} [] n = "joke" -> {{"ej"}}
      [] n = "generate" -> {{"ig", "pg"}, {"ig", "jg"}}]
WaitCasts == [n \in WaitNeurons |->
    CASE n = "input" -> {<< "ig" >>} [] n = "poetry" -> {<< "pg" >>}
      [] n = "joke" -> {<< "jg" >>} [] OTHER -> NoCasts]

\* One neuron that casts to eleven, one more than bQueueLen.
FanOut == << "f1", "f2", "f3", "f4", "f5", "f6", "f7", "f8", "f9", "f10", "f11" >>
FanNeurons == {"a"} \cup Range(FanOut)
FanLinks == {"ea"} \cup Range(FanOut)
FanFrom == [l \in FanLinks |-> IF l = "ea" THEN Entry ELSE "a"]
FanTo == [l \in FanLinks |-> IF l = "ea" THEN "a" ELSE l]
FanTriggers == [n \in FanNeurons |-> IF n = "a" THEN {{"ea"}} ELSE {{n}}]
FanCasts == [n \in FanNeurons |-> IF n = "a" THEN {FanOut} ELSE NoCasts]

\* Two neurons in a row.
ChainNeurons == {"a", "b"}
ChainLinks == {"ea", "ab"}
ChainFrom == [l \in ChainLinks |-> IF l = "ea" THEN Entry ELSE "a"]
ChainTo == [l \in ChainLinks |-> IF l = "ea" THEN "a" ELSE "b"]
ChainTriggers == [n \in ChainNeurons |-> IF n = "a" THEN {{"ea"}} ELSE {{"ab"}}]
ChainCasts == [n \in ChainNeurons |-> IF n = "a" THEN {<< "ab" >>} ELSE NoCasts]

=============================================================================
