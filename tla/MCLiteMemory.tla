---------------------------- MODULE MCLiteMemory ----------------------------
(* A small memory for model checking LiteMemory: three keys, two of which   *)
(* print alike, a text, an int32 (which reads back as an int), a key and a  *)
(* value of unsupported type.                                               *)
EXTENDS LiteMemory, TLC

CONSTANTS c1, c2, one, digit, name, flag, text, int32, int, channel

MCKeys == {one, digit, name}
MCBadKeys == {flag}
MCValues == {text, int32, int}
MCBadValues == {channel}
MCPrinted == one :> "1" @@ digit :> "1" @@ name :> "name"
MCReadBack == text :> text @@ int32 :> int @@ int :> int
MCSetCalls == {<< << name, text >>, << one, int32 >> >>,
               << << digit, int >>, << flag, text >>, << name, int >> >>,
               << << name, int >>, << one, channel >> >>}

=============================================================================
