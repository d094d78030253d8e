---------------------------- MODULE MCLifecycle ----------------------------
(* Small programs around one brain, for model checking Lifecycle: the cfg   *)
(* files say which uses of Shutdown a program is capable of.                *)
EXTENDS Lifecycle

=============================================================================
