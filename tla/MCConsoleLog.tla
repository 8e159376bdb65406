---------------------------- MODULE MCConsoleLog ----------------------------
(* Instances of ConsoleLog for TLC. *)
EXTENDS ConsoleLog, TLC
=============================================================================
