----------------------------- MODULE MCShellHost -----------------------------
(***************************************************************************)
(* Instances of ShellHost.                                                 *)
(***************************************************************************)
EXTENDS ShellHost
CONSTANTS c1, c2
OneClient == {c1}
TwoClients == {c1, c2}
==============================================================================
