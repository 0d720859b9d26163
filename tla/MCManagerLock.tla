---------------------------- MODULE MCManagerLock ----------------------------
(* TLC instances of ManagerLock: a server with two requests and a CLI run, or
   three CLI runs. *)
EXTENDS ManagerLock

CONSTANTS Server, Cli, Cli2, Post1, Post2, Command, Command2

ServerAndCli == [t \in Task |-> IF t = Command THEN Cli ELSE Server]
ThreeRuns == [t \in Task |-> CASE t = Post1 -> Server [] t = Command -> Cli [] t = Command2 -> Cli2]
=============================================================================
