------------------------------- MODULE MCIpc --------------------------------
(***************************************************************************)
(* Ipc for TLC: clients a, b in process app, receiver m in the server, and *)
(* the structs x, y that popup threads are made of.                        *)
(***************************************************************************)
EXTENDS Ipc, TLC

CONSTANTS a, b, m, x, y, app, srv, sys

Homes == [t \in Threads |->
  IF t \in {a, b} THEN app ELSE IF t = m THEN Server ELSE NoProc]

\* The free structs are alike.
Symmetry == Permutations({t \in Threads : Home[t] = NoProc})
=============================================================================
