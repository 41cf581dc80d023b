----------------------------- MODULE MCRpcServer -----------------------------
(* Values of the constants of RpcServer for model checking.                *)
EXTENDS RpcServer, MCEventBus

\* The latest height, one that may exist, and one that never does.
SomeHeights == {NoParam, 0, 2}
Latest == {NoParam}

\* The first page of a size that is out of range, and the second of size one.
SomePages == {<<NoParam, 9>>, <<2, 1>>}
OnePage == {<<NoParam, NoParam>>}
==============================================================================
