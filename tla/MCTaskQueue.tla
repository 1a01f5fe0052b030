---------------------------- MODULE MCTaskQueue ----------------------------
(* Small instances of TaskQueue.                                            *)
EXTENDS TaskQueue

CONSTANTS w1, w2, w3, t1, h1

SameHost  == [w \in Workers |-> h1]
ServesAll == [w \in Workers |-> Tasks]
=============================================================================
