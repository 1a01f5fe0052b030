------------------------ MODULE MCGovernanceLedger ------------------------
(* Small instances of GovernanceLedger.                                     *)
EXTENDS GovernanceLedger

CONSTANTS c1, c2, f1, d1, d2, e1

\* Two processes, one call each.
OwnSessions   == [c \in Callers |-> IF c = c1 THEN d1 ELSE d2]
\* Two threads of one process.
SharedSession == [c \in Callers |-> d1]
One           == [e \in Envelopes |-> 1]
=============================================================================
