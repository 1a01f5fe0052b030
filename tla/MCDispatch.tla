----------------------------- MODULE MCDispatch -----------------------------
(* Small instances of Dispatch: sessions, the servers they are connected to *)
(* and the runner each passes.                                              *)
EXTENDS Dispatch, TLC

CONSTANTS s1, s2, p1, p2, x1, x2

\* Two sessions on two servers, both ordinary seats.
ApartHomes   == [x \in Sessions |-> IF x = x1 THEN s1 ELSE s2]
\* The seat is not on the orchestrator's server.
SeatHomes    == [x \in Sessions |-> s2]
\* Two sessions sharing one server (a desk's subagents, the serve process).
SharedHomes  == [x \in Sessions |-> s1]
AllSeats     == [x \in SessionIds |-> "seat"]
\* The ratatosk listener accepts without a session id.
WithListener == [x \in SessionIds |-> IF x = NoSession THEN "ratatosk" ELSE "seat"]

\* Two sessions race while no server dies, or servers die and x2 is alone:
\* where a server has died, nothing is of x1.
CrashOrContend == restarts' > 0 =>
  /\ record'[x1].status = "absent"
  /\ \A s \in Servers : x1 \notin {arg'[s].session, arg'[s].caller}
  /\ \A p \in Packets :
       /\ accepted'[p] # x1 /\ x1 \notin UNION {entrants'[s][p] : s \in Servers}
       /\ \A v \in {handoff'[p]} \union {old[1] : old \in history'[p]} :
            v # NoVerdict => x1 \notin {v.by, v.as}
=============================================================================
