--------------------------- MODULE PacketLifecycle ---------------------------
(***************************************************************************)
(* What the dispatch tools promise: each packet goes through one atomic    *)
(* life cycle.  A packet is posted, claimed by a session, delivered with   *)
(* exactly one verdict by the session that claimed it, verified and        *)
(* released, and may then be claimed again; a packet not yet delivered may *)
(* be withdrawn, for good.  No locks, files, crashes or session records.   *)
(***************************************************************************)
CONSTANTS Packets, Sessions, NoSession, NoVerdict

Verdicts == [as : Sessions \cup {NoSession}, clean : BOOLEAN]

VARIABLES phase, holder, verdict
vars == <<phase, holder, verdict>>

Init ==
  /\ phase = [p \in Packets |-> "unsent"]
  /\ holder = [p \in Packets |-> NoSession]
  /\ verdict = [p \in Packets |-> NoVerdict]

Move(p, from, to) == phase[p] \in from /\ phase' = [phase EXCEPT ![p] = to]

Post(p) == Move(p, {"unsent"}, "pending") /\ UNCHANGED <<holder, verdict>>

Claim(p, x) ==
  /\ Move(p, {"pending", "cleared"}, "working")
  /\ holder' = [holder EXCEPT ![p] = x]
  /\ UNCHANGED verdict

\* An empty holder (a claim without a session id) takes a verdict from anyone.
Deliver(p, v) ==
  /\ Move(p, {"working"}, "complete")
  /\ holder[p] \in {NoSession, v.as}
  /\ verdict' = [verdict EXCEPT ![p] = v]
  /\ UNCHANGED holder

Verify(p) ==
  /\ verdict[p] # NoVerdict /\ verdict[p].clean
  /\ Move(p, {"complete"}, "verified")
  /\ UNCHANGED <<holder, verdict>>

Free(p) ==
  /\ Move(p, {"complete", "verified"}, "cleared")
  /\ verdict' = [verdict EXCEPT ![p] = NoVerdict]
  /\ UNCHANGED holder

Retire(p) == Move(p, {"pending", "working"}, "withdrawn") /\ UNCHANGED <<holder, verdict>>

Next == \E p \in Packets :
  \/ Post(p) \/ Verify(p) \/ Free(p) \/ Retire(p)
  \/ \E x \in Sessions \cup {NoSession} : Claim(p, x)
  \/ \E v \in Verdicts : Deliver(p, v)

Spec == Init /\ [][Next]_vars
=============================================================================
