--------------------------- MODULE TaskLifecycle ---------------------------
(***************************************************************************)
(* What the task queue promises for each row: it is submitted once, tried  *)
(* at most MaxAttempts times, one try after the other, goes back to        *)
(* pending only while a try is left, and stays as it ended.                *)
(***************************************************************************)
EXTENDS Naturals

CONSTANTS Tasks, MaxAttempts

VARIABLES
  state,   \* of each task
  tries    \* how often it was begun

Terminal == {"completed", "failed"}

Init == /\ state = [t \in Tasks |-> "absent"]
        /\ tries = [t \in Tasks |-> 0]

Submit(t) == /\ state[t] = "absent"
             /\ state' = [state EXCEPT ![t] = "pending"]
             /\ UNCHANGED tries

\* A worker may begin several tasks at once.
Begin(S) == /\ S # {}
            /\ \A t \in S : state[t] = "pending" /\ tries[t] < MaxAttempts
            /\ state' = [t \in Tasks |-> IF t \in S THEN "running" ELSE state[t]]
            /\ tries' = [t \in Tasks |-> IF t \in S THEN tries[t] + 1 ELSE tries[t]]

End(t, s) == /\ state[t] = "running"
             /\ s = "pending" => tries[t] < MaxAttempts
             /\ state' = [state EXCEPT ![t] = s]
             /\ UNCHANGED tries

\* Several tries whose worker is gone end at once: back to pending while a try is left.
GiveUp(S) == /\ S # {}
             /\ \A t \in S : state[t] = "running"
             /\ state' = [t \in Tasks |-> IF t \notin S THEN state[t]
                                          ELSE IF tries[t] < MaxAttempts THEN "pending" ELSE "failed"]
             /\ UNCHANGED tries

Next == \/ \E t \in Tasks : Submit(t) \/ \E s \in Terminal \cup {"pending"} : End(t, s)
        \/ \E S \in SUBSET Tasks : Begin(S) \/ GiveUp(S)

Spec == Init /\ [][Next]_<<state, tries>>
=============================================================================
