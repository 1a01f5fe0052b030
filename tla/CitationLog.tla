---------------------------- MODULE CitationLog ----------------------------
(***************************************************************************)
(* What the governance ledger promises of the envelopes cited in it: an    *)
(* append-only log; a citation is granted only while the envelope's quota  *)
(* lasts, refused for quota only when it is used up, and every act under   *)
(* an envelope spends a granted citation of its own.                       *)
(***************************************************************************)
EXTENDS Naturals, Sequences, FiniteSets

CONSTANTS Envelopes, MaxCount, NoEnvelope

VARIABLES
  log,    \* the entries, each with the envelope it cites and the outcome
  acts    \* acts under each envelope

Granted(e) == Cardinality({i \in DOMAIN log : log[i] = [envelope |-> e, outcome |-> "granted"]})

Init == /\ \A i \in DOMAIN log : log[i].outcome # "granted"
        /\ acts = [e \in Envelopes |-> 0]

Add(e, outcome) == log' = Append(log, [envelope |-> e, outcome |-> outcome])

Note == Add(NoEnvelope, "none") /\ UNCHANGED acts

Grant(e) == /\ Granted(e) < MaxCount[e]
            /\ Add(e, "granted")
            /\ UNCHANGED acts

Refuse(e) == /\ \/ Add(e, "refused")
                \/ Granted(e) = MaxCount[e] /\ Add(e, "EDQUOT")
             /\ UNCHANGED acts

Act(e) == /\ acts[e] < Granted(e)
          /\ acts' = [acts EXCEPT ![e] = @ + 1]
          /\ UNCHANGED log

Next == Note \/ \E e \in Envelopes : Grant(e) \/ Refuse(e) \/ Act(e)

Spec == Init /\ [][Next]_<<log, acts>>
=============================================================================
