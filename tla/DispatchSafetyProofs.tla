------------------------ MODULE DispatchSafetyProofs ------------------------
(***************************************************************************)
(* The safety theorems of Dispatch.  Every step of a server changes at     *)
(* most one packet, in one of eleven ways (StepEffect); while another      *)
(* server holds packet_lock the only change is dispatch_send's status      *)
(* (LockedOut).  From these two facts each part of Inductive is preserved  *)
(* packet by packet, and what a handler read under the lock stays true     *)
(* until it releases it (HandlerInv).                                      *)
(***************************************************************************)
EXTENDS DispatchProofs

ServerStep(s) == Start(s) \/ Continue(s) \/ Restart(s)

\* A step of s leaves the calls of the other servers alone.
LEMMA OthersWait ==
  ASSUME CallType, NEW s \in Servers, ServerStep(s), NEW t \in Servers, t # s
  PROVE  pc'[t] = pc[t] /\ arg'[t] = arg[t]
<1>1. CASE Start(s)
  BY <1>1 DEF CallType, Begin, Start, SendMkdir, Accept, Enter, EnterBare, CloseSession,
              Write, Verify, Clear, Withdraw
<1>2. CASE SendMeta(s) \/ SendAssignment(s) \/ SendStatus(s)
  BY <1>2 DEF CallType, Go, Return, SendMeta, SendAssignment, SendStatus
<1>3. CASE \/ AcceptLock(s) \/ AcceptArchive(s) \/ AcceptArchiveCloseout(s)
           \/ AcceptStatus(s) \/ AcceptBind(s)
  BY <1>3 DEF CallType, Go, Return, AcceptLock, AcceptArchive, AcceptArchiveCloseout,
              AcceptStatus, AcceptBind
<1>4. CASE EnterRead(s) \/ EnterReread(s) \/ EnterBind(s)
  BY <1>4 DEF CallType, Go, Return, EnterRead, EnterReread, EnterBind
<1>5. CASE WriteLock(s) \/ WriteLink(s) \/ WriteCloseout(s) \/ WriteStatus(s)
  BY <1>5 DEF CallType, Go, Return, WriteLock, WriteLink, WriteCloseout, WriteStatus
<1>6. CASE \/ VerifyRead(s) \/ VerifySet(s) \/ ClearLock(s) \/ ClearBind(s)
           \/ WithdrawLock(s) \/ WithdrawSet(s) \/ Restart(s)
  BY <1>6 DEF CallType, Go, Return, VerifyRead, VerifySet, ClearLock, ClearBind,
              WithdrawLock, WithdrawSet, Restart
<1> QED BY <1>1, <1>2, <1>3, <1>4, <1>5, <1>6 DEF ServerStep, Continue

-----------------------------------------------------------------------------
(* What a step does to a packet.                                           *)

\* Everything but the status stays.
Still(p) == /\ accepted'[p] = accepted[p] /\ handoff'[p] = handoff[p]
            /\ closeout'[p] = closeout[p] /\ history'[p] = history[p]
            /\ cycle'[p] = cycle[p]
Becomes(p, new) == status'[p] = IF status[p] = "none" THEN "none" ELSE new

Untouched(p) == Still(p) /\ status'[p] = status[p]
Sent(s, p) == pc[s] = "send_status" /\ Still(p) /\ status'[p] = "pending"
Archived(s, p) ==
  /\ pc[s] = "accept_archive"
  /\ status'[p] = status[p] /\ accepted'[p] = accepted[p]
  /\ closeout'[p] = closeout[p] /\ cycle'[p] = cycle[p]
  /\ handoff'[p] = NoVerdict
  /\ history'[p] = IF handoff[p] = NoVerdict THEN history[p]
                   ELSE history[p] \cup {<<handoff[p], NoVerdict>>}
ArchivedCloseout(s, p) ==
  /\ pc[s] = "accept_archive_closeout"
  /\ status'[p] = status[p] /\ accepted'[p] = accepted[p]
  /\ handoff'[p] = handoff[p] /\ cycle'[p] = cycle[p]
  /\ closeout'[p] = NoVerdict
  /\ \E old \in history[p] :
       history'[p] = (history[p] \ {old}) \cup {<<old[1], closeout[p]>>}
Accepted(s, p) ==
  /\ pc[s] = "accept_status"
  /\ handoff'[p] = handoff[p] /\ closeout'[p] = closeout[p] /\ history'[p] = history[p]
  /\ Becomes(p, "working")
  /\ IF status[p] = "none"
     THEN accepted'[p] = accepted[p] /\ cycle'[p] = cycle[p]
     ELSE accepted'[p] = arg[s].session /\ cycle'[p] = cycle[p] + 1
Linked(s, p) ==
  /\ pc[s] = "write_link"
  /\ status'[p] = status[p] /\ accepted'[p] = accepted[p]
  /\ closeout'[p] = closeout[p] /\ history'[p] = history[p] /\ cycle'[p] = cycle[p]
  /\ handoff[p] = NoVerdict
  /\ handoff'[p] # NoVerdict
  /\ handoff'[p].cycle = cycle[p] /\ handoff'[p].as = arg[s].session
  /\ handoff'[p].by = arg[s].caller
Rendered(s, p) ==
  /\ pc[s] = "write_closeout"
  /\ status'[p] = status[p] /\ accepted'[p] = accepted[p]
  /\ handoff'[p] = handoff[p] /\ history'[p] = history[p] /\ cycle'[p] = cycle[p]
  /\ closeout'[p] = handoff[p]
Completed(s, p) == pc[s] = "write_status" /\ Still(p) /\ Becomes(p, "complete")
Verified(s, p) ==
  pc[s] = "verify_set" /\ lock[p] = NoServer /\ Still(p) /\ Becomes(p, "verified")
Cleared(s, p) ==
  /\ pc[s] = "clear_lock" /\ lock[p] = NoServer
  /\ status[p] \in {"complete", "verified"}
  /\ Still(p) /\ status'[p] = "cleared"
Withdrawn(s, p) == pc[s] = "withdraw_set" /\ Still(p) /\ Becomes(p, "withdrawn")

Effect(s, p) ==
  \/ Untouched(p)
  \/ /\ arg[s].packet = p
     /\ \/ Sent(s, p) \/ Archived(s, p) \/ ArchivedCloseout(s, p) \/ Accepted(s, p)
        \/ Linked(s, p) \/ Rendered(s, p) \/ Completed(s, p) \/ Verified(s, p)
        \/ Cleared(s, p) \/ Withdrawn(s, p)

LEMMA StepEffect ==
  ASSUME TypeOK, CallInv, NEW s \in Servers, ServerStep(s), NEW p \in Packets
  PROVE  Effect(s, p)
<1> DEFINE q == arg[s].packet
<1>0. /\ CallType /\ DataType
      /\ pc[s] # "idle" => q \in Packets
  BY TypeParts, ArgParts
<1>1. CASE \/ SendMkdir(s) \/ SendMeta(s) \/ SendAssignment(s)
           \/ EnterBare(s) \/ CloseSession(s) \/ ClearBind(s)
  BY <1>1 DEF SendMkdir, SendMeta, SendAssignment, EnterBare, CloseSession, ClearBind,
              packetVars, Effect, Untouched, Still
<1>2. CASE Accept(s) \/ Enter(s) \/ Write(s) \/ Verify(s) \/ Clear(s) \/ Withdraw(s) \/ Restart(s)
  BY <1>2 DEF Accept, Enter, Write, Verify, Clear, Withdraw, Restart,
              packetVars, Effect, Untouched, Still
<1>3. CASE \/ AcceptLock(s) \/ AcceptBind(s) \/ EnterRead(s) \/ EnterReread(s) \/ EnterBind(s)
           \/ WriteLock(s) \/ VerifyRead(s) \/ WithdrawLock(s)
  BY <1>3 DEF AcceptLock, AcceptBind, EnterRead, EnterReread, EnterBind, WriteLock, VerifyRead,
              WithdrawLock, packetVars, Effect, Untouched, Still
<1>4. CASE SendStatus(s)
  BY <1>0, <1>4 DEF SendStatus, DataType, Effect, Untouched, Sent, Still
<1>5. CASE AcceptArchive(s)
  BY <1>0, <1>5 DEF AcceptArchive, DataType, Effect, Untouched, Archived, Still
<1>6. CASE AcceptArchiveCloseout(s)
  <2>1. PICK old \in history[q] :
          history' = [history EXCEPT ![q] = (@ \ {old}) \cup {<<old[1], closeout[q]>>}]
    BY <1>6 DEF AcceptArchiveCloseout
  <2>2. CASE p # q
    BY <1>0, <1>6, <2>1, <2>2 DEF AcceptArchiveCloseout, DataType, Effect, Untouched, Still
  <2>3. CASE p = q
    <3>1. \E x \in history[p] : history'[p] = (history[p] \ {x}) \cup {<<x[1], closeout[p]>>}
      BY <1>0, <2>1, <2>3 DEF DataType
    <3>2. ArchivedCloseout(s, p)
      BY <1>0, <1>6, <2>3, <3>1 DEF AcceptArchiveCloseout, DataType, ArchivedCloseout
    <3> QED BY <2>3, <3>2 DEF Effect
  <2> QED BY <2>2, <2>3
<1>7. CASE AcceptStatus(s)
  BY <1>0, <1>7 DEF AcceptStatus, SetStatus, DataType, Effect, Untouched, Accepted, Still, Becomes
<1>8. CASE WriteLink(s)
  <2>1. CASE handoff[q] # NoVerdict
    BY <1>8, <2>1 DEF WriteLink, LinkFails, Effect, Untouched, Still
  <2>2. CASE handoff[q] = NoVerdict
    <3>1. PICK clean \in BOOLEAN : handoff' = [handoff EXCEPT ![q] =
            [cycle |-> cycle[q], by |-> arg[s].caller, as |-> arg[s].session, clean |-> clean]]
      BY <1>8, <2>2 DEF WriteLink, LinkFails
    <3>2. [cycle |-> cycle[q], by |-> arg[s].caller, as |-> arg[s].session, clean |-> clean]
            \in Verdicts
      BY <1>0, <1>8, ArgParts DEF WriteLink, DataType, Verdicts
    <3>3. /\ handoff'[q] # NoVerdict
          /\ handoff'[q].cycle = cycle[q] /\ handoff'[q].as = arg[s].session
          /\ handoff'[q].by = arg[s].caller
      BY <1>0, <1>8, <3>1, <3>2, NamesAssumption DEF WriteLink, DataType
    <3>4. p # q => handoff'[p] = handoff[p]
      BY <1>0, <3>1 DEF DataType
    <3> QED BY <1>8, <2>2, <3>3, <3>4 DEF WriteLink, LinkFails, Effect, Untouched, Linked, Still
  <2> QED BY <2>1, <2>2
<1>9. CASE WriteCloseout(s)
  BY <1>0, <1>9 DEF WriteCloseout, DataType, Effect, Untouched, Rendered, Still
<1>10. CASE WriteStatus(s)
  BY <1>0, <1>10 DEF WriteStatus, SetStatus, DataType, Effect, Untouched, Completed, Still, Becomes
<1>11. CASE VerifySet(s)
  BY <1>0, <1>11 DEF VerifySet, SetStatus, DataType, Effect, Untouched, Verified, Still, Becomes
<1>12. CASE ClearLock(s)
  BY <1>0, <1>12 DEF ClearLock, SetStatus, DataType, Effect, Untouched, Cleared, Still
<1>13. CASE WithdrawSet(s)
  BY <1>0, <1>13 DEF WithdrawSet, SetStatus, DataType, Effect, Untouched, Withdrawn, Still, Becomes
<1> QED BY <1>1, <1>2, <1>3, <1>4, <1>5, <1>6, <1>7, <1>8, <1>9, <1>10, <1>11, <1>12, <1>13
        DEF ServerStep, Start, Continue

-----------------------------------------------------------------------------
(* The invariants of one packet, preserved effect by effect.               *)

\* What the handler of a step that changes the packet knows about it.
LEMMA ActorFacts ==
  ASSUME Inductive, NEW s \in Servers, NEW p \in Packets, arg[s].packet = p
  PROVE  /\ pc[s] = "send_status" => status[p] = "none"
         /\ pc[s] \in {"accept_archive", "accept_archive_closeout"} => status[p] = "cleared"
         /\ pc[s] = "accept_archive_closeout" => handoff[p] = NoVerdict
         /\ pc[s] = "accept_status" =>
              status[p] \in {"none", "pending", "cleared"} /\ handoff[p] = NoVerdict
         /\ pc[s] \in {"write_link", "write_closeout", "write_status"} => status[p] = "working"
         /\ pc[s] = "write_link" => accepted[p] \in {NoSession, arg[s].session}
         /\ pc[s] = "write_status" => handoff[p] # NoVerdict /\ closeout[p] = handoff[p]
  BY DEF Inductive, SendInv, HandlerInv, SendSteps

LEMMA UnclaimedPreserved ==
  ASSUME Inductive, NEW s \in Servers, ServerStep(s)
  PROVE  UnclaimedInv'
<1> SUFFICES ASSUME NEW p \in Packets, status'[p] \in {"none", "pending"}
             PROVE  accepted'[p] = NoSession /\ handoff'[p] = NoVerdict /\ history'[p] = {}
  BY DEF UnclaimedInv
<1>1. Effect(s, p)
  BY StepEffect DEF Inductive
<1>2. status[p] \in {"none", "pending"} =>
        accepted[p] = NoSession /\ handoff[p] = NoVerdict /\ history[p] = {}
  BY DEF Inductive, UnclaimedInv
<1>3. CASE Untouched(p)
  BY <1>2, <1>3 DEF Untouched, Still
<1>4. ASSUME arg[s].packet = p, Sent(s, p) \/ Archived(s, p) \/ ArchivedCloseout(s, p)
      PROVE  accepted'[p] = NoSession /\ handoff'[p] = NoVerdict /\ history'[p] = {}
  BY <1>2, <1>4, ActorFacts DEF Sent, Archived, ArchivedCloseout, Still
<1>5. ASSUME arg[s].packet = p, Accepted(s, p) \/ Linked(s, p) \/ Rendered(s, p)
      PROVE  accepted'[p] = NoSession /\ handoff'[p] = NoVerdict /\ history'[p] = {}
  BY <1>2, <1>5, ActorFacts DEF Accepted, Linked, Rendered, Becomes
<1>6. CASE Completed(s, p) \/ Verified(s, p) \/ Cleared(s, p) \/ Withdrawn(s, p)
  BY <1>2, <1>6 DEF Completed, Verified, Cleared, Withdrawn, Still, Becomes
<1> QED BY <1>1, <1>3, <1>4, <1>5, <1>6 DEF Effect

LEMMA VerdictOfHolderPreserved ==
  ASSUME Inductive, NEW s \in Servers, ServerStep(s)
  PROVE  VerdictOfHolder'
<1> SUFFICES ASSUME NEW p \in Packets, handoff'[p] # NoVerdict
             PROVE  accepted'[p] \in {NoSession, handoff'[p].as}
  BY DEF VerdictOfHolder
<1>1. Effect(s, p)
  BY StepEffect DEF Inductive
<1>2. handoff[p] # NoVerdict => accepted[p] \in {NoSession, handoff[p].as}
  BY DEF Inductive, VerdictOfHolder
<1>3. CASE \/ Untouched(p) \/ Sent(s, p) \/ Archived(s, p) \/ ArchivedCloseout(s, p)
           \/ Rendered(s, p)
  BY <1>2, <1>3 DEF Untouched, Sent, Archived, ArchivedCloseout, Rendered, Still
<1>4. ASSUME arg[s].packet = p, Accepted(s, p) \/ Linked(s, p)
      PROVE  accepted'[p] \in {NoSession, handoff'[p].as}
  BY <1>2, <1>4, ActorFacts DEF Accepted, Linked
<1>5. CASE Completed(s, p) \/ Verified(s, p) \/ Cleared(s, p) \/ Withdrawn(s, p)
  BY <1>2, <1>5 DEF Completed, Verified, Cleared, Withdrawn, Still
<1> QED BY <1>1, <1>3, <1>4, <1>5 DEF Effect

LEMMA CycleInvPreserved ==
  ASSUME Inductive, NEW s \in Servers, ServerStep(s)
  PROVE  CycleInv'
<1> DEFINE Good(p) ==
      /\ handoff[p] # NoVerdict => handoff[p].cycle = cycle[p]
      /\ \A old \in history[p] : old[1].cycle \leq cycle[p]
      /\ status[p] = "working" => \A old \in history[p] : old[1].cycle < cycle[p]
<1> SUFFICES ASSUME NEW p \in Packets
             PROVE  Good(p)'
  BY DEF CycleInv
<1>1. Effect(s, p)
  BY StepEffect DEF Inductive
<1>2. Good(p)
  BY DEF Inductive, CycleInv
<1>t. /\ cycle[p] \in Nat
      /\ history[p] \subseteq Verdicts \X (Verdicts \cup {NoVerdict})
      /\ \A v \in Verdicts : v.cycle \in Nat
  BY DEF Inductive, TypeOK, Verdicts
<1>3. CASE Untouched(p) \/ Sent(s, p) \/ Rendered(s, p)
  BY <1>2, <1>3 DEF Untouched, Sent, Rendered, Still
<1>4. ASSUME arg[s].packet = p, Archived(s, p)
      PROVE  Good(p)'
  <2>1. status'[p] = "cleared"
    BY <1>4, ActorFacts DEF Archived
  <2>2. \A old \in history'[p] : old \in history[p] \/ old[1].cycle = cycle[p]
    BY <1>2, <1>4 DEF Archived
  <2> QED BY <1>2, <1>4, <1>t, <2>1, <2>2 DEF Archived
<1>5. ASSUME arg[s].packet = p, ArchivedCloseout(s, p)
      PROVE  Good(p)'
  <2>1. status'[p] = "cleared"
    BY <1>5, ActorFacts DEF ArchivedCloseout
  <2>2. \A new \in history'[p] : \E old \in history[p] : new[1] = old[1]
    BY <1>5 DEF ArchivedCloseout
  <2> QED BY <1>2, <1>5, <2>1, <2>2 DEF ArchivedCloseout
<1>6. ASSUME arg[s].packet = p, Accepted(s, p)
      PROVE  Good(p)'
  <2>1. CASE status[p] = "none"
    BY <1>2, <1>6, <2>1 DEF Accepted, Becomes
  <2>2. CASE status[p] # "none"
    <3>1. handoff'[p] = NoVerdict /\ history'[p] = history[p] /\ cycle'[p] = cycle[p] + 1
      BY <1>6, <2>2, ActorFacts DEF Accepted
    <3>2. \A old \in history[p] : old[1].cycle < cycle[p] + 1
      BY <1>2, <1>t
    <3> QED BY <1>t, <3>1, <3>2
  <2> QED BY <2>1, <2>2
<1>7. CASE Linked(s, p)
  BY <1>2, <1>7 DEF Linked
<1>8. CASE Completed(s, p) \/ Verified(s, p) \/ Cleared(s, p) \/ Withdrawn(s, p)
  BY <1>2, <1>8 DEF Completed, Verified, Cleared, Withdrawn, Still, Becomes
<1> QED BY <1>1, <1>3, <1>4, <1>5, <1>6, <1>7, <1>8 DEF Effect

LEMMA CompleteHasVerdictPreserved ==
  ASSUME Inductive, NEW s \in Servers, ServerStep(s)
  PROVE  CompleteHasVerdict'
<1> SUFFICES ASSUME NEW p \in Packets, status'[p] = "complete"
             PROVE  /\ handoff'[p] # NoVerdict
                    /\ handoff'[p].cycle = cycle'[p]
                    /\ closeout'[p] = handoff'[p]
  BY DEF CompleteHasVerdict
<1>1. Effect(s, p)
  BY StepEffect DEF Inductive
<1>2. /\ status[p] = "complete" =>
           handoff[p] # NoVerdict /\ handoff[p].cycle = cycle[p] /\ closeout[p] = handoff[p]
      /\ handoff[p] # NoVerdict => handoff[p].cycle = cycle[p]
  BY DEF Inductive, CompleteHasVerdict, CycleInv
<1>3. CASE Untouched(p)
  BY <1>2, <1>3 DEF Untouched, Still
<1>4. ASSUME arg[s].packet = p,
             \/ Sent(s, p) \/ Archived(s, p) \/ ArchivedCloseout(s, p) \/ Accepted(s, p)
             \/ Linked(s, p) \/ Rendered(s, p)
      PROVE  FALSE
  BY <1>4, ActorFacts DEF Sent, Archived, ArchivedCloseout, Accepted, Linked, Rendered, Becomes
<1>5. ASSUME arg[s].packet = p, Completed(s, p)
      PROVE  handoff'[p] # NoVerdict /\ handoff'[p].cycle = cycle'[p] /\ closeout'[p] = handoff'[p]
  BY <1>2, <1>5, ActorFacts DEF Completed, Still
<1>6. CASE Verified(s, p) \/ Cleared(s, p) \/ Withdrawn(s, p)
  BY <1>6 DEF Verified, Cleared, Withdrawn, Becomes
<1> QED BY <1>1, <1>3, <1>4, <1>5, <1>6 DEF Effect

LEMMA OneVerdictPerCyclePreserved ==
  ASSUME Inductive, NEW s \in Servers, ServerStep(s)
  PROVE  OneVerdictPerCycle'
<1> DEFINE Good(p) ==
      /\ \A old, other \in history[p] : old[1].cycle = other[1].cycle => old = other
      /\ handoff[p] # NoVerdict => \A old \in history[p] : old[1].cycle # handoff[p].cycle
<1> SUFFICES ASSUME NEW p \in Packets
             PROVE  Good(p)'
  BY DEF OneVerdictPerCycle
<1>1. Effect(s, p)
  BY StepEffect DEF Inductive
<1>2. Good(p)
  BY DEF Inductive, OneVerdictPerCycle
<1>3. CASE Untouched(p) \/ Sent(s, p) \/ Rendered(s, p)
  BY <1>2, <1>3 DEF Untouched, Sent, Rendered, Still
<1>4. CASE Archived(s, p)
  BY <1>2, <1>4 DEF Archived
<1>5. ASSUME arg[s].packet = p, ArchivedCloseout(s, p)
      PROVE  Good(p)'
  <2>1. handoff'[p] = NoVerdict
    BY <1>5, ActorFacts DEF ArchivedCloseout
  <2>2. PICK old \in history[p] :
          history'[p] = (history[p] \ {old}) \cup {<<old[1], closeout[p]>>}
    BY <1>5 DEF ArchivedCloseout
  <2> QED BY <1>2, <2>1, <2>2
<1>6. ASSUME arg[s].packet = p, Accepted(s, p)
      PROVE  Good(p)'
  BY <1>2, <1>6, ActorFacts DEF Accepted
<1>7. ASSUME arg[s].packet = p, Linked(s, p)
      PROVE  Good(p)'
  <2>1. \A old \in history[p] : old[1].cycle < cycle[p]
    BY <1>7, ActorFacts DEF Linked, Inductive, CycleInv
  <2>2. /\ cycle[p] \in Nat
        /\ \A old \in history[p] : old[1].cycle \in Nat
    BY DEF Inductive, TypeOK, Verdicts
  <2>3. \A old \in history[p] : old[1].cycle # cycle[p]
    BY <2>1, <2>2
  <2> QED BY <1>2, <1>7, <2>3 DEF Linked
<1>8. CASE Completed(s, p) \/ Verified(s, p) \/ Cleared(s, p) \/ Withdrawn(s, p)
  BY <1>2, <1>8 DEF Completed, Verified, Cleared, Withdrawn, Still
<1> QED BY <1>1, <1>3, <1>4, <1>5, <1>6, <1>7, <1>8 DEF Effect

-----------------------------------------------------------------------------
(* Calls and locks.                                                        *)

\* Where a call is right after it began, moved or returned.
LEMMA CallMoves ==
  ASSUME CallType, NEW s \in Servers
  PROVE  /\ \A step \in Steps, call \in Args :
              Begin(s, step, call) => pc'[s] = step /\ arg'[s] = call
         /\ \A step \in Steps : Go(s, step) => pc'[s] = step
         /\ Return(s) => pc'[s] = "idle" /\ arg'[s] = NoArg
  BY CallFacts DEF CallType, Begin, Go, Return

\* Another server's lock survives the step: only its holder releases it.
LEMMA LockKept ==
  ASSUME TypeOK, CallInv, NEW s \in Servers, ServerStep(s), NEW t \in Servers, t # s,
         NEW p \in Packets, lock[p] = t
  PROVE  lock'[p] = t
<1>0. /\ lock \in [Packets -> Servers \cup {NoServer}]
      /\ NoServer \notin Servers
      /\ pc[s] \in LockedSteps => lock[arg[s].packet] = s
      /\ pc[s] # "idle" => arg[s].packet \in Packets
  BY ServersAssumption DEF TypeOK, CallInv
<1>1. CASE Start(s)
  BY <1>1 DEF Start, SendMkdir, Accept, Enter, EnterBare, CloseSession, Write, Verify, Clear,
              Withdraw
<1>2. CASE AcceptLock(s) \/ WriteLock(s) \/ WithdrawLock(s)
  BY <1>0, <1>2 DEF AcceptLock, WriteLock, WithdrawLock, Acquire
<1>3. CASE AcceptBind(s) \/ WriteLink(s) \/ WriteStatus(s) \/ WithdrawSet(s)
  <2>1. pc[s] \in LockedSteps /\ (Release(s, arg[s].packet) \/ UNCHANGED lock)
    BY <1>3 DEF AcceptBind, WriteLink, WriteStatus, WithdrawSet, LockedSteps
  <2> QED BY <1>0, <2>1 DEF Release
<1>4. CASE \/ SendMeta(s) \/ SendAssignment(s) \/ SendStatus(s)
           \/ AcceptArchive(s) \/ AcceptArchiveCloseout(s) \/ AcceptStatus(s)
           \/ EnterRead(s) \/ EnterReread(s) \/ EnterBind(s) \/ WriteCloseout(s)
           \/ VerifyRead(s) \/ VerifySet(s) \/ ClearLock(s) \/ ClearBind(s)
  BY <1>4 DEF SendMeta, SendAssignment, SendStatus, AcceptArchive, AcceptArchiveCloseout,
              AcceptStatus, EnterRead, EnterReread, EnterBind, WriteCloseout,
              VerifyRead, VerifySet, ClearLock, ClearBind
<1>5. CASE Restart(s)
  BY <1>5 DEF Restart, DropLocks
<1> QED BY <1>1, <1>2, <1>3, <1>4, <1>5 DEF ServerStep, Continue

\* What CallInv says of one server.
CallGood(s) ==
  /\ pc[s] # "idle" => arg[s].packet \in Packets
  /\ arg[s].entering => arg[s].session \in Sessions
  /\ pc[s] \in LockedSteps => lock[arg[s].packet] = s

\* A call begins without the lock, and moves into its locked part by taking it.
LEMMA ActorCallGood ==
  ASSUME TypeOK, CallInv, NEW s \in Servers, ServerStep(s)
  PROVE  CallGood(s)'
<1>0. /\ CallType /\ DataType /\ CallGood(s)
      /\ lock \in [Packets -> Servers \cup {NoServer}]
  BY TypeParts DEF CallInv, CallGood, DataType
<1>1. CASE SendMkdir(s) \/ Accept(s) \/ Verify(s) \/ Clear(s) \/ Withdraw(s)
  <2>1. PICK p \in Packets, x \in SessionIds, step \in SendSteps \cup LockSteps \cup UnlockedSteps :
          Begin(s, step, Call(p, x))
    BY <1>1 DEF SendMkdir, Accept, Verify, Clear, Withdraw, SendSteps, LockSteps, UnlockedSteps,
                SessionIds
  <2>2. step \in Steps /\ step \notin LockedSteps
    BY DEF Steps, SendSteps, LockSteps, UnlockedSteps, LockedSteps
  <2>3. pc'[s] = step /\ arg'[s] = Call(p, x)
    BY <1>0, <2>1, <2>2, CallMoves, CallFacts
  <2> QED BY <2>2, <2>3, CallFacts DEF CallGood
<1>2. CASE Enter(s)
  <2>1. PICK x \in Sessions, p \in Packets, named \in BOOLEAN :
          Begin(s, "enter_read", [Call(p, x) EXCEPT !.named = named, !.entering = TRUE])
    BY <1>2 DEF Enter
  <2> DEFINE call == [Call(p, x) EXCEPT !.named = named, !.entering = TRUE]
  <2>2. call \in Args /\ call.packet = p /\ call.session = x
    <3>1. Call(p, x) \in Args /\ Call(p, x).packet = p /\ Call(p, x).session = x
      BY CallFacts DEF SessionIds
    <3> QED BY <3>1, CallUpdates
  <2>3. pc'[s] = "enter_read" /\ arg'[s] = call
    BY <1>0, <2>1, <2>2, CallMoves, StepNames
  <2> QED BY <2>2, <2>3 DEF CallGood, LockedSteps
<1>3. CASE Write(s)
  <2>1. PICK p \in Packets, x \in Sessions, omit \in BOOLEAN :
          Begin(s, "write_lock", [Call(p, x) EXCEPT !.session = IF omit THEN Resolved(s, p) ELSE x])
    BY <1>3 DEF Write
  <2> DEFINE y == IF omit THEN Resolved(s, p) ELSE x
             call == [Call(p, x) EXCEPT !.session = y]
  <2>2. y \in SessionIds
    BY <1>0, ResolvedType DEF SessionIds, DataType
  <2>3. call \in Args /\ call.packet = p /\ ~call.entering
    <3>1. Call(p, x) \in Args /\ Call(p, x).packet = p /\ ~Call(p, x).entering
      BY CallFacts DEF SessionIds
    <3>2. call.entering = Call(p, x).entering
      BY <2>2, <3>1, CallUpdates
    <3> QED BY <2>2, <3>1, <3>2, CallUpdates
  <2>4. pc'[s] = "write_lock" /\ arg'[s] = call
    BY <1>0, <2>1, <2>3, CallMoves, StepNames
  <2> QED BY <2>3, <2>4 DEF CallGood, LockedSteps
<1>4. CASE EnterBare(s) \/ CloseSession(s)
  BY <1>0, <1>4 DEF EnterBare, CloseSession, CallGood
<1>5. CASE Return(s)
  BY <1>0, <1>5, CallMoves, CallFacts DEF CallGood, LockedSteps
<1>6. ASSUME NEW step \in Steps, Go(s, step), pc[s] # "idle",
             \/ arg' = arg
             \/ \E st \in Statuses : arg' = [arg EXCEPT ![s] = [arg[s] EXCEPT !.seen = st]]
             \/ \E st \in Statuses, f \in BOOLEAN :
                  arg' = [arg EXCEPT ![s] = [arg[s] EXCEPT !.forced = f, !.seen = st]],
             step \in LockedSteps => lock'[arg[s].packet] = s
      PROVE  CallGood(s)'
  <2>1. /\ arg'[s].packet = arg[s].packet
        /\ arg'[s].session = arg[s].session
        /\ arg'[s].entering = arg[s].entering
    <3>1. \/ arg'[s] = arg[s]
          \/ \E st \in Statuses : arg'[s] = [arg[s] EXCEPT !.seen = st]
          \/ \E st \in Statuses, f \in BOOLEAN :
               arg'[s] = [arg[s] EXCEPT !.forced = f, !.seen = st]
      BY <1>0, <1>6 DEF CallType
    <3>2. arg[s] \in Args
      BY <1>0 DEF CallType
    <3>3. CASE arg'[s] = arg[s]
      BY <3>3
    <3>4. CASE \E st \in Statuses : arg'[s] = [arg[s] EXCEPT !.seen = st]
      <4>1. PICK st \in Statuses : arg'[s] = [arg[s] EXCEPT !.seen = st]
        BY <3>4
      <4> QED BY <3>2, <4>1 DEF Args
    <3>5. CASE \E st \in Statuses, f \in BOOLEAN :
                 arg'[s] = [arg[s] EXCEPT !.forced = f, !.seen = st]
      <4>1. PICK st \in Statuses, f \in BOOLEAN :
              arg'[s] = [arg[s] EXCEPT !.forced = f, !.seen = st]
        BY <3>5
      <4> QED BY <3>2, <4>1 DEF Args
    <3> QED BY <3>1, <3>3, <3>4, <3>5
  <2>2. pc'[s] = step
    BY <1>0, <1>6, CallMoves
  <2> QED BY <1>0, <1>6, <2>1, <2>2 DEF CallGood
<1>7. CASE SendMeta(s) \/ SendAssignment(s) \/ VerifyRead(s) \/ ClearLock(s)
  BY <1>5, <1>6, <1>7, StepNames
     DEF SendMeta, SendAssignment, VerifyRead, ClearLock, LockedSteps
<1>8. CASE AcceptArchive(s) \/ AcceptArchiveCloseout(s) \/ AcceptStatus(s) \/ WriteCloseout(s)
  <2>1. pc[s] \in LockedSteps /\ lock' = lock /\ arg' = arg /\ pc[s] # "idle"
    BY <1>8 DEF AcceptArchive, AcceptArchiveCloseout, AcceptStatus, WriteCloseout, LockedSteps
  <2>2. lock'[arg[s].packet] = s
    BY <1>0, <2>1 DEF CallGood
  <2> QED BY <1>6, <1>8, <2>1, <2>2, StepNames
          DEF AcceptArchive, AcceptArchiveCloseout, AcceptStatus, WriteCloseout
<1>9. CASE WriteLink(s)
  <2>1. pc[s] \in LockedSteps /\ pc[s] # "idle"
    BY <1>9 DEF WriteLink, LockedSteps
  <2>2. Return(s) \/ (Go(s, "write_closeout") /\ arg' = arg /\ lock' = lock)
    BY <1>9 DEF WriteLink
  <2> QED BY <1>0, <1>5, <1>6, <2>1, <2>2, StepNames DEF CallGood
<1>10. CASE AcceptLock(s)
  <2>1. arg[s].packet \in Packets /\ pc[s] # "idle"
    BY <1>0, <1>10 DEF AcceptLock, CallGood
  <2>2. CASE Return(s)
    BY <1>5, <2>2
  <2>3. CASE Go(s, "enter_reread") /\ UNCHANGED arg
    BY <1>6, <2>1, <2>3, StepNames DEF LockedSteps
  <2>4. ASSUME NEW step \in {"accept_archive", "accept_status"}, Go(s, step), UNCHANGED arg,
               Acquire(s, arg[s].packet)
        PROVE  CallGood(s)'
    BY <1>0, <1>6, <2>1, <2>4, StepNames DEF Acquire
  <2> QED BY <1>10, <2>2, <2>3, <2>4 DEF AcceptLock
<1>11. CASE WriteLock(s)
  <2>1. arg[s].packet \in Packets /\ pc[s] # "idle"
    BY <1>0, <1>11 DEF WriteLock, CallGood
  <2>2. Return(s) \/ (Go(s, "write_link") /\ arg' = arg /\ Acquire(s, arg[s].packet))
    BY <1>11 DEF WriteLock
  <2> QED BY <1>0, <1>5, <1>6, <2>1, <2>2, StepNames DEF Acquire
<1>12. CASE WithdrawLock(s)
  <2>1. arg[s].packet \in Packets /\ pc[s] # "idle"
    BY <1>0, <1>12 DEF WithdrawLock, CallGood
  <2>2. CASE Return(s)
    BY <1>5, <2>2
  <2>3. CASE /\ Go(s, "withdraw_set") /\ Acquire(s, arg[s].packet)
             /\ \E st \in Statuses, f \in BOOLEAN :
                  arg' = [arg EXCEPT ![s] = [arg[s] EXCEPT !.forced = f, !.seen = st]]
    BY <1>0, <1>6, <2>1, <2>3, StepNames DEF Acquire
  <2>4. Cur(arg[s].packet) \in {"pending", "working"} => Cur(arg[s].packet) \in Statuses
    BY StatusNames
  <2> QED BY <1>0, <1>12, <2>2, <2>3, <2>4 DEF WithdrawLock, CallType
<1>13. CASE EnterRead(s)
  <2>1. arg[s].packet \in Packets /\ pc[s] # "idle"
    BY <1>0, <1>13 DEF EnterRead, CallGood
  <2>2. Cur(arg[s].packet) \in Statuses
    BY <1>0, <2>1, StatusNames DEF Cur, DataType
  <2>3. CASE Return(s)
    BY <1>5, <2>3
  <2>4. CASE Go(s, "accept_lock") /\ UNCHANGED arg
    BY <1>6, <2>1, <2>4, StepNames DEF LockedSteps
  <2>5. CASE Go(s, "enter_bind") /\ arg' = [arg EXCEPT ![s].seen = Cur(arg[s].packet)]
    <3>1. arg' = [arg EXCEPT ![s] = [arg[s] EXCEPT !.seen = Cur(arg[s].packet)]]
      BY <1>0, <2>5 DEF CallType
    <3> QED BY <1>6, <2>1, <2>2, <2>5, <3>1, StepNames DEF LockedSteps
  <2> QED BY <1>13, <2>3, <2>4, <2>5 DEF EnterRead
<1>14. CASE \/ SendStatus(s) \/ AcceptBind(s) \/ EnterReread(s) \/ EnterBind(s) \/ WriteStatus(s)
            \/ VerifySet(s) \/ ClearBind(s) \/ WithdrawSet(s) \/ Restart(s)
  BY <1>5, <1>14 DEF SendStatus, AcceptBind, EnterReread, EnterBind, WriteStatus, VerifySet,
                     ClearBind, WithdrawSet, Restart
<1> QED BY <1>1, <1>2, <1>3, <1>4, <1>7, <1>8, <1>9, <1>10, <1>11, <1>12, <1>13, <1>14
        DEF ServerStep, Start, Continue

LEMMA CallInvPreserved ==
  ASSUME TypeOK, CallInv, NEW s \in Servers, ServerStep(s)
  PROVE  CallInv'
<1> SUFFICES ASSUME NEW t \in Servers PROVE CallGood(t)'
  BY DEF CallInv, CallGood
<1>1. CASE t = s
  BY <1>1, ActorCallGood
<1>2. CASE t # s
  <2>1. pc'[t] = pc[t] /\ arg'[t] = arg[t]
    BY <1>2, OthersWait, TypeParts
  <2>2. CallGood(t)
    BY DEF CallInv, CallGood
  <2>3. pc[t] \in LockedSteps => arg[t].packet \in Packets
    BY <2>2 DEF CallGood, LockedSteps
  <2> QED BY <1>2, <2>1, <2>2, <2>3, LockKept DEF CallGood
<1> QED BY <1>1, <1>2

\* A step leaves a directory where there was one, and creates one only as
\* dispatch_send's first step.
LEMMA FileEffect ==
  ASSUME TypeOK, CallInv, SendInv, NEW s \in Servers, ServerStep(s), NEW p \in Packets
  PROVE  \/ files'[p] = files[p]
         \/ /\ files[p] # "absent" \/ (pc'[s] = "send_meta" /\ arg'[s].packet = p)
            /\ files'[p] # "absent"
            /\ status'[p] = status[p]
<1>0. /\ CallType /\ files \in [Packets -> {"absent", "dir", "meta", "whole"}]
      /\ pc[s] # "idle" => arg[s].packet \in Packets
  BY TypeParts DEF CallInv, DataType
<1>1. CASE SendMkdir(s)
  <2>1. PICK q \in Packets : /\ files[q] = "absent" /\ Begin(s, "send_meta", Call(q, NoSession))
                             /\ files' = [files EXCEPT ![q] = "dir"]
    BY <1>1 DEF SendMkdir
  <2>2. pc'[s] = "send_meta" /\ arg'[s].packet = q
    BY <1>0, <2>1, CallMoves, CallFacts, StepNames DEF SessionIds
  <2> QED BY <1>0, <1>1, <2>1, <2>2 DEF SendMkdir
<1>2. CASE SendMeta(s) \/ SendAssignment(s)
  <2>1. PICK new \in {"meta", "whole"} : files' = [files EXCEPT ![arg[s].packet] = new]
    BY <1>2 DEF SendMeta, SendAssignment
  <2>2. status' = status /\ arg[s].packet \in Packets
    BY <1>0, <1>2 DEF SendMeta, SendAssignment
  <2>3. files[arg[s].packet] # "absent"
    BY <1>2 DEF SendMeta, SendAssignment, SendInv, SendSteps
  <2> QED BY <1>0, <2>1, <2>2, <2>3
<1>3. CASE ~(SendMkdir(s) \/ SendMeta(s) \/ SendAssignment(s))
  <2>1. CASE Start(s) \/ Restart(s)
    BY <1>3, <2>1 DEF Start, Accept, Enter, EnterBare, CloseSession, Write, Verify, Clear,
                      Withdraw, Restart, packetVars
  <2>2. CASE Continue(s)
    BY <1>3, <2>2 DEF Continue, SendStatus, AcceptLock, AcceptArchive, AcceptArchiveCloseout,
                      AcceptStatus, AcceptBind, EnterRead, EnterReread, EnterBind, WriteLock,
                      WriteLink, WriteCloseout, WriteStatus, VerifyRead, VerifySet, ClearLock,
                      ClearBind, WithdrawLock, WithdrawSet, packetVars
  <2> QED BY <2>1, <2>2 DEF ServerStep
<1> QED BY <1>1, <1>2, <1>3

\* The steps about which SendInv or HandlerInv says something.
Guarded == SendSteps \cup {"accept_archive", "accept_archive_closeout", "accept_status",
                           "write_link", "write_closeout", "write_status"}

\* Only these actions lead to a guarded step.
LEMMA GuardedMoves ==
  ASSUME TypeOK, CallInv, NEW s \in Servers, ServerStep(s), pc'[s] \in Guarded
  PROVE  \/ SendMkdir(s) \/ SendMeta(s) \/ SendAssignment(s)
         \/ AcceptLock(s) \/ AcceptArchive(s) \/ AcceptArchiveCloseout(s)
         \/ WriteLock(s) \/ WriteLink(s) \/ WriteCloseout(s)
<1>0. /\ CallType
      /\ CallType => (pc[s] = "idle" => pc[s] \notin Guarded)
      /\ pc[s] # "idle" => arg[s].packet \in Packets
  BY TypeParts DEF CallInv, Guarded, SendSteps
<1>1. CASE Accept(s) \/ Verify(s) \/ Clear(s) \/ Withdraw(s)
  <2>1. PICK p \in Packets, x \in SessionIds,
             step \in {"accept_lock", "verify_read", "clear_lock", "withdraw_lock"} :
          Begin(s, step, Call(p, x))
    BY <1>1 DEF Accept, Verify, Clear, Withdraw, SessionIds
  <2>2. pc'[s] = step
    BY <1>0, <2>1, CallMoves, CallFacts, StepNames
  <2> QED BY <2>2 DEF Guarded, SendSteps
<1>2. CASE Enter(s) \/ Write(s)
  <2>1. pc'[s] = "enter_read" \/ pc'[s] = "write_lock"
    BY <1>0, <1>2 DEF Enter, Write, Begin, CallType
  <2> QED BY <2>1 DEF Guarded, SendSteps
<1>3. CASE EnterBare(s) \/ CloseSession(s)
  BY <1>0, <1>3 DEF EnterBare, CloseSession
<1>4. CASE Return(s)
  BY <1>0, <1>4, CallMoves DEF Guarded, SendSteps
<1>5. ASSUME NEW step \in Steps, step \notin Guarded, Go(s, step)
      PROVE  FALSE
  BY <1>0, <1>5, CallMoves
<1>6. {"accept_bind", "accept_lock", "enter_bind", "verify_set", "clear_bind", "withdraw_set"}
        \cap Guarded = {}
  BY DEF Guarded, SendSteps
<1>7. CASE \/ AcceptStatus(s) \/ EnterRead(s) \/ VerifyRead(s) \/ ClearLock(s) \/ WithdrawLock(s)
  BY <1>4, <1>5, <1>6, <1>7, StepNames
     DEF AcceptStatus, EnterRead, VerifyRead, ClearLock, WithdrawLock
<1>8. CASE \/ SendStatus(s) \/ AcceptBind(s) \/ EnterReread(s) \/ EnterBind(s) \/ WriteStatus(s)
           \/ VerifySet(s) \/ ClearBind(s) \/ WithdrawSet(s) \/ Restart(s)
  BY <1>4, <1>8 DEF SendStatus, AcceptBind, EnterReread, EnterBind, WriteStatus, VerifySet,
                    ClearBind, WithdrawSet, Restart
<1> QED BY <1>1, <1>2, <1>3, <1>7, <1>8 DEF ServerStep, Start, Continue

\* Only its sender gives a packet its first status.
LEMMA UnsentKept ==
  ASSUME Inductive, NEW s \in Servers, NEW p \in Packets, Effect(s, p), status[p] = "none",
         ~(arg[s].packet = p /\ Sent(s, p))
  PROVE  status'[p] = "none"
<1>1. CASE Untouched(p)
  BY <1>1 DEF Untouched
<1>2. ASSUME arg[s].packet = p,
             Archived(s, p) \/ ArchivedCloseout(s, p) \/ Linked(s, p) \/ Rendered(s, p)
      PROVE  FALSE
  BY <1>2, ActorFacts DEF Archived, ArchivedCloseout, Linked, Rendered
<1>3. CASE Accepted(s, p) \/ Completed(s, p) \/ Verified(s, p) \/ Cleared(s, p) \/ Withdrawn(s, p)
  BY <1>3 DEF Accepted, Completed, Verified, Cleared, Withdrawn, Becomes
<1> QED BY <1>1, <1>2, <1>3 DEF Effect

LEMMA SendInvPreserved ==
  ASSUME Inductive, NEW s \in Servers, ServerStep(s)
  PROVE  SendInv'
<1>0. TypeOK /\ CallInv /\ SendInv /\ CallType /\ DataType
  BY TypeParts DEF Inductive
<1>n. SendSteps \subseteq Guarded
  BY DEF Guarded
\* A sender that goes on stays alone with its packet.
<1>1. ASSUME pc'[s] \in SendSteps
      PROVE  \/ \E q \in Packets : /\ files[q] = "absent" /\ files'[q] # "absent"
                                   /\ status'[q] = status[q] /\ arg'[s].packet = q
             \/ /\ pc[s] \in SendSteps /\ arg'[s] = arg[s]
                /\ files'[arg[s].packet] # "absent" /\ status' = status
  <2>1. SendMkdir(s) \/ SendMeta(s) \/ SendAssignment(s)
    <3>1. CASE \/ AcceptLock(s) \/ AcceptArchive(s) \/ AcceptArchiveCloseout(s)
               \/ WriteLock(s) \/ WriteLink(s) \/ WriteCloseout(s)
      <4>1. \/ Return(s)
            \/ \E step \in {"accept_archive", "accept_archive_closeout", "accept_status",
                            "enter_reread", "write_link", "write_closeout", "write_status"} :
                 Go(s, step)
        BY <3>1 DEF AcceptLock, AcceptArchive, AcceptArchiveCloseout, WriteLock, WriteLink,
                    WriteCloseout
      <4>2. pc'[s] \in {"idle", "accept_archive", "accept_archive_closeout", "accept_status",
                        "enter_reread", "write_link", "write_closeout", "write_status"}
        BY <1>0, <4>1, CallMoves, StepNames
      <4> QED BY <1>1, <4>2 DEF SendSteps
    <3> QED BY <1>0, <1>1, <1>n, <3>1, GuardedMoves
  <2>2. CASE SendMkdir(s)
    <3>1. PICK q \in Packets : /\ files[q] = "absent"
                               /\ Begin(s, "send_meta", Call(q, NoSession))
                               /\ files' = [files EXCEPT ![q] = "dir"]
                               /\ status' = status
      BY <2>2 DEF SendMkdir
    <3>2. arg'[s].packet = q
      BY <1>0, <3>1, CallMoves, CallFacts, StepNames DEF SessionIds
    <3> QED BY <1>0, <3>1, <3>2 DEF DataType
  <2>3. CASE SendMeta(s) \/ SendAssignment(s)
    <3>1. pc[s] \in SendSteps /\ arg' = arg /\ status' = status /\ arg[s].packet \in Packets
      BY <1>0, <2>3 DEF SendMeta, SendAssignment, SendSteps, CallInv
    <3>2. files'[arg[s].packet] # "absent"
      BY <1>0, <2>3, <3>1 DEF SendMeta, SendAssignment, DataType
    <3> QED BY <3>1, <3>2
  <2> QED BY <2>1, <2>2, <2>3
\* Nobody else gives a packet being sent a status.
<1>2. ASSUME NEW t \in Servers, t # s, pc'[t] \in SendSteps
      PROVE  /\ pc[t] \in SendSteps /\ arg'[t] = arg[t] /\ arg[t].packet \in Packets
             /\ files[arg[t].packet] # "absent" /\ files'[arg[t].packet] # "absent"
             /\ status'[arg[t].packet] = "none"
  <2> DEFINE q == arg[t].packet
  <2>1. pc[t] \in SendSteps /\ arg'[t] = arg[t]
    BY <1>0, <1>2, OthersWait
  <2>2. q \in Packets /\ files[q] # "absent" /\ status[q] = "none"
    BY <1>0, <2>1 DEF SendInv, CallInv, SendSteps
  <2>3. Effect(s, q) /\ files'[q] # "absent"
    BY <1>0, <2>2, StepEffect, FileEffect
  <2>4. ~(arg[s].packet = q /\ Sent(s, q))
    BY <1>0, <1>2, <2>1 DEF SendInv, Sent, SendSteps
  <2>5. status'[q] = "none"
    BY <2>2, <2>3, <2>4, UnsentKept
  <2> QED BY <2>1, <2>2, <2>3, <2>5
<1>3. ASSUME NEW t \in Servers, pc'[t] \in SendSteps
      PROVE  files'[arg'[t].packet] # "absent" /\ status'[arg'[t].packet] = "none"
  <2>1. CASE t = s
    BY <1>0, <1>1, <1>3, <2>1 DEF SendInv
  <2>2. CASE t # s
    BY <1>2, <1>3, <2>2
  <2> QED BY <2>1, <2>2
<1>4. ASSUME NEW t \in Servers, NEW u \in Servers, pc'[t] \in SendSteps, pc'[u] \in SendSteps,
             arg'[t].packet = arg'[u].packet
      PROVE  t = u
  <2>1. ASSUME NEW v \in Servers, v # s, pc'[v] \in SendSteps, pc'[s] \in SendSteps
        PROVE  arg'[v].packet # arg'[s].packet
    BY <1>0, <1>1, <1>2, <2>1 DEF SendInv
  <2>2. CASE t # s /\ u # s
    BY <1>0, <1>2, <1>4, <2>2 DEF SendInv
  <2> QED BY <1>4, <2>1, <2>2
<1>5. ASSUME NEW p \in Packets, files'[p] = "absent"
      PROVE  status'[p] = "none"
  <2>1. files[p] = "absent" /\ status[p] = "none"
    BY <1>0, <1>5, FileEffect DEF SendInv
  <2>2. Effect(s, p)
    BY <1>0, StepEffect
  <2>3. ~(arg[s].packet = p /\ Sent(s, p))
    BY <1>0, <2>1 DEF SendInv, Sent, SendSteps
  <2> QED BY <2>1, <2>2, <2>3, UnsentKept
<1> QED BY <1>3, <1>4, <1>5 DEF SendInv

-----------------------------------------------------------------------------
(* A handler's reading of the packet outlives every step of the others.    *)

\* What HandlerInv says of one server.
HandlerGood(s) == LET p == arg[s].packet IN
  /\ pc[s] \in {"accept_archive", "accept_archive_closeout"} => status[p] = "cleared"
  /\ pc[s] = "accept_status" =>
       status[p] \in {"none", "pending", "cleared"} /\ handoff[p] = NoVerdict
  /\ pc[s] = "accept_archive_closeout" => handoff[p] = NoVerdict
  /\ pc[s] \in {"write_link", "write_closeout", "write_status"} => status[p] = "working"
  /\ pc[s] = "write_link" => accepted[p] \in {NoSession, arg[s].session}
  /\ pc[s] \in {"write_closeout", "write_status"} => handoff[p] # NoVerdict
  /\ pc[s] = "write_status" => closeout[p] = handoff[p]

\* While another server holds the lock of a packet, a step changes it in at
\* most one way: dispatch_send's last write, from no status to pending.
LEMMA LockedOut ==
  ASSUME Inductive, NEW s \in Servers, ServerStep(s), NEW t \in Servers, t # s,
         NEW p \in Packets, lock[p] = t
  PROVE  Still(p) /\ (status'[p] = status[p] \/ (status[p] = "none" /\ status'[p] = "pending"))
<1>1. Effect(s, p)
  BY StepEffect DEF Inductive
<1>2. pc[s] \in LockedSteps => arg[s].packet # p
  BY DEF Inductive, CallInv
<1>3. lock[p] # NoServer
  BY ServersAssumption
<1>4. ~(arg[s].packet = p /\ pc[s] \in LockedSteps)
  BY <1>2
<1>5. Untouched(p) \/ (arg[s].packet = p /\ Sent(s, p))
  BY <1>1, <1>3, <1>4 DEF Effect, Archived, ArchivedCloseout, Accepted, Linked, Rendered,
                          Completed, Verified, Cleared, Withdrawn, LockedSteps
<1> QED BY <1>5, ActorFacts DEF Untouched, Sent

\* The handler that took the step: the reading it just made, or the write it
\* just did, is what its next step relies on.
LEMMA ActorHandlerGood ==
  ASSUME Inductive, NEW s \in Servers, ServerStep(s)
  PROVE  HandlerGood(s)'
<1> DEFINE p == arg[s].packet
<1>0. /\ TypeOK /\ CallInv /\ CallType /\ DataType
      /\ HandlerGood(s)
  BY TypeParts DEF Inductive, HandlerInv, HandlerGood
<1>p. pc[s] # "idle" => p \in Packets
  BY <1>0 DEF CallInv
<1>1. CASE pc'[s] \notin Guarded
  BY <1>1 DEF HandlerGood, Guarded
<1>2. CASE SendMkdir(s) \/ SendMeta(s) \/ SendAssignment(s)
  <2>1. pc'[s] \in SendSteps
    <3>1. \/ \E step \in SendSteps, call \in Args : Begin(s, step, call)
          \/ \E step \in SendSteps : Go(s, step)
      BY <1>2, CallFacts DEF SendMkdir, SendMeta, SendAssignment, SendSteps, SessionIds
    <3>2. SendSteps \subseteq Steps
      BY DEF Steps
    <3> QED BY <1>0, <3>1, <3>2, CallMoves
  <2> QED BY <2>1 DEF HandlerGood, SendSteps
\* A call that returned has nothing to rely on.
<1>3. CASE Return(s)
  BY <1>0, <1>3, CallMoves DEF HandlerGood
\* A call that went on is still about the same packet.
<1>4. ASSUME NEW step \in Steps, Go(s, step)
      PROVE  pc'[s] = step
  BY <1>0, <1>4, CallMoves
<1>5. CASE AcceptLock(s)
  <2>1. /\ p \in Packets
        /\ (arg' = arg \/ Return(s))
        /\ UNCHANGED packetVars
    BY <1>5, <1>p DEF AcceptLock
  <2>2. CASE Go(s, "enter_reread") /\ arg' = arg
    BY <1>4, <2>2, StepNames DEF HandlerGood
  <2>3. CASE Go(s, "accept_archive") /\ Cur(p) = "cleared" /\ arg' = arg
    <3>1. status'[p] = "cleared" /\ pc'[s] = "accept_archive"
      BY <1>4, <2>1, <2>3, StepNames DEF Cur, packetVars
    <3> QED BY <2>3, <3>1 DEF HandlerGood
  <2>4. CASE Go(s, "accept_status") /\ Cur(p) = "pending" /\ arg' = arg
    <3>1. status[p] \in {"none", "pending"} /\ pc'[s] = "accept_status" /\ p \in Packets
      BY <1>4, <1>5, <1>p, <2>4, StepNames DEF Cur, AcceptLock
    <3>2. handoff[p] = NoVerdict
      BY <3>1 DEF Inductive, UnclaimedInv
    <3> QED BY <2>1, <2>4, <3>1, <3>2 DEF HandlerGood, packetVars
  <2> QED BY <1>3, <1>5, <2>2, <2>3, <2>4 DEF AcceptLock, Acceptable
<1>6. CASE AcceptArchive(s)
  <2>1. /\ p \in Packets /\ arg' = arg /\ status' = status
        /\ status[p] = "cleared" /\ handoff'[p] = NoVerdict
    BY <1>0, <1>6, <1>p DEF AcceptArchive, HandlerGood, DataType
  <2>2. pc'[s] \in {"accept_status", "accept_archive_closeout"}
    BY <1>4, <1>6, StepNames DEF AcceptArchive
  <2> QED BY <2>1, <2>2 DEF HandlerGood
<1>7. CASE AcceptArchiveCloseout(s)
  <2>1. /\ arg' = arg /\ status' = status /\ handoff' = handoff
        /\ status[p] = "cleared" /\ handoff[p] = NoVerdict
    BY <1>0, <1>7 DEF AcceptArchiveCloseout, HandlerGood
  <2>2. pc'[s] = "accept_status"
    BY <1>4, <1>7, StepNames DEF AcceptArchiveCloseout
  <2> QED BY <2>1, <2>2 DEF HandlerGood
<1>8. CASE WriteLock(s)
  <2>1. CASE /\ Cur(p) = "working" /\ ~HeldByOther(p, arg[s].session)
             /\ Go(s, "write_link") /\ arg' = arg
    <3>1. status[p] = "working" /\ accepted[p] \in {NoSession, arg[s].session}
      BY <2>1 DEF Cur, HeldByOther
    <3>2. pc'[s] = "write_link" /\ UNCHANGED packetVars
      BY <1>4, <1>8, <2>1, StepNames DEF WriteLock
    <3> QED BY <2>1, <3>1, <3>2 DEF HandlerGood, packetVars
  <2> QED BY <1>3, <1>8, <2>1 DEF WriteLock
<1>9. CASE WriteLink(s)
  <2>1. CASE Go(s, "write_closeout") /\ arg' = arg /\ handoff[p] = NoVerdict
    <3>1. pc'[s] = "write_closeout" /\ status' = status /\ status[p] = "working"
      BY <1>0, <1>4, <1>9, <2>1, StepNames DEF WriteLink, HandlerGood
    <3>2. handoff'[p] # NoVerdict
      <4>1. PICK clean \in BOOLEAN : handoff' = [handoff EXCEPT ![p] =
              [cycle |-> cycle[p], by |-> arg[s].caller, as |-> arg[s].session, clean |-> clean]]
        BY <1>9, <2>1 DEF WriteLink, LinkFails
      <4>2. p \in Packets
        BY <1>9, <1>p DEF WriteLink
      <4>3. [cycle |-> cycle[p], by |-> arg[s].caller, as |-> arg[s].session, clean |-> clean]
              \in Verdicts
        BY <1>0, <4>2, ArgParts DEF DataType, Verdicts
      <4> QED BY <1>0, <4>1, <4>2, <4>3, NamesAssumption DEF DataType
    <3> QED BY <2>1, <3>1, <3>2 DEF HandlerGood
  <2> QED BY <1>3, <1>9, <2>1 DEF WriteLink, LinkFails
<1>10. CASE WriteCloseout(s)
  <2>1. /\ p \in Packets /\ arg' = arg /\ status' = status /\ handoff' = handoff
        /\ status[p] = "working" /\ handoff[p] # NoVerdict /\ closeout'[p] = handoff[p]
    BY <1>0, <1>10, <1>p DEF WriteCloseout, HandlerGood, DataType
  <2>2. pc'[s] = "write_status"
    BY <1>4, <1>10, StepNames DEF WriteCloseout
  <2> QED BY <2>1, <2>2 DEF HandlerGood
<1> QED BY <1>0, <1>1, <1>2, <1>5, <1>6, <1>7, <1>8, <1>9, <1>10, GuardedMoves

LEMMA HandlerInvPreserved ==
  ASSUME Inductive, NEW s \in Servers, ServerStep(s)
  PROVE  HandlerInv'
<1> SUFFICES ASSUME NEW t \in Servers PROVE HandlerGood(t)'
  BY DEF HandlerInv, HandlerGood
<1>1. CASE t = s
  BY <1>1, ActorHandlerGood
<1>2. CASE t # s
  <2> DEFINE p == arg[t].packet
  <2>1. pc'[t] = pc[t] /\ arg'[t] = arg[t] /\ HandlerGood(t)
    BY <1>2, OthersWait, TypeParts DEF Inductive, HandlerInv, HandlerGood
  <2>2. CASE pc[t] \notin LockedSteps
    BY <2>1, <2>2 DEF HandlerGood, LockedSteps
  <2>3. CASE pc[t] \in LockedSteps
    <3>1. p \in Packets /\ lock[p] = t
      BY <2>3 DEF Inductive, CallInv, LockedSteps
    <3>2. Still(p) /\ (status'[p] = status[p] \/ (status[p] = "none" /\ status'[p] = "pending"))
      BY <1>2, <3>1, LockedOut
    <3> QED BY <2>1, <3>2 DEF HandlerGood, Still
  <2> QED BY <2>2, <2>3
<1> QED BY <1>1, <1>2

-----------------------------------------------------------------------------
(* The theorems.                                                           *)

LEMMA InitInductive == Init => Inductive
<1> SUFFICES ASSUME Init PROVE Inductive
  OBVIOUS
<1>1. TypeOK
  BY CallFacts, StepNames, BoundsAssumption
     DEF Init, TypeOK, SessionIds, Records
<1>2. CallInv /\ SendInv /\ HandlerInv
  BY CallFacts DEF Init, CallInv, SendInv, HandlerInv, SendSteps, LockedSteps
<1>3. UnclaimedInv /\ CycleInv /\ VerdictOfHolder /\ CompleteHasVerdict /\ OneVerdictPerCycle
  BY DEF Init, UnclaimedInv, CycleInv, VerdictOfHolder, CompleteHasVerdict, OneVerdictPerCycle
<1> QED BY <1>1, <1>2, <1>3 DEF Inductive

LEMMA NextInductive == Inductive /\ [Next]_vars => Inductive'
<1> SUFFICES ASSUME Inductive, [Next]_vars PROVE Inductive'
  OBVIOUS
<1>1. ASSUME NEW s \in Servers, ServerStep(s)
      PROVE  Inductive'
  <2>1. TypeOK'
    <3>1. CallType /\ DataType /\ CallInv
      BY TypeParts DEF Inductive
    <3>2. CallType' /\ DataType'
      BY <1>1, <3>1, StepCallType, StepDataType DEF DataType, ServerStep
    <3> QED BY <3>2 DEF TypeOK, CallType, DataType
  <2>2. CallInv' /\ SendInv' /\ HandlerInv'
    BY <1>1, CallInvPreserved, SendInvPreserved, HandlerInvPreserved DEF Inductive
  <2>3. UnclaimedInv' /\ CycleInv' /\ VerdictOfHolder' /\ CompleteHasVerdict' /\ OneVerdictPerCycle'
    BY <1>1, UnclaimedPreserved, CycleInvPreserved, VerdictOfHolderPreserved,
       CompleteHasVerdictPreserved, OneVerdictPerCyclePreserved
  <2> QED BY <2>1, <2>2, <2>3 DEF Inductive
<1>2. CASE UNCHANGED vars
  BY <1>2 DEF vars, Inductive, TypeOK, CallInv, SendInv, UnclaimedInv, HandlerInv, CycleInv,
              VerdictOfHolder, CompleteHasVerdict, OneVerdictPerCycle
<1> QED BY <1>1, <1>2 DEF Next, ServerStep

\* The conjunction of the invariants below is inductive, for any servers,
\* packets and sessions: whatever the interleaving of dispatch.py's handlers
\* and wherever a server process dies.
THEOREM InductiveHolds == Spec => []Inductive
<1>1. Init => Inductive
  BY InitInductive
<1>2. Inductive /\ [Next]_vars => Inductive'
  BY NextInductive
<1> QED BY <1>1, <1>2, PTL DEF Spec

\* Every variable keeps its type.
THEOREM TypeCorrect == Spec => []TypeOK
<1>1. Inductive => TypeOK
  BY DEF Inductive
<1> QED BY <1>1, InductiveHolds, PTL

\* A handoff on a packet was presented under the session id that accepted it:
\* handoff_write_v4 compares under the lock, and dispatch_accept archives the
\* handoff before it writes the next accepted_session_id.
THEOREM HolderSigns == Spec => []VerdictOfHolder
<1>1. Inductive => VerdictOfHolder
  BY DEF Inductive
<1> QED BY <1>1, InductiveHolds, PTL

\* Status complete is only ever read with this cycle's handoff and closeout:
\* handoff_write_v4 writes the status last, and nobody else may move a packet
\* whose lock it holds.
THEOREM CompleteIsWhole == Spec => []CompleteHasVerdict
<1>1. Inductive => CompleteHasVerdict
  BY DEF Inductive
<1> QED BY <1>1, InductiveHolds, PTL

\* No accept cycle of a packet ever has two verdicts, the archived included.
THEOREM OneVerdict == Spec => []OneVerdictPerCycle
<1>1. Inductive => OneVerdictPerCycle
  BY DEF Inductive
<1> QED BY <1>1, InductiveHolds, PTL

LEMMA VerdictKept ==
  ASSUME Inductive, [Next]_vars, NEW p \in Packets
  PROVE  /\ handoff[p] # NoVerdict =>
              \/ handoff'[p] = handoff[p]
              \/ \E old \in history'[p] : old[1] = handoff[p]
         /\ \A old \in history[p] : \E new \in history'[p] : new[1] = old[1]
<1>1. CASE UNCHANGED vars
  BY <1>1 DEF vars
<1>2. ASSUME NEW s \in Servers, ServerStep(s)
      PROVE  Effect(s, p)
  BY <1>2, StepEffect DEF Inductive
<1>3. ASSUME NEW s \in Servers, \/ Untouched(p) \/ Sent(s, p) \/ Accepted(s, p) \/ Rendered(s, p)
                                \/ Completed(s, p) \/ Verified(s, p) \/ Cleared(s, p)
                                \/ Withdrawn(s, p) \/ Linked(s, p)
      PROVE  (handoff[p] # NoVerdict => handoff'[p] = handoff[p]) /\ history'[p] = history[p]
  BY <1>3 DEF Untouched, Sent, Accepted, Rendered, Completed, Verified, Cleared, Withdrawn,
              Linked, Still
<1>4. ASSUME NEW s \in Servers, Archived(s, p)
      PROVE  /\ handoff[p] # NoVerdict => \E old \in history'[p] : old[1] = handoff[p]
             /\ history[p] \subseteq history'[p]
  <2>1. history[p] \subseteq history'[p]
    BY <1>4 DEF Archived
  <2>2. handoff[p] # NoVerdict => <<handoff[p], NoVerdict>> \in history'[p]
    BY <1>4 DEF Archived
  <2>3. <<handoff[p], NoVerdict>>[1] = handoff[p]
    OBVIOUS
  <2> QED BY <2>1, <2>2, <2>3
<1>5. ASSUME NEW s \in Servers, ArchivedCloseout(s, p)
      PROVE  /\ handoff'[p] = handoff[p]
             /\ \A old \in history[p] : \E new \in history'[p] : new[1] = old[1]
  <2>1. PICK old \in history[p] :
          history'[p] = (history[p] \ {old}) \cup {<<old[1], closeout[p]>>}
    BY <1>5 DEF ArchivedCloseout
  <2>2. <<old[1], closeout[p]>>[1] = old[1]
    OBVIOUS
  <2> QED BY <1>5, <2>1, <2>2 DEF ArchivedCloseout
<1> QED BY <1>1, <1>2, <1>3, <1>4, <1>5 DEF Next, ServerStep, Effect

\* No verdict is overwritten or lost, whichever server dies between the two
\* renames of _archive_prior_handoff or between os.link and the status.
THEOREM NoVerdictLost == Spec => VerdictNeverLost
<1>1. Inductive /\ [Next]_vars =>
        \A p \in Packets :
          /\ handoff[p] # NoVerdict =>
               \/ handoff'[p] = handoff[p]
               \/ \E old \in history'[p] : old[1] = handoff[p]
          /\ \A old \in history[p] : \E new \in history'[p] : new[1] = old[1]
  BY VerdictKept
<1>2. Spec => [][Next]_vars
  BY DEF Spec
<1> QED BY <1>1, <1>2, InductiveHolds, PTL DEF VerdictNeverLost

-----------------------------------------------------------------------------
(* Where a step takes its call.                                            *)

\* The steps a call goes through, one after the other.
Edges ==
  {<<"send_meta", "send_assignment">>, <<"send_assignment", "send_status">>,
   <<"accept_lock", "accept_archive">>, <<"accept_lock", "accept_status">>,
   <<"accept_lock", "enter_reread">>, <<"accept_archive", "accept_status">>,
   <<"accept_archive", "accept_archive_closeout">>,
   <<"accept_archive_closeout", "accept_status">>, <<"accept_status", "accept_bind">>,
   <<"enter_read", "accept_lock">>, <<"enter_read", "enter_bind">>,
   <<"write_lock", "write_link">>, <<"write_link", "write_closeout">>,
   <<"write_closeout", "write_status">>, <<"verify_read", "verify_set">>,
   <<"clear_lock", "clear_bind">>, <<"withdraw_lock", "withdraw_set">>}

\* The call goes on along an edge, about the same packet and session.
Onward(s) == LET p == arg[s].packet IN
  /\ <<pc[s], pc'[s]>> \in Edges
  /\ arg'[s].packet = p
  /\ arg'[s].session = arg[s].session
  /\ arg'[s].caller = arg[s].caller
  /\ entrants' = entrants
  /\ pc[s] = "enter_read" => RunnerMatches(p, arg[s].session)
  /\ pc[s] = "verify_read" => handoff[p] # NoVerdict /\ handoff[p].clean
  /\ pc[s] = "withdraw_lock" => Cur(p) \in {"pending", "working"}

\* A call begins, about a packet.
Begun(s) == \E p \in Packets :
  /\ arg'[s].packet = p
  /\ UNCHANGED <<status, entrants>>
  /\ \/ pc'[s] \in {"send_meta", "enter_read"}
     \/ pc'[s] = "accept_lock" /\ RunnerMatches(p, arg'[s].session)
     \/ /\ pc'[s] = "write_lock"
        /\ arg'[s].caller \in Sessions /\ HomeOf[arg'[s].caller] = s
        /\ arg'[s].session \in {arg'[s].caller, Resolved(s, p)}
     \/ pc'[s] = "verify_read" /\ s \in Desks /\ status[p] = "complete"
     \/ pc'[s] \in {"clear_lock", "withdraw_lock"} /\ s \in Desks

\* The arguments a fresh call and its updates carry.
LEMMA CallerFacts ==
  /\ \A p \in Packets, x \in SessionIds : Call(p, x).caller = x
  /\ \A a \in Args :
       /\ \A x \in SessionIds : [a EXCEPT !.session = x].session = x
                             /\ [a EXCEPT !.session = x].caller = a.caller
       /\ \A st \in Statuses : [a EXCEPT !.seen = st].caller = a.caller
       /\ \A st \in Statuses, f \in BOOLEAN :
            [a EXCEPT !.forced = f, !.seen = st].caller = a.caller
  BY DEF Call, NoArg, Args

LEMMA StepMoves ==
  ASSUME TypeOK, CallInv, NEW s \in Servers, ServerStep(s)
  PROVE  \/ pc'[s] = "idle"
         \/ Onward(s)
         \/ Begun(s)
<1>0. CallType /\ DataType
  BY TypeParts
<1>a. /\ pc[s] # "idle" => arg[s].packet \in Packets
      /\ arg[s] \in Args
  BY <1>0, ArgParts DEF CallType
<1>1. CASE SendMkdir(s)
  <2>1. PICK p \in Packets : Begin(s, "send_meta", Call(p, NoSession)) /\ UNCHANGED <<status, entrants>>
    BY <1>1 DEF SendMkdir
  <2>2. pc'[s] = "send_meta" /\ arg'[s] = Call(p, NoSession)
    BY <1>0, <2>1, CallMoves, CallFacts, StepNames DEF SessionIds
  <2> QED BY <2>1, <2>2, CallFacts DEF Begun, SessionIds
<1>2. CASE Accept(s)
  <2>1. PICK p \in Packets, x \in SessionIds :
          Begin(s, "accept_lock", Call(p, x)) /\ RunnerMatches(p, x) /\ UNCHANGED <<status, entrants>>
    BY <1>2 DEF Accept, packetVars
  <2>2. pc'[s] = "accept_lock" /\ arg'[s] = Call(p, x)
    BY <1>0, <2>1, CallMoves, CallFacts, StepNames
  <2> QED BY <2>1, <2>2, CallFacts DEF Begun
<1>3. CASE Enter(s)
  <2>1. PICK x \in Sessions, p \in Packets, named \in BOOLEAN :
          /\ Begin(s, "enter_read", [Call(p, x) EXCEPT !.named = named, !.entering = TRUE])
          /\ UNCHANGED <<status, entrants>>
    BY <1>3 DEF Enter, packetVars
  <2> DEFINE call == [Call(p, x) EXCEPT !.named = named, !.entering = TRUE]
  <2>2. call \in Args /\ call.packet = p
    <3>1. Call(p, x) \in Args /\ Call(p, x).packet = p
      BY CallFacts DEF SessionIds
    <3> QED BY <3>1, CallUpdates
  <2>3. pc'[s] = "enter_read" /\ arg'[s] = call
    BY <1>0, <2>1, <2>2, CallMoves, StepNames
  <2> QED BY <2>1, <2>2, <2>3 DEF Begun
<1>4. CASE Write(s)
  <2>1. PICK p \in Packets, x \in Sessions, omit \in BOOLEAN :
          /\ HomeOf[x] = s /\ UNCHANGED <<status, entrants>>
          /\ Begin(s, "write_lock", [Call(p, x) EXCEPT !.session = IF omit THEN Resolved(s, p) ELSE x])
    BY <1>4 DEF Write, packetVars
  <2> DEFINE y == IF omit THEN Resolved(s, p) ELSE x
             call == [Call(p, x) EXCEPT !.session = y]
  <2>2. y \in SessionIds
    BY <1>0, ResolvedType DEF SessionIds, DataType
  <2>3. call \in Args /\ call.packet = p /\ call.caller = x /\ call.session = y
    <3>1. Call(p, x) \in Args /\ Call(p, x).packet = p /\ Call(p, x).caller = x
      BY CallFacts, CallerFacts DEF SessionIds
    <3> QED BY <2>2, <3>1, CallUpdates, CallerFacts
  <2>4. pc'[s] = "write_lock" /\ arg'[s] = call
    BY <1>0, <2>1, <2>3, CallMoves, StepNames
  <2> QED BY <2>1, <2>3, <2>4 DEF Begun
<1>5. CASE Verify(s) \/ Clear(s) \/ Withdraw(s)
  <2>1. PICK p \in Packets, x \in SessionIds, step \in {"verify_read", "clear_lock", "withdraw_lock"} :
          /\ s \in Desks /\ (step = "verify_read" => status[p] = "complete")
          /\ Begin(s, step, Call(p, x)) /\ UNCHANGED <<status, entrants>>
    BY <1>5 DEF Verify, Clear, Withdraw, SessionIds, packetVars
  <2>2. pc'[s] = step /\ arg'[s] = Call(p, x)
    BY <1>0, <2>1, CallMoves, CallFacts, StepNames
  <2> QED BY <2>1, <2>2, CallFacts DEF Begun
<1>6. CASE EnterBare(s) \/ CloseSession(s)
  BY <1>6 DEF EnterBare, CloseSession
<1>7. CASE Return(s)
  BY <1>0, <1>7, CallMoves
<1>8. ASSUME NEW step \in Steps, Go(s, step), <<pc[s], step>> \in Edges, entrants' = entrants,
             \/ arg' = arg
             \/ \E st \in Statuses : arg' = [arg EXCEPT ![s] = [arg[s] EXCEPT !.seen = st]]
             \/ \E st \in Statuses, f \in BOOLEAN :
                  arg' = [arg EXCEPT ![s] = [arg[s] EXCEPT !.forced = f, !.seen = st]],
             pc[s] = "enter_read" => RunnerMatches(arg[s].packet, arg[s].session),
             pc[s] = "verify_read" =>
               handoff[arg[s].packet] # NoVerdict /\ handoff[arg[s].packet].clean,
             pc[s] = "withdraw_lock" => Cur(arg[s].packet) \in {"pending", "working"}
      PROVE  Onward(s)
  <2>1. /\ arg'[s].packet = arg[s].packet
        /\ arg'[s].session = arg[s].session
        /\ arg'[s].caller = arg[s].caller
    <3>1. CASE arg' = arg
      BY <3>1
    <3>2. ASSUME NEW st \in Statuses, arg' = [arg EXCEPT ![s] = [arg[s] EXCEPT !.seen = st]]
          PROVE  /\ arg'[s].packet = arg[s].packet
                 /\ arg'[s].session = arg[s].session
                 /\ arg'[s].caller = arg[s].caller
      <4>1. arg'[s] = [arg[s] EXCEPT !.seen = st]
        BY <1>0, <3>2 DEF CallType
      <4> QED BY <1>a, <4>1 DEF Args
    <3>3. ASSUME NEW st \in Statuses, NEW f \in BOOLEAN,
                 arg' = [arg EXCEPT ![s] = [arg[s] EXCEPT !.forced = f, !.seen = st]]
          PROVE  /\ arg'[s].packet = arg[s].packet
                 /\ arg'[s].session = arg[s].session
                 /\ arg'[s].caller = arg[s].caller
      <4>1. arg'[s] = [arg[s] EXCEPT !.forced = f, !.seen = st]
        BY <1>0, <3>3 DEF CallType
      <4> QED BY <1>a, <4>1 DEF Args
    <3> QED BY <1>8, <3>1, <3>2, <3>3
  <2>2. pc'[s] = step
    BY <1>0, <1>8, CallMoves
  <2> QED BY <1>8, <2>1, <2>2 DEF Onward
<1>9. CASE SendMeta(s) \/ SendAssignment(s) \/ AcceptArchiveCloseout(s) \/ AcceptStatus(s)
           \/ WriteCloseout(s)
  BY <1>8, <1>9, StepNames
     DEF SendMeta, SendAssignment, AcceptArchiveCloseout, AcceptStatus, WriteCloseout, Edges
<1>10. CASE AcceptLock(s) \/ AcceptArchive(s)
  <2>1. \/ Return(s)
        \/ \E step \in {"enter_reread", "accept_archive", "accept_status",
                        "accept_archive_closeout"} :
             Go(s, step) /\ <<pc[s], step>> \in Edges /\ arg' = arg
    BY <1>10 DEF AcceptLock, AcceptArchive, Edges
  <2>2. entrants' = entrants /\ pc[s] \in {"accept_lock", "accept_archive"}
    BY <1>10 DEF AcceptLock, AcceptArchive
  <2> QED BY <1>7, <1>8, <2>1, <2>2, StepNames
<1>11. CASE WriteLock(s) \/ WriteLink(s) \/ ClearLock(s)
  <2>1. \/ Return(s)
        \/ \E step \in {"write_link", "write_closeout", "clear_bind"} :
             Go(s, step) /\ <<pc[s], step>> \in Edges /\ arg' = arg
    BY <1>11 DEF WriteLock, WriteLink, ClearLock, Edges
  <2>2. entrants' = entrants /\ pc[s] \in {"write_lock", "write_link", "clear_lock"}
    BY <1>11 DEF WriteLock, WriteLink, ClearLock
  <2> QED BY <1>7, <1>8, <2>1, <2>2, StepNames
<1>12. CASE VerifyRead(s)
  <2>1. \/ Return(s)
        \/ /\ handoff[arg[s].packet] # NoVerdict /\ handoff[arg[s].packet].clean
           /\ Go(s, "verify_set") /\ arg' = arg
    BY <1>12 DEF VerifyRead
  <2>2. entrants' = entrants /\ pc[s] = "verify_read"
    BY <1>12 DEF VerifyRead
  <2> QED BY <1>7, <1>8, <2>1, <2>2, StepNames DEF Edges
<1>13. CASE WithdrawLock(s)
  <2>1. CASE Return(s)
    BY <1>7, <2>1
  <2>2. CASE /\ Go(s, "withdraw_set") /\ Cur(arg[s].packet) \in {"pending", "working"}
             /\ \E st \in Statuses, f \in BOOLEAN :
                  arg' = [arg EXCEPT ![s] = [arg[s] EXCEPT !.forced = f, !.seen = st]]
    BY <1>8, <1>13, <2>2, StepNames DEF WithdrawLock, Edges
  <2>3. Cur(arg[s].packet) \in {"pending", "working"} => Cur(arg[s].packet) \in Statuses
    BY StatusNames
  <2> QED BY <1>0, <1>13, <2>1, <2>2, <2>3 DEF WithdrawLock, CallType
<1>14. CASE EnterRead(s)
  <2>1. arg[s].packet \in Packets /\ pc[s] = "enter_read"
    BY <1>a, <1>14 DEF EnterRead
  <2>2. Cur(arg[s].packet) \in Statuses
    BY <1>0, <2>1, StatusNames DEF Cur, DataType
  <2>3. CASE Return(s)
    BY <1>7, <2>3
  <2>4. CASE /\ Go(s, "accept_lock") /\ UNCHANGED <<arg, entrants>>
             /\ RunnerMatches(arg[s].packet, arg[s].session)
    BY <1>8, <2>1, <2>4, StepNames DEF Edges
  <2>5. CASE /\ Go(s, "enter_bind") /\ arg' = [arg EXCEPT ![s].seen = Cur(arg[s].packet)]
             /\ RunnerMatches(arg[s].packet, arg[s].session) /\ UNCHANGED entrants
    <3>1. arg' = [arg EXCEPT ![s] = [arg[s] EXCEPT !.seen = Cur(arg[s].packet)]]
      BY <1>0, <2>5 DEF CallType
    <3> QED BY <1>8, <2>1, <2>2, <2>5, <3>1, StepNames DEF Edges
  <2> QED BY <1>14, <2>3, <2>4, <2>5 DEF EnterRead
<1>15. CASE \/ SendStatus(s) \/ AcceptBind(s) \/ EnterReread(s) \/ EnterBind(s) \/ WriteStatus(s)
            \/ VerifySet(s) \/ ClearBind(s) \/ WithdrawSet(s) \/ Restart(s)
  BY <1>7, <1>15 DEF SendStatus, AcceptBind, EnterReread, EnterBind, WriteStatus, VerifySet,
                     ClearBind, WithdrawSet, Restart
<1> QED BY <1>1, <1>2, <1>3, <1>4, <1>5, <1>6, <1>9, <1>10, <1>11, <1>12, <1>13, <1>14, <1>15
        DEF ServerStep, Start, Continue

-----------------------------------------------------------------------------
(* What a step does to the session records and to the memory of a server.  *)

\* A record is bound to the packet only by the two binding steps of a call.
LEMMA RecordEffect ==
  ASSUME TypeOK, CallInv, NEW s \in Servers, ServerStep(s), NEW x \in Sessions
  PROVE  \/ record'[x].packet = record[x].packet
         \/ record'[x].packet = NoPacket
         \/ /\ pc[s] \in {"accept_bind", "enter_bind"}
            /\ x = arg[s].session /\ record'[x].packet = arg[s].packet
<1>0. record \in [Sessions -> Records] /\ arg[s].session \in SessionIds
  BY TypeParts, ArgParts DEF DataType
<1>1. ASSUME NEW y \in SessionIds, NEW q, NEW st, Bind(y, q, st)
      PROVE  \/ record'[x] = record[x]
             \/ y = x /\ record'[x].packet = q
  BY <1>0, <1>1 DEF Bind, SessionIds
<1>2. CASE EnterBare(s) \/ CloseSession(s)
  <2>1. PICK y \in Sessions, st \in {"idle", "closed"} : Bind(y, NoPacket, st)
    BY <1>2 DEF EnterBare, CloseSession
  <2> QED BY <1>1, <2>1 DEF SessionIds
<1>3. CASE ClearBind(s)
  BY <1>0, <1>1, <1>3 DEF ClearBind
<1>4. CASE AcceptBind(s) \/ EnterBind(s)
  BY <1>0, <1>1, <1>4 DEF AcceptBind, EnterBind
<1>5. CASE ~(\/ EnterBare(s) \/ CloseSession(s) \/ ClearBind(s) \/ AcceptBind(s) \/ EnterBind(s))
  <2>1. CASE Start(s) \/ Restart(s)
    BY <1>5, <2>1 DEF Start, Restart, SendMkdir, Accept, Enter, Write, Verify, Clear, Withdraw
  <2>2. CASE Continue(s)
    BY <1>5, <2>2 DEF Continue, SendMeta, SendAssignment, SendStatus, AcceptLock, AcceptArchive,
                      AcceptArchiveCloseout, AcceptStatus, EnterRead, EnterReread, WriteLock,
                      WriteLink, WriteCloseout, WriteStatus, VerifyRead, VerifySet, ClearLock,
                      WithdrawLock, WithdrawSet
  <2> QED BY <2>1, <2>2 DEF ServerStep
<1> QED BY <1>2, <1>3, <1>4, <1>5

\* A server remembers entrants of its own, and forgets them only by dying.
LEMMA MemoryEffect ==
  ASSUME TypeOK, CallInv, NEW s \in Servers, ServerStep(s), NEW t \in Servers, NEW p \in Packets
  PROVE  /\ t # s => entrants'[t] = entrants[t]
         /\ \/ entrants'[t][p] = entrants[t][p]
            \/ entrants'[t][p] = {}
            \/ \E x \in Sessions : entrants'[t][p] = entrants[t][p] \cup {x}
<1>0. /\ entrants \in [Servers -> [Packets -> SUBSET Sessions]]
      /\ arg[s].entering => arg[s].session \in Sessions
      /\ pc[s] # "idle" => arg[s].packet \in Packets
  BY TypeParts, ArgParts DEF DataType
<1>1. CASE Restart(s)
  BY <1>0, <1>1 DEF Restart
<1>2. CASE UNCHANGED entrants
  BY <1>2
<1>3. CASE Remember(s) /\ pc[s] # "idle"
  BY <1>0, <1>3 DEF Remember
<1>4. CASE AcceptBind(s) \/ EnterRead(s) \/ EnterReread(s) \/ EnterBind(s)
  <2>1. pc[s] # "idle" /\ (Remember(s) \/ UNCHANGED entrants)
    BY <1>4 DEF AcceptBind, EnterRead, EnterReread, EnterBind
  <2> QED BY <1>2, <1>3, <2>1
<1>5. CASE ~(\/ AcceptBind(s) \/ EnterRead(s) \/ EnterReread(s) \/ EnterBind(s) \/ Restart(s))
  <2>1. CASE Start(s)
    BY <1>2, <2>1 DEF Start, SendMkdir, Accept, Enter, EnterBare, CloseSession, Write, Verify,
                      Clear, Withdraw
  <2>2. CASE Continue(s)
    BY <1>2, <1>5, <2>2
       DEF Continue, SendMeta, SendAssignment, SendStatus, AcceptLock, AcceptArchive,
           AcceptArchiveCloseout, AcceptStatus, WriteLock, WriteLink, WriteCloseout, WriteStatus,
           VerifyRead, VerifySet, ClearLock, ClearBind, WithdrawLock, WithdrawSet
  <2> QED BY <1>5, <2>1, <2>2 DEF ServerStep
<1> QED BY <1>1, <1>4, <1>5

LEMMA RunnerStays ==
  ASSUME NEW s \in Servers, ServerStep(s)
  PROVE  runner' = runner
<1>1. CASE Start(s) \/ Restart(s)
  BY <1>1 DEF Start, Restart, SendMkdir, Accept, Enter, EnterBare, CloseSession, Write, Verify,
              Clear, Withdraw, packetVars
<1>2. CASE Continue(s)
  BY <1>2 DEF Continue, SendMeta, SendAssignment, SendStatus, AcceptLock, AcceptArchive,
              AcceptArchiveCloseout, AcceptStatus, AcceptBind, EnterRead, EnterReread, EnterBind,
              WriteLock, WriteLink, WriteCloseout, WriteStatus, VerifyRead, VerifySet, ClearLock,
              ClearBind, WithdrawLock, WithdrawSet, packetVars
<1> QED BY <1>1, <1>2 DEF ServerStep

-----------------------------------------------------------------------------
(* The runner.                                                             *)

\* From its check on, a call that will accept or bind is of the packet's runner.
Vetted == {"accept_lock", "accept_archive", "accept_archive_closeout", "accept_status",
           "accept_bind", "enter_bind"}
CallRunner == \A s \in Servers : pc[s] \in Vetted => RunnerMatches(arg[s].packet, arg[s].session)
RunnerInv == CallRunner /\ RunnerRespected

LEMMA RunnerInvPreserved ==
  ASSUME Inductive, RunnerInv, NEW s \in Servers, ServerStep(s)
  PROVE  RunnerInv'
<1>0. /\ TypeOK /\ CallInv /\ CallType /\ DataType
      /\ runner' = runner
  BY TypeParts, RunnerStays DEF Inductive
<1>1. CallRunner'
  <2> SUFFICES ASSUME NEW t \in Servers, pc'[t] \in Vetted
               PROVE  RunnerMatches(arg[t].packet, arg[t].session)'
    BY DEF CallRunner, RunnerMatches
  <2>1. CASE t # s
    BY <1>0, <2>1, OthersWait DEF RunnerInv, CallRunner, RunnerMatches
  <2>2. CASE t = s /\ Begun(s)
    BY <1>0, <2>2 DEF Begun, Vetted, RunnerMatches
  <2>3. CASE t = s /\ Onward(s)
    <3>1. pc[s] = "enter_read" \/ pc[s] \in Vetted
      BY <2>3 DEF Onward, Edges, Vetted
    <3> QED BY <1>0, <2>3, <3>1 DEF Onward, RunnerInv, CallRunner, RunnerMatches
  <2>4. "idle" \notin Vetted
    BY DEF Vetted
  <2> QED BY <1>0, <2>1, <2>2, <2>3, <2>4, StepMoves
<1>2. RunnerRespected'
  <2> SUFFICES ASSUME NEW p \in Packets, NEW x \in Sessions,
                      accepted'[p] = x \/ record'[x].packet = p
               PROVE  RunnerOf[x] = runner[p]
    BY <1>0 DEF RunnerRespected
  <2>0. accepted[p] = x \/ record[x].packet = p => RunnerOf[x] = runner[p]
    BY DEF RunnerInv, RunnerRespected
  <2>1. CASE accepted'[p] = x
    <3>1. \/ accepted'[p] = accepted[p]
          \/ pc[s] = "accept_status" /\ arg[s].packet = p /\ accepted'[p] = arg[s].session
      BY <1>0, StepEffect
         DEF Effect, Untouched, Still, Sent, Archived, ArchivedCloseout, Accepted, Linked,
             Rendered, Completed, Verified, Cleared, Withdrawn
    <3>2. pc[s] = "accept_status" => RunnerMatches(arg[s].packet, arg[s].session)
      BY DEF RunnerInv, CallRunner, Vetted
    <3> QED BY <2>0, <2>1, <3>1, <3>2 DEF RunnerMatches
  <2>2. CASE record'[x].packet = p
    <3>1. pc[s] \in {"accept_bind", "enter_bind"} => RunnerMatches(arg[s].packet, arg[s].session)
      BY DEF RunnerInv, CallRunner, Vetted
    <3> QED BY <1>0, <2>0, <2>2, <3>1, RecordEffect, NamesAssumption DEF RunnerMatches
  <2> QED BY <2>1, <2>2
<1> QED BY <1>1, <1>2 DEF RunnerInv

\* No session of another runner ever accepts a packet or is bound to it: the
\* runner is checked before the lock is taken and is signed into the packet.
THEOREM RunnerKept == Spec => []RunnerRespected
<1>1. Init => RunnerInv
  BY NamesAssumption
     DEF Init, RunnerInv, CallRunner, Vetted, RunnerRespected
<1>2. Inductive /\ RunnerInv /\ [Next]_vars => RunnerInv'
  <2>1. ASSUME Inductive, RunnerInv, Next PROVE RunnerInv'
    BY <2>1, RunnerInvPreserved DEF Next, ServerStep
  <2>2. ASSUME RunnerInv, UNCHANGED vars PROVE RunnerInv'
    BY <2>2 DEF vars, RunnerInv, CallRunner, RunnerRespected, RunnerMatches
  <2> QED BY <2>1, <2>2
<1>3. RunnerInv => RunnerRespected
  BY DEF RunnerInv
<1> QED BY <1>1, <1>2, <1>3, InductiveHolds, PTL DEF Spec

-----------------------------------------------------------------------------
(* A working packet can be closed.                                         *)

\* While no server has died, a handoff on a working packet is one that a
\* writer is about to complete, under the lock it holds.
PendingWrite == restarts = 0 => \A p \in Packets :
  status[p] = "working" /\ handoff[p] # NoVerdict =>
    \E s \in Servers : pc[s] \in {"write_closeout", "write_status"} /\ arg[s].packet = p

\* A writer goes straight on to the status, unless its server dies.
LEMMA WriterGoesOn ==
  ASSUME TypeOK, CallInv, NEW s \in Servers, ServerStep(s)
  PROVE  /\ restarts' = 0 => restarts = 0
         /\ restarts' = 0 /\ pc[s] = "write_closeout" =>
              pc'[s] = "write_status" /\ arg'[s] = arg[s]
         /\ restarts' = 0 /\ pc[s] = "write_status" => status'[arg[s].packet] # "working"
         /\ restarts' = 0 /\ pc[s] = "write_link" /\ handoff' # handoff =>
              pc'[s] = "write_closeout" /\ arg'[s] = arg[s]
<1>0. /\ CallType /\ DataType /\ restarts \in Nat
      /\ pc[s] # "idle" => arg[s].packet \in Packets
  BY TypeParts, ArgParts DEF DataType
<1>1. CASE Start(s)
  BY <1>1 DEF Start, SendMkdir, Accept, Enter, EnterBare, CloseSession, Write, Verify, Clear,
              Withdraw, Begin
<1>2. CASE Restart(s)
  BY <1>0, <1>2 DEF Restart
<1>3. CASE WriteLink(s)
  BY <1>0, <1>3, CallMoves, StepNames DEF WriteLink
<1>4. CASE WriteCloseout(s)
  BY <1>0, <1>4, CallMoves, StepNames DEF WriteCloseout
<1>5. CASE WriteStatus(s)
  BY <1>0, <1>5 DEF WriteStatus, SetStatus, DataType
<1>6. CASE Continue(s) /\ ~(WriteLink(s) \/ WriteCloseout(s) \/ WriteStatus(s))
  BY <1>6 DEF Continue, SendMeta, SendAssignment, SendStatus, AcceptLock, AcceptArchive,
              AcceptArchiveCloseout, AcceptStatus, AcceptBind, EnterRead, EnterReread, EnterBind,
              WriteLock, VerifyRead, VerifySet, ClearLock, ClearBind, WithdrawLock, WithdrawSet
<1> QED BY <1>1, <1>2, <1>3, <1>4, <1>5, <1>6 DEF ServerStep

LEMMA PendingWritePreserved ==
  ASSUME Inductive, PendingWrite, NEW s \in Servers, ServerStep(s)
  PROVE  PendingWrite'
<1> SUFFICES ASSUME restarts' = 0, NEW p \in Packets,
                    status'[p] = "working", handoff'[p] # NoVerdict
             PROVE  \E t \in Servers : /\ pc'[t] \in {"write_closeout", "write_status"}
                                       /\ arg'[t].packet = p
  BY DEF PendingWrite
<1>0. /\ TypeOK /\ CallInv /\ CallType /\ DataType
      /\ restarts = 0
  BY TypeParts, WriterGoesOn DEF Inductive
<1>1. Effect(s, p)
  BY <1>0, StepEffect
<1>2. CASE status[p] = "working" /\ handoff[p] # NoVerdict
  <2>1. PICK t \in Servers : pc[t] \in {"write_closeout", "write_status"} /\ arg[t].packet = p
    BY <1>0, <1>2 DEF PendingWrite
  <2>2. CASE t # s
    BY <1>0, <2>1, <2>2, OthersWait
  <2>3. CASE t = s
    BY <1>0, <2>1, <2>3, WriterGoesOn
  <2> QED BY <2>2, <2>3
<1>3. CASE ~(status[p] = "working" /\ handoff[p] # NoVerdict)
  <2>1. CASE Linked(s, p) /\ arg[s].packet = p
    BY <1>0, <2>1, WriterGoesOn DEF Linked
  <2>2. CASE Untouched(p)
    BY <1>3, <2>2 DEF Untouched, Still
  <2>3. ASSUME arg[s].packet = p,
               \/ Sent(s, p) \/ Archived(s, p) \/ ArchivedCloseout(s, p) \/ Accepted(s, p)
               \/ Rendered(s, p)
        PROVE  FALSE
    BY <1>3, <2>3, ActorFacts
       DEF Sent, Archived, ArchivedCloseout, Accepted, Rendered, Still
  <2>4. CASE Completed(s, p) \/ Verified(s, p) \/ Cleared(s, p) \/ Withdrawn(s, p)
    BY <1>3, <2>4 DEF Completed, Verified, Cleared, Withdrawn, Still, Becomes
  <2> QED BY <1>1, <2>1, <2>2, <2>3, <2>4 DEF Effect
<1> QED BY <1>2, <1>3

\* As long as no server has died, a working packet whose lock is free has no
\* handoff, so the session that accepted it can still close it: the two files
\* that handoff_write_v4 writes one after the other are never seen apart.
THEOREM WorkingStaysWritable == Spec => []WorkingIsWritable
<1>1. Init => PendingWrite
  BY DEF Init, PendingWrite
<1>2. Inductive /\ PendingWrite /\ [Next]_vars => PendingWrite'
  <2>1. ASSUME Inductive, PendingWrite, Next PROVE PendingWrite'
    BY <2>1, PendingWritePreserved DEF Next, ServerStep
  <2>2. ASSUME PendingWrite, UNCHANGED vars PROVE PendingWrite'
    BY <2>2 DEF vars, PendingWrite
  <2> QED BY <2>1, <2>2
<1>3. Inductive /\ PendingWrite => WorkingIsWritable
  <2> SUFFICES ASSUME Inductive, PendingWrite, restarts = 0, NEW p \in Packets,
                      status[p] = "working", lock[p] = NoServer, handoff[p] # NoVerdict
               PROVE  FALSE
    BY DEF WorkingIsWritable
  <2>1. PICK s \in Servers : pc[s] \in {"write_closeout", "write_status"} /\ arg[s].packet = p
    BY DEF PendingWrite
  <2>2. lock[p] = s
    BY <2>1 DEF Inductive, CallInv, LockedSteps
  <2> QED BY <2>2, ServersAssumption
<1> QED BY <1>1, <1>2, <1>3, InductiveHolds, PTL DEF Spec

-----------------------------------------------------------------------------
(* Whoever is on record as an entrant closes only its own packet.          *)

\* A writer's call carries its own session id or the one it resolved to, and
\* the entrants it resolved from are the same until it has written.
WriterInv == \A s \in Servers : pc[s] \in {"write_lock", "write_link"} =>
  /\ arg[s].caller \in Sessions /\ HomeOf[arg[s].caller] = s
  /\ arg[s].session \in {arg[s].caller, Resolved(s, arg[s].packet)}
EntrantInv == WriterInv /\ \A s \in Servers, p \in Packets : IsFiniteSet(entrants[s][p])

LEMMA EntrantInvPreserved ==
  ASSUME Inductive, EntrantInv, NEW s \in Servers, ServerStep(s)
  PROVE  EntrantInv'
<1>0. TypeOK /\ CallInv /\ CallType /\ DataType
  BY TypeParts DEF Inductive
<1>1. ASSUME NEW t \in Servers, NEW p \in Packets
      PROVE  IsFiniteSet(entrants'[t][p])
  <2>1. IsFiniteSet(entrants[t][p])
    BY DEF EntrantInv
  <2>2. IsFiniteSet({}) /\ \A x \in Sessions : IsFiniteSet(entrants[t][p] \cup {x})
    BY <2>1, FS_EmptySet, FS_AddElement
  <2>3. \/ entrants'[t][p] \in {entrants[t][p], {}}
        \/ \E x \in Sessions : entrants'[t][p] = entrants[t][p] \cup {x}
    BY <1>0, MemoryEffect
  <2>4. CASE entrants'[t][p] = entrants[t][p]
    BY <2>1, <2>4, Zenon
  <2>5. CASE entrants'[t][p] = {}
    BY <2>2, <2>5, Zenon
  <2>6. ASSUME NEW x \in Sessions, entrants'[t][p] = entrants[t][p] \cup {x}
        PROVE  IsFiniteSet(entrants'[t][p])
    BY <2>2, <2>6, Zenon
  <2> QED BY <2>3, <2>4, <2>5, <2>6
<1>2. ASSUME NEW t \in Servers, pc'[t] \in {"write_lock", "write_link"}
      PROVE  /\ arg'[t].caller \in Sessions /\ HomeOf[arg'[t].caller] = t
             /\ arg'[t].session \in {arg'[t].caller, Resolved(t, arg[t].packet)'}
  <2>1. CASE t # s
    <3>1. pc'[t] = pc[t] /\ arg'[t] = arg[t]
      BY <1>0, <2>1, OthersWait
    <3>2. arg[t].packet \in Packets
      BY <1>0, <1>2, <3>1, ArgParts
    <3>3. entrants'[t] = entrants[t]
      BY <1>0, <2>1, <3>2, MemoryEffect
    <3> QED BY <1>2, <3>1, <3>3 DEF EntrantInv, WriterInv, Resolved
  <2>2. CASE t = s /\ Begun(s)
    BY <1>2, <2>2 DEF Begun, Resolved
  <2>3. CASE t = s /\ Onward(s)
    <3>1. pc[s] = "write_lock"
      BY <1>2, <2>3 DEF Onward, Edges
    <3> QED BY <2>3, <3>1 DEF Onward, EntrantInv, WriterInv, Resolved
  <2> QED BY <1>0, <1>2, <2>1, <2>2, <2>3, StepMoves
<1> QED BY <1>1, <1>2 DEF EntrantInv, WriterInv

LEMMA EntrantCloses ==
  ASSUME Inductive, EntrantInv, [Next]_vars, NEW p \in Packets,
         handoff[p] = NoVerdict, handoff'[p] # NoVerdict,
         handoff'[p].by \in entrants[HomeOf[handoff'[p].by]][p]
  PROVE  accepted[p] \in {NoSession, handoff'[p].by}
<1> DEFINE x == handoff'[p].by
<1>1. PICK s \in Servers : ServerStep(s)
  BY DEF Next, ServerStep, vars
<1>2. Effect(s, p)
  BY <1>1, StepEffect DEF Inductive
<1>3. /\ pc[s] = "write_link" /\ arg[s].packet = p
      /\ x = arg[s].caller
  BY <1>2 DEF Effect, Untouched, Still, Sent, Archived, ArchivedCloseout, Accepted, Linked,
              Rendered, Completed, Verified, Cleared, Withdrawn
<1>4. /\ x \in Sessions /\ HomeOf[x] = s
      /\ arg[s].session \in {x, Resolved(s, p)}
      /\ IsFiniteSet(entrants[s][p])
  BY <1>3 DEF EntrantInv, WriterInv
<1>5. accepted[p] \in {NoSession, arg[s].session}
  BY <1>3, ActorFacts
<1>6. CASE arg[s].session = x
  BY <1>5, <1>6
<1>7. CASE arg[s].session = Resolved(s, p) /\ Cardinality(entrants[s][p]) = 1
  <2>1. PICK y : entrants[s][p] = {y}
    BY <1>4, <1>7, FS_Singleton
  <2>2. x = y /\ Resolved(s, p) = y
    BY <1>4, <1>7, <2>1 DEF Resolved
  <2> QED BY <1>5, <1>7, <2>2
<1>8. CASE arg[s].session = Resolved(s, p) /\ Cardinality(entrants[s][p]) # 1
  BY <1>5, <1>8 DEF Resolved
<1> QED BY <1>4, <1>6, <1>7, <1>8

\* A session its server remembers as an entrant of a packet writes the handoff
\* only if it holds the packet (or nobody does): the only remembered entrant is
\* itself, so an omitted session id is not resolved to somebody else's.
THEOREM EntrantsCloseTheirOwn == Spec => EntrantClosesOwn
<1>1. Init => EntrantInv
  BY FS_EmptySet DEF Init, EntrantInv, WriterInv
<1>2. Inductive /\ EntrantInv /\ [Next]_vars => EntrantInv'
  <2>1. ASSUME Inductive, EntrantInv, Next PROVE EntrantInv'
    BY <2>1, EntrantInvPreserved DEF Next, ServerStep
  <2>2. ASSUME EntrantInv, UNCHANGED vars PROVE EntrantInv'
    BY <2>2 DEF vars, EntrantInv, WriterInv, Resolved
  <2> QED BY <2>1, <2>2
<1>3. Inductive /\ EntrantInv /\ [Next]_vars =>
        \A p \in Packets : handoff[p] = NoVerdict /\ handoff'[p] # NoVerdict =>
          LET x == handoff'[p].by IN
            x \in entrants[HomeOf[x]][p] => accepted[p] \in {NoSession, x}
  BY EntrantCloses
<1>4. Spec => [][Next]_vars
  BY DEF Spec
<1> QED BY <1>1, <1>2, <1>3, <1>4, InductiveHolds, PTL DEF Spec, EntrantClosesOwn

-----------------------------------------------------------------------------
(* One orchestrator: the life cycle of a packet.                           *)

\* The orchestrator's tools are called through one server (a stdio child per
\* orchestrator session; DispatchStaleVerify shows what two do).
OneDesk == \A s, t \in Desks : s = t

\* What the orchestrator's call read is still so when it writes: nobody else
\* moves a packet that is complete, and withdraw holds the lock.
DeskGood(s) == LET p == arg[s].packet IN
  /\ pc[s] \in {"verify_read", "verify_set"} => s \in Desks /\ status[p] = "complete"
  /\ pc[s] = "verify_set" => handoff[p] # NoVerdict /\ handoff[p].clean
  /\ pc[s] \in {"clear_lock", "withdraw_lock", "withdraw_set"} => s \in Desks
  /\ pc[s] = "withdraw_set" => status[p] \in {"none", "pending", "working"}
DeskInv == \A s \in Servers : DeskGood(s)

\* With one desk, a complete packet stays as it is while that desk is busy
\* with something else.
LEMMA CompleteKept ==
  ASSUME OneDesk, Inductive, DeskInv, NEW s \in Servers, ServerStep(s), NEW p \in Packets,
         status[p] = "complete", NEW t \in Desks, t # s
  PROVE  Untouched(p) \/ (arg[s].packet = p /\ Rendered(s, p))
<1>1. Effect(s, p)
  BY StepEffect DEF Inductive
<1>2. ASSUME arg[s].packet = p,
             \/ Sent(s, p) \/ Archived(s, p) \/ ArchivedCloseout(s, p) \/ Accepted(s, p)
             \/ Linked(s, p) \/ Completed(s, p)
      PROVE  FALSE
  BY <1>2, ActorFacts DEF Sent, Archived, ArchivedCloseout, Accepted, Linked, Completed
<1>3. ASSUME arg[s].packet = p, Verified(s, p) \/ Cleared(s, p) \/ Withdrawn(s, p)
      PROVE  FALSE
  BY <1>3 DEF Verified, Cleared, Withdrawn, DeskInv, DeskGood, OneDesk
<1> QED BY <1>1, <1>2, <1>3 DEF Effect

LEMMA DeskInvPreserved ==
  ASSUME OneDesk, Inductive, DeskInv, NEW s \in Servers, ServerStep(s)
  PROVE  DeskInv'
<1>0. /\ TypeOK /\ CallInv /\ CallType /\ DataType
  BY TypeParts DEF Inductive
\* The desk waits while another server takes a step.
<1>1. ASSUME NEW t \in Servers, t # s
      PROVE  DeskGood(t)'
  <2> DEFINE p == arg[t].packet
  <2>1. pc'[t] = pc[t] /\ arg'[t] = arg[t] /\ DeskGood(t)
    BY <1>0, <1>1, OthersWait DEF DeskInv
  <2>2. CASE pc[t] \in {"verify_read", "verify_set"}
    <3>1. t \in Desks /\ status[p] = "complete" /\ p \in Packets
      BY <1>0, <2>1, <2>2, ArgParts DEF DeskGood
    <3>2. status'[p] = status[p] /\ handoff'[p] = handoff[p]
      BY <1>1, <3>1, CompleteKept DEF Untouched, Still, Rendered
    <3> QED BY <2>1, <2>2, <3>2 DEF DeskGood
  <2>3. CASE pc[t] = "withdraw_set"
    <3>1. p \in Packets /\ lock[p] = t
      BY <1>0, <2>3, ArgParts DEF CallInv, LockedSteps
    <3>2. status'[p] = status[p] \/ (status[p] = "none" /\ status'[p] = "pending")
      BY <1>1, <3>1, LockedOut
    <3> QED BY <2>1, <2>3, <3>2 DEF DeskGood
  <2> QED BY <2>1, <2>2, <2>3 DEF DeskGood
\* The desk's own call: nothing it moves through writes the packet.
<1>2. DeskGood(s)'
  <2> DEFINE p == arg[s].packet
  <2>0. DeskGood(s)
    BY DEF DeskInv
  <2>1. CASE pc'[s] = "idle"
    BY <2>1 DEF DeskGood
  <2>2. CASE Begun(s)
    <3>1. PICK q \in Packets :
            /\ arg'[s].packet = q /\ status' = status
            /\ \/ pc'[s] \in {"send_meta", "enter_read", "accept_lock", "write_lock"}
               \/ pc'[s] = "verify_read" /\ s \in Desks /\ status[q] = "complete"
               \/ pc'[s] \in {"clear_lock", "withdraw_lock"} /\ s \in Desks
      BY <2>2 DEF Begun
    <3> QED BY <3>1 DEF DeskGood
  <2>3. CASE Onward(s)
    <3>1. CASE pc[s] = "verify_read" \/ pc[s] = "withdraw_lock"
      <4>1. p \in Packets /\ Effect(s, p)
        BY <1>0, <3>1, ArgParts, StepEffect
      <4>2. Untouched(p)
        BY <3>1, <4>1 DEF Effect, Sent, Archived, ArchivedCloseout, Accepted, Linked,
                          Rendered, Completed, Verified, Cleared, Withdrawn
      <4>3. CASE pc[s] = "verify_read"
        <5>1. pc'[s] = "verify_set" /\ arg'[s].packet = p
          BY <2>3, <4>3 DEF Onward, Edges
        <5> QED BY <2>0, <2>3, <4>2, <4>3, <5>1 DEF Onward, DeskGood, Untouched, Still
      <4>4. CASE pc[s] = "withdraw_lock"
        <5>1. pc'[s] = "withdraw_set" /\ arg'[s].packet = p
          BY <2>3, <4>4 DEF Onward, Edges
        <5>2. status[p] \in {"none", "pending", "working"}
          BY <2>3, <4>4 DEF Onward, Cur
        <5> QED BY <2>0, <4>2, <4>4, <5>1, <5>2 DEF DeskGood, Untouched
      <4> QED BY <3>1, <4>3, <4>4
    <3>2. CASE ~(pc[s] = "verify_read" \/ pc[s] = "withdraw_lock")
      <4>1. pc'[s] \notin {"verify_read", "verify_set", "clear_lock", "withdraw_lock",
                           "withdraw_set"}
        BY <2>3, <3>2 DEF Onward, Edges
      <4> QED BY <4>1 DEF DeskGood
    <3> QED BY <3>1, <3>2
  <2> QED BY <1>0, <2>1, <2>2, <2>3, StepMoves
<1> QED BY <1>1, <1>2 DEF DeskInv

LEMMA InitDesk == Init => DeskInv
  BY DEF Init, DeskInv, DeskGood

LEMMA NextDesk == OneDesk /\ Inductive /\ DeskInv /\ [Next]_vars => DeskInv'
<1>1. ASSUME OneDesk, Inductive, DeskInv, Next PROVE DeskInv'
  BY <1>1, DeskInvPreserved DEF Next, ServerStep
<1>2. ASSUME DeskInv, UNCHANGED vars PROVE DeskInv'
  BY <1>2 DEF vars, DeskInv, DeskGood
<1> QED BY <1>1, <1>2

\* With one desk, withdrawn is terminal: verify_handoff, which decides before
\* it takes the lock, cannot find the packet withdrawn in between.
THEOREM WithdrawnStays == OneDesk => (Spec => WithdrawnIsTerminal)
<1> SUFFICES ASSUME OneDesk PROVE Spec => WithdrawnIsTerminal
  OBVIOUS
<1>1. Inductive /\ DeskInv /\ [Next]_vars =>
        \A p \in Packets : status[p] = "withdrawn" => status'[p] = "withdrawn"
  <2> SUFFICES ASSUME Inductive, DeskInv, [Next]_vars, NEW p \in Packets,
                      status[p] = "withdrawn"
               PROVE  status'[p] = "withdrawn"
    OBVIOUS
  <2>1. CASE UNCHANGED vars
    BY <2>1 DEF vars
  <2>2. ASSUME NEW s \in Servers, ServerStep(s)
        PROVE  status'[p] = "withdrawn"
    <3>1. Effect(s, p)
      BY <2>2, StepEffect DEF Inductive
    <3>2. ASSUME arg[s].packet = p,
                 \/ Sent(s, p) \/ Archived(s, p) \/ ArchivedCloseout(s, p) \/ Accepted(s, p)
                 \/ Linked(s, p) \/ Completed(s, p)
          PROVE  FALSE
      BY <3>2, ActorFacts DEF Sent, Archived, ArchivedCloseout, Accepted, Linked, Completed
    <3>3. ASSUME arg[s].packet = p, Verified(s, p) \/ Cleared(s, p)
          PROVE  FALSE
      BY <3>3 DEF Verified, Cleared, DeskInv, DeskGood
    <3>4. CASE Untouched(p) \/ Rendered(s, p) \/ Withdrawn(s, p)
      BY <3>4 DEF Untouched, Rendered, Withdrawn, Becomes
    <3> QED BY <3>1, <3>2, <3>3, <3>4 DEF Effect
  <2> QED BY <2>1, <2>2 DEF Next, ServerStep
<1>2. Spec => [][Next]_vars
  BY DEF Spec
<1>3. Init => DeskInv
  BY InitDesk
<1>4. Inductive /\ DeskInv /\ [Next]_vars => DeskInv'
  BY NextDesk
<1> QED BY <1>1, <1>2, <1>3, <1>4, InductiveHolds, PTL DEF Spec, WithdrawnIsTerminal

-----------------------------------------------------------------------------
(* The refinement.                                                         *)

\* What a reader sees of one packet.
Seen(p) == <<Phase[p], accepted[p], Delivered[p]>>
Shown(p) == [as |-> handoff[p].as, clean |-> handoff[p].clean]

LEMMA SeenOf ==
  ASSUME NEW p \in Packets
  PROVE  /\ Phase[p] = IF status[p] = "none" THEN "unsent" ELSE status[p]
         /\ Delivered[p] = IF status[p] \in {"complete", "verified"} THEN Shown(p) ELSE NoVerdict
         /\ Phase'[p] = IF status'[p] = "none" THEN "unsent" ELSE status'[p]
         /\ Delivered'[p] = IF status'[p] \in {"complete", "verified"} THEN Shown(p)'
                            ELSE NoVerdict
  BY DEF Phase, Delivered, Shown

LEMMA ShownType ==
  ASSUME DataType, NEW p \in Packets, handoff[p] # NoVerdict
  PROVE  Shown(p) \in Lifecycle!Verdicts /\ Shown(p) # NoVerdict
<1>1. handoff[p] \in Verdicts
  BY DEF DataType
<1>2. Shown(p) \in [as : SessionIds, clean : BOOLEAN]
  BY <1>1 DEF Verdicts, Shown
<1> QED BY <1>2, NamesAssumption DEF Lifecycle!Verdicts, SessionIds

\* One packet changes, the others look as before.
LEMMA OnlyOne ==
  ASSUME TypeOK, CallInv, NEW s \in Servers, ServerStep(s), NEW p \in Packets,
         \A q \in Packets : q # p => arg[s].packet # q
  PROVE  /\ Phase' = [Phase EXCEPT ![p] = Phase'[p]]
         /\ accepted' = [accepted EXCEPT ![p] = accepted'[p]]
         /\ Delivered' = [Delivered EXCEPT ![p] = Delivered'[p]]
<1>1. \A q \in Packets : q # p => Untouched(q)
  BY StepEffect DEF Effect
<1>2. \A q \in Packets : q # p =>
        /\ Phase'[q] = Phase[q] /\ accepted'[q] = accepted[q]
        /\ Delivered'[q] = Delivered[q]
  BY <1>1, SeenOf DEF Untouched, Still, Shown
<1>3. /\ Phase = [q \in Packets |-> Phase[q]] /\ Phase' = [q \in Packets |-> Phase'[q]]
      /\ Delivered = [q \in Packets |-> Delivered[q]]
      /\ Delivered' = [q \in Packets |-> Delivered'[q]]
  BY DEF Phase, Delivered
<1>4. /\ accepted = [q \in Packets |-> accepted[q]]
      /\ accepted' = [q \in Packets |-> accepted'[q]]
  <2>1. accepted \in [Packets -> SessionIds] /\ accepted' \in [Packets -> SessionIds]
    BY TypeParts, StepDataType DEF ServerStep, DataType
  <2> QED BY <2>1
<1> QED BY <1>2, <1>3, <1>4

LEMMA RefinementStep ==
  ASSUME OneDesk, Inductive, DeskInv, NEW s \in Servers, ServerStep(s)
  PROVE  [Lifecycle!Next]_Lifecycle!vars
<1>0. /\ TypeOK /\ CallInv /\ CallType /\ DataType
      /\ DeskGood(s)
  BY TypeParts DEF Inductive, DeskInv
<1>1. CASE \A q \in Packets : Untouched(q)
  <2>1. \A q \in Packets : /\ Phase'[q] = Phase[q] /\ accepted'[q] = accepted[q]
                           /\ Delivered'[q] = Delivered[q]
    BY <1>1, SeenOf DEF Untouched, Still, Shown
  <2>2. /\ Phase = [q \in Packets |-> Phase[q]] /\ Phase' = [q \in Packets |-> Phase'[q]]
        /\ Delivered = [q \in Packets |-> Delivered[q]]
        /\ Delivered' = [q \in Packets |-> Delivered'[q]]
    BY DEF Phase, Delivered
  <2>3. accepted \in [Packets -> SessionIds] /\ accepted' \in [Packets -> SessionIds]
    BY <1>0, StepDataType DEF ServerStep, DataType
  <2> QED BY <2>1, <2>2, <2>3 DEF Lifecycle!vars
<1>2. ASSUME NEW p \in Packets, ~Untouched(p)
      PROVE  [Lifecycle!Next]_Lifecycle!vars
  <2>0. arg[s].packet = p /\ Effect(s, p)
    BY <1>0, <1>2, StepEffect DEF Effect
  <2>1. /\ Phase' = [Phase EXCEPT ![p] = Phase'[p]]
        /\ accepted' = [accepted EXCEPT ![p] = accepted'[p]]
        /\ Delivered' = [Delivered EXCEPT ![p] = Delivered'[p]]
    BY <1>0, <2>0, OnlyOne
  <2>s. ASSUME Seen(p)' = Seen(p)
        PROVE  [Lifecycle!Next]_Lifecycle!vars
    <3>1. Phase'[p] = Phase[p] /\ accepted'[p] = accepted[p] /\ Delivered'[p] = Delivered[p]
      BY <2>s DEF Seen
    <3>2. Phase = [q \in Packets |-> Phase[q]] /\ Delivered = [q \in Packets |-> Delivered[q]]
      BY DEF Phase, Delivered
    <3>3. accepted \in [Packets -> SessionIds]
      BY <1>0 DEF DataType
    <3> QED BY <2>1, <3>1, <3>2, <3>3 DEF Lifecycle!vars
  <2>m. ASSUME NEW from, Phase[p] \in from
        PROVE  Lifecycle!Move(p, from, Phase'[p])
    BY <2>1, <2>m DEF Lifecycle!Move
  <2>a. accepted'[p] = accepted[p] => accepted' = accepted
    BY <1>0, <2>1 DEF DataType
  <2>d. Delivered'[p] = Delivered[p] => Delivered' = Delivered
    BY <2>1 DEF Delivered
  <2>2. CASE Sent(s, p)
    <3>1. Phase[p] = "unsent" /\ Phase'[p] = "pending" /\ accepted' = accepted
      BY <2>0, <2>2, <2>a, SeenOf, ActorFacts DEF Sent, Still
    <3>2. Delivered' = Delivered
      BY <2>0, <2>2, <2>d, SeenOf, ActorFacts DEF Sent
    <3>3. Lifecycle!Post(p)
      BY <2>m, <3>1, <3>2 DEF Lifecycle!Post
    <3> QED BY <3>3 DEF Lifecycle!Next
  <2>3. CASE Archived(s, p) \/ ArchivedCloseout(s, p) \/ Linked(s, p) \/ Rendered(s, p)
    <3>1. status[p] \in {"cleared", "working"} /\ status'[p] = status[p]
          /\ accepted'[p] = accepted[p]
      BY <2>0, <2>3, ActorFacts DEF Archived, ArchivedCloseout, Linked, Rendered
    <3> QED BY <2>s, <3>1, SeenOf DEF Seen
  <2>4. CASE Accepted(s, p)
    <3>1. CASE status[p] = "none"
      BY <2>4, <2>s, <3>1, SeenOf DEF Seen, Accepted, Becomes
    <3>2. CASE status[p] # "none"
      <4>1. /\ status[p] \in {"pending", "cleared"} /\ status'[p] = "working"
            /\ accepted'[p] = arg[s].session /\ arg[s].session \in Sessions \cup {NoSession}
        BY <1>0, <2>0, <2>4, <3>2, ActorFacts, ArgParts DEF Accepted, Becomes, SessionIds
      <4>2. Phase[p] \in {"pending", "cleared"} /\ Phase'[p] = "working"
            /\ Delivered' = Delivered
        BY <2>d, <4>1, SeenOf
      <4>3. Lifecycle!Claim(p, arg[s].session)
        BY <2>1, <2>m, <4>1, <4>2 DEF Lifecycle!Claim
      <4> QED BY <4>1, <4>3 DEF Lifecycle!Next
    <3> QED BY <3>1, <3>2
  <2>5. CASE Completed(s, p)
    <3>1. /\ status[p] = "working" /\ status'[p] = "complete" /\ handoff[p] # NoVerdict
          /\ handoff'[p] = handoff[p] /\ accepted' = accepted
      BY <2>0, <2>5, <2>a, ActorFacts DEF Completed, Becomes, Still
    <3>2. /\ Shown(p) \in Lifecycle!Verdicts
          /\ accepted[p] \in {NoSession, Shown(p).as}
      BY <1>0, <3>1, ShownType DEF Inductive, VerdictOfHolder, Shown
    <3>3. /\ Phase[p] = "working" /\ Phase'[p] = "complete"
          /\ Delivered' = [Delivered EXCEPT ![p] = Shown(p)]
      BY <2>1, <3>1, SeenOf DEF Shown
    <3>4. Lifecycle!Deliver(p, Shown(p))
      BY <2>m, <3>1, <3>2, <3>3 DEF Lifecycle!Deliver
    <3> QED BY <3>2, <3>4 DEF Lifecycle!Next
  <2>6. CASE Verified(s, p)
    <3>1. /\ status[p] = "complete" /\ status'[p] = "verified"
          /\ handoff[p] # NoVerdict /\ handoff[p].clean
          /\ handoff'[p] = handoff[p] /\ accepted' = accepted
      BY <1>0, <2>0, <2>6, <2>a DEF Verified, Becomes, Still, DeskGood
    <3>2. /\ Phase[p] = "complete" /\ Phase'[p] = "verified"
          /\ Delivered[p] = Shown(p) /\ Delivered' = Delivered
      BY <2>d, <3>1, SeenOf DEF Shown
    <3>3. Shown(p) # NoVerdict /\ Shown(p).clean
      BY <1>0, <3>1, ShownType DEF Shown
    <3>4. Lifecycle!Verify(p)
      BY <2>m, <3>1, <3>2, <3>3 DEF Lifecycle!Verify
    <3> QED BY <3>4 DEF Lifecycle!Next
  <2>7. CASE Cleared(s, p)
    <3>1. /\ Phase[p] \in {"complete", "verified"} /\ Phase'[p] = "cleared"
          /\ Delivered'[p] = NoVerdict /\ accepted' = accepted
      BY <2>7, <2>a, SeenOf DEF Cleared, Still
    <3>2. Lifecycle!Free(p)
      BY <2>1, <2>m, <3>1 DEF Lifecycle!Free
    <3> QED BY <3>2 DEF Lifecycle!Next
  <2>8. CASE Withdrawn(s, p)
    <3>1. status[p] \in {"none", "pending", "working"}
      BY <1>0, <2>0, <2>8 DEF Withdrawn, DeskGood
    <3>2. CASE status[p] = "none"
      BY <2>8, <2>s, <3>2, SeenOf DEF Seen, Withdrawn, Becomes, Still
    <3>3. CASE status[p] # "none"
      <4>1. /\ Phase[p] \in {"pending", "working"} /\ Phase'[p] = "withdrawn"
            /\ Delivered' = Delivered /\ accepted' = accepted
        BY <2>8, <2>a, <2>d, <3>1, <3>3, SeenOf DEF Withdrawn, Becomes, Still
      <4>2. Lifecycle!Retire(p)
        BY <2>m, <4>1 DEF Lifecycle!Retire
      <4> QED BY <4>2 DEF Lifecycle!Next
    <3> QED BY <3>2, <3>3
  <2> QED BY <1>2, <2>0, <2>2, <2>3, <2>4, <2>5, <2>6, <2>7, <2>8 DEF Effect
<1> QED BY <1>1, <1>2

LEMMA RefinementInit == Init => Lifecycle!Init
  BY DEF Init, Lifecycle!Init, Phase, Delivered

\* With one desk, what the handlers do to the files of a packet is, for whoever
\* reads its status, the atomic life cycle of PacketLifecycle: every step of a
\* handler is one of its moves or changes nothing a reader sees.
THEOREM PacketsRefine == OneDesk => (Spec => Implements)
<1> SUFFICES ASSUME OneDesk PROVE Spec => Implements
  OBVIOUS
<1>1. Init => Lifecycle!Init
  BY RefinementInit
<1>2. Inductive /\ DeskInv /\ [Next]_vars => [Lifecycle!Next]_Lifecycle!vars
  <2>1. ASSUME Inductive, DeskInv, Next PROVE [Lifecycle!Next]_Lifecycle!vars
    BY <2>1, RefinementStep DEF Next, ServerStep
  <2>2. ASSUME UNCHANGED vars PROVE UNCHANGED Lifecycle!vars
    BY <2>2 DEF vars, Lifecycle!vars, Phase, Delivered
  <2> QED BY <2>1, <2>2
<1>3. Init => DeskInv
  BY InitDesk
<1>4. Inductive /\ DeskInv /\ [Next]_vars => DeskInv'
  BY NextDesk
<1> QED BY <1>1, <1>2, <1>3, <1>4, InductiveHolds, PTL DEF Spec, Implements, Lifecycle!Spec
=============================================================================
