--------------------------- MODULE DispatchProofs ---------------------------
(***************************************************************************)
(* Type correctness of Dispatch, proved for any servers, packets, sessions *)
(* and bounds, and the facts about control that its safety proofs use.     *)
(* The typing of a call (CallType) rests on what the call is about         *)
(* (CallInv), so Spec => []TypeOK is proved with the inductive invariant   *)
(* in DispatchSafetyProofs.                                                *)
(***************************************************************************)
EXTENDS Dispatch, FiniteSetTheorems, TLAPS

\* A fresh call, and the updates the handlers make to one, are calls.
LEMMA CallFacts ==
  /\ NoArg \in Args
  /\ ~NoArg.entering
  /\ \A p \in Packets, x \in SessionIds :
       /\ Call(p, x) \in Args
       /\ Call(p, x).packet = p
       /\ Call(p, x).session = x
       /\ ~Call(p, x).entering
  BY DEF NoArg, Args, Call, Statuses, SessionIds

LEMMA CallUpdates ==
  ASSUME NEW a \in Args
  PROVE  /\ \A x \in SessionIds : LET b == [a EXCEPT !.session = x] IN
              b \in Args /\ b.packet = a.packet /\ b.entering = a.entering
         /\ \A n \in BOOLEAN : LET b == [a EXCEPT !.named = n, !.entering = TRUE] IN
              b \in Args /\ b.packet = a.packet /\ b.session = a.session
         /\ \A st \in Statuses : LET b == [a EXCEPT !.seen = st] IN
              /\ b \in Args /\ b.packet = a.packet
              /\ b.session = a.session /\ b.entering = a.entering
         /\ \A st \in Statuses, f \in BOOLEAN : LET b == [a EXCEPT !.forced = f, !.seen = st] IN
              /\ b \in Args /\ b.packet = a.packet
              /\ b.session = a.session /\ b.entering = a.entering
  BY DEF Args

\* The names of the steps and of the statuses, so that Steps and Statuses
\* need not be expanded.
LEMMA StepNames ==
  /\ {"idle", "send_meta", "send_assignment", "send_status"} \subseteq Steps
  /\ {"accept_lock", "write_lock", "verify_set", "clear_lock", "withdraw_lock"} \subseteq Steps
  /\ {"accept_archive", "accept_archive_closeout", "accept_status", "accept_bind",
      "write_link", "write_closeout", "write_status", "withdraw_set"} \subseteq Steps
  /\ {"enter_read", "enter_reread", "enter_bind", "verify_read", "clear_bind"} \subseteq Steps
  BY DEF Steps, SendSteps, LockSteps, LockedSteps, UnlockedSteps

LEMMA StatusNames ==
  {"pending", "working", "complete", "verified", "cleared", "withdrawn"} \subseteq Statuses
  BY DEF Statuses

-----------------------------------------------------------------------------
(* The typing of the calls under way.                                      *)

CallType == pc \in [Servers -> Steps] /\ arg \in [Servers -> Args]

LEMMA BeginType ==
  ASSUME CallType, NEW s \in Servers, NEW step \in Steps, NEW call \in Args,
         Begin(s, step, call)
  PROVE  CallType'
  BY DEF Begin, CallType

LEMMA GoType ==
  ASSUME CallType, NEW s \in Servers, NEW step \in Steps, Go(s, step),
         arg' \in [Servers -> Args]
  PROVE  CallType'
  BY DEF Go, CallType

LEMMA ReturnType ==
  ASSUME CallType, NEW s \in Servers, Return(s)
  PROVE  CallType'
  BY CallFacts, StepNames DEF Return, CallType

\* What a call under way is about.
LEMMA ArgParts ==
  ASSUME CallType, CallInv, NEW s \in Servers
  PROVE  /\ pc[s] # "idle" => arg[s].packet \in Packets
         /\ arg[s].entering => arg[s].session \in Sessions
         /\ arg[s].session \in SessionIds
         /\ arg[s].caller \in SessionIds
         /\ arg[s].seen \in Statuses
  BY DEF CallType, CallInv, Args

\* The session an omitted id resolves to is an entrant of the packet, or none.
LEMMA ResolvedType ==
  ASSUME entrants \in [Servers -> [Packets -> SUBSET Sessions]],
         NEW s \in Servers, NEW p \in Packets
  PROVE  Resolved(s, p) \in SessionIds
<1>1. CASE Cardinality(entrants[s][p]) = 1
  <2>1. entrants[s][p] # {}
    <3>1. SUFFICES ASSUME entrants[s][p] = {} PROVE FALSE
      OBVIOUS
    <3>2. Cardinality({}) = 0
      BY FS_EmptySet
    <3> QED BY <1>1, <3>1, <3>2
  <2>2. Resolved(s, p) \in entrants[s][p]
    BY <1>1, <2>1 DEF Resolved
  <2> QED BY <2>2 DEF SessionIds
<1>2. CASE Cardinality(entrants[s][p]) # 1
  BY <1>2 DEF Resolved, SessionIds
<1> QED BY <1>1, <1>2

LEMMA StepCallType ==
  ASSUME CallType, CallInv, status \in [Packets -> Statuses \cup {"none"}],
         entrants \in [Servers -> [Packets -> SUBSET Sessions]],
         NEW s \in Servers, Start(s) \/ Continue(s) \/ Restart(s)
  PROVE  CallType'
<1>1. CASE SendMkdir(s) \/ Accept(s) \/ Verify(s) \/ Clear(s) \/ Withdraw(s)
  BY <1>1, BeginType, CallFacts, StepNames DEF SendMkdir, Accept, Verify, Clear, Withdraw, SessionIds
<1>2. CASE Enter(s)
  BY <1>2, BeginType, CallFacts, CallUpdates, StepNames DEF Enter, SessionIds
<1>3. CASE Write(s)
  <2>1. PICK p \in Packets, x \in Sessions, omit \in BOOLEAN :
          Begin(s, "write_lock", [Call(p, x) EXCEPT !.session = IF omit THEN Resolved(s, p) ELSE x])
    BY <1>3 DEF Write
  <2>2. (IF omit THEN Resolved(s, p) ELSE x) \in SessionIds
    BY ResolvedType DEF SessionIds
  <2>3. Call(p, x) \in Args
    BY CallFacts DEF SessionIds
  <2> QED BY <2>1, <2>2, <2>3, CallUpdates, BeginType, StepNames
<1>4. CASE EnterBare(s) \/ CloseSession(s)
  <2>1. pc' = pc /\ arg' = arg
    BY <1>4 DEF EnterBare, CloseSession
  <2> QED BY <2>1 DEF CallType
<1>5. CASE \/ SendMeta(s) \/ SendAssignment(s) \/ AcceptArchive(s) \/ AcceptArchiveCloseout(s)
           \/ AcceptStatus(s) \/ WriteCloseout(s)
  BY <1>5, GoType, StepNames
     DEF SendMeta, SendAssignment, AcceptArchive, AcceptArchiveCloseout, AcceptStatus,
         WriteCloseout, CallType
<1>6. CASE \/ SendStatus(s) \/ AcceptBind(s) \/ EnterReread(s) \/ EnterBind(s) \/ WriteStatus(s)
           \/ VerifySet(s) \/ ClearBind(s) \/ WithdrawSet(s) \/ Restart(s)
  BY <1>6, ReturnType
     DEF SendStatus, AcceptBind, EnterReread, EnterBind, WriteStatus, VerifySet, ClearBind,
         WithdrawSet, Restart
<1>7. CASE AcceptLock(s) \/ WriteLock(s) \/ WriteLink(s) \/ VerifyRead(s) \/ ClearLock(s)
  <2>1. Return(s) \/ \E step \in Steps : Go(s, step) /\ arg' = arg
    BY <1>7, StepNames DEF AcceptLock, WriteLock, WriteLink, VerifyRead, ClearLock
  <2> QED BY <2>1, ReturnType, GoType DEF CallType
<1>8. CASE EnterRead(s)
  <2>1. CASE Return(s)
    BY <2>1, ReturnType
  <2>2. CASE Go(s, "accept_lock") /\ UNCHANGED arg
    BY <2>2, GoType, StepNames DEF CallType
  <2>3. CASE Go(s, "enter_bind") /\ arg' = [arg EXCEPT ![s].seen = Cur(arg[s].packet)]
    <3>1. Cur(arg[s].packet) \in Statuses
      BY <1>8, ArgParts, StatusNames DEF Cur, EnterRead
    <3>2. [arg[s] EXCEPT !.seen = Cur(arg[s].packet)] \in Args
      BY <3>1, CallUpdates DEF CallType
    <3>3. arg' = [arg EXCEPT ![s] = [arg[s] EXCEPT !.seen = Cur(arg[s].packet)]]
      BY <2>3 DEF CallType
    <3>4. arg' \in [Servers -> Args]
      BY <3>2, <3>3 DEF CallType
    <3> QED BY <2>3, <3>4, GoType, StepNames
  <2> QED BY <1>8, <2>1, <2>2, <2>3 DEF EnterRead
<1>9. CASE WithdrawLock(s)
  <2>1. CASE Return(s)
    BY <2>1, ReturnType
  <2>2. CASE Go(s, "withdraw_set") /\ \E f \in BOOLEAN, st \in Statuses :
               arg' = [arg EXCEPT ![s] = [arg[s] EXCEPT !.forced = f, !.seen = st]]
    <3>1. PICK f \in BOOLEAN, st \in Statuses :
            arg' = [arg EXCEPT ![s] = [arg[s] EXCEPT !.forced = f, !.seen = st]]
      BY <2>2
    <3>2. arg' \in [Servers -> Args]
      BY <3>1, CallUpdates DEF CallType
    <3> QED BY <2>2, <3>2, GoType, StepNames
  <2>3. Cur(arg[s].packet) \in {"pending", "working"} => Cur(arg[s].packet) \in Statuses
    BY StatusNames
  <2> QED BY <1>9, <2>1, <2>2, <2>3 DEF WithdrawLock, CallType
<1> QED BY <1>1, <1>2, <1>3, <1>4, <1>5, <1>6, <1>7, <1>8, <1>9 DEF Start, Continue

-----------------------------------------------------------------------------
(* The typing of the packets, the session records and the memory.          *)

DataType ==
  /\ files \in [Packets -> {"absent", "dir", "meta", "whole"}]
  /\ status \in [Packets -> Statuses \cup {"none"}]
  /\ accepted \in [Packets -> SessionIds]
  /\ handoff \in [Packets -> Verdicts \cup {NoVerdict}]
  /\ closeout \in [Packets -> Verdicts \cup {NoVerdict}]
  /\ history \in [Packets -> SUBSET (Verdicts \X (Verdicts \cup {NoVerdict}))]
  /\ runner \in [Packets -> Runners]
  /\ lock \in [Packets -> Servers \cup {NoServer}]
  /\ record \in [Sessions -> Records]
  /\ entrants \in [Servers -> [Packets -> SUBSET Sessions]]
  /\ cycle \in [Packets -> Nat]
  /\ restarts \in Nat

LEMMA TypeParts == TypeOK <=> CallType /\ DataType
  BY DEF TypeOK, CallType, DataType

LEMMA SetStatusType ==
  ASSUME status \in [Packets -> Statuses \cup {"none"}], NEW p \in Packets,
         NEW new \in Statuses, SetStatus(p, new)
  PROVE  status' \in [Packets -> Statuses \cup {"none"}]
  BY DEF SetStatus

LEMMA BindType ==
  ASSUME record \in [Sessions -> Records], NEW x \in SessionIds,
         NEW p \in Packets \cup {NoPacket}, NEW new \in Statuses \cup {"absent", "idle", "closed"},
         Bind(x, p, new)
  PROVE  record' \in [Sessions -> Records]
<1>1. [packet |-> p, status |-> new] \in Records
  BY DEF Records
<1> QED BY <1>1 DEF Bind, SessionIds

LEMMA RememberType ==
  ASSUME entrants \in [Servers -> [Packets -> SUBSET Sessions]], NEW s \in Servers,
         arg[s].packet \in Packets, arg[s].entering => arg[s].session \in Sessions,
         Remember(s)
  PROVE  entrants' \in [Servers -> [Packets -> SUBSET Sessions]]
  BY DEF Remember

LEMMA StepDataType ==
  ASSUME CallType, DataType, CallInv, NEW s \in Servers, Start(s) \/ Continue(s) \/ Restart(s)
  PROVE  DataType'
<1> DEFINE p == arg[s].packet
<1>0. pc[s] # "idle" => p \in Packets
  BY ArgParts
<1>1. CASE \/ Accept(s) \/ Enter(s) \/ Write(s) \/ Verify(s) \/ Clear(s) \/ Withdraw(s) \/ VerifyRead(s)
  BY <1>1 DEF Accept, Enter, Write, Verify, Clear, Withdraw, VerifyRead, DataType, packetVars
<1>2. CASE EnterBare(s) \/ CloseSession(s) \/ ClearBind(s)
  <2>1. record' \in [Sessions -> Records]
    BY <1>2, ArgParts, BindType DEF EnterBare, CloseSession, ClearBind, DataType, SessionIds
  <2> QED BY <1>2, <2>1 DEF EnterBare, CloseSession, ClearBind, DataType, packetVars
<1>3. CASE SendMkdir(s) \/ SendMeta(s) \/ SendAssignment(s)
  BY <1>0, <1>3 DEF SendMkdir, SendMeta, SendAssignment, DataType
<1>4. CASE SendStatus(s)
  BY <1>0, <1>4, StatusNames DEF SendStatus, DataType
<1>5. CASE AcceptLock(s) \/ WriteLock(s) \/ WithdrawLock(s)
  BY <1>0, <1>5 DEF AcceptLock, WriteLock, WithdrawLock, DataType, packetVars, Acquire
<1>6. CASE AcceptArchive(s)
  BY <1>0, <1>6 DEF AcceptArchive, DataType
<1>7. CASE AcceptArchiveCloseout(s)
  BY <1>0, <1>7 DEF AcceptArchiveCloseout, DataType
<1>8. CASE AcceptStatus(s)
  <2>1. status' \in [Packets -> Statuses \cup {"none"}]
    BY <1>0, <1>8, SetStatusType, StatusNames DEF AcceptStatus, DataType
  <2>2. accepted' \in [Packets -> SessionIds] /\ cycle' \in [Packets -> Nat]
    BY <1>0, <1>8, ArgParts DEF AcceptStatus, DataType
  <2> QED BY <1>8, <2>1, <2>2 DEF AcceptStatus, DataType
<1>9. CASE AcceptBind(s) \/ EnterBind(s)
  <2>1. record' \in [Sessions -> Records]
    BY <1>0, <1>9, ArgParts, BindType, StatusNames DEF AcceptBind, EnterBind, DataType
  <2>2. entrants' \in [Servers -> [Packets -> SUBSET Sessions]]
    BY <1>0, <1>9, ArgParts, RememberType DEF AcceptBind, EnterBind, DataType
  <2>3. lock' \in [Packets -> Servers \cup {NoServer}]
    BY <1>9 DEF AcceptBind, EnterBind, Release, DataType
  <2> QED BY <1>9, <2>1, <2>2, <2>3 DEF AcceptBind, EnterBind, DataType, packetVars
<1>10. CASE EnterRead(s) \/ EnterReread(s)
  <2>1. pc[s] # "idle" /\ (Remember(s) \/ UNCHANGED entrants)
    BY <1>10 DEF EnterRead, EnterReread
  <2>2. entrants' \in [Servers -> [Packets -> SUBSET Sessions]]
    BY <1>0, <2>1, ArgParts, RememberType DEF DataType
  <2> QED BY <1>10, <2>2 DEF EnterRead, EnterReread, DataType, packetVars
<1>11. CASE WriteLink(s)
  <2>1. \A clean \in BOOLEAN :
          [cycle |-> cycle[p], by |-> arg[s].caller, as |-> arg[s].session, clean |-> clean]
            \in Verdicts
    BY <1>0, <1>11, ArgParts DEF WriteLink, DataType, Verdicts
  <2>2. \/ UNCHANGED handoff
        \/ \E v \in Verdicts : handoff' = [handoff EXCEPT ![p] = v]
    BY <1>11, <2>1 DEF WriteLink
  <2>4. handoff' \in [Packets -> Verdicts \cup {NoVerdict}]
    BY <2>2 DEF DataType
  <2>3. lock' \in [Packets -> Servers \cup {NoServer}]
    BY <1>11 DEF WriteLink, Release, DataType
  <2> QED BY <1>11, <2>3, <2>4 DEF WriteLink, DataType
<1>12. CASE WriteCloseout(s)
  BY <1>0, <1>12 DEF WriteCloseout, DataType
<1>13. CASE WriteStatus(s) \/ WithdrawSet(s)
  <2>1. status' \in [Packets -> Statuses \cup {"none"}]
    BY <1>0, <1>13, SetStatusType, StatusNames DEF WriteStatus, WithdrawSet, DataType
  <2>2. lock' \in [Packets -> Servers \cup {NoServer}]
    BY <1>13 DEF WriteStatus, WithdrawSet, Release, DataType
  <2> QED BY <1>13, <2>1, <2>2 DEF WriteStatus, WithdrawSet, DataType
<1>14. CASE VerifySet(s) \/ ClearLock(s)
  <2>1. status' \in [Packets -> Statuses \cup {"none"}]
    BY <1>0, <1>14, SetStatusType, StatusNames DEF VerifySet, ClearLock, DataType
  <2> QED BY <1>14, <2>1 DEF VerifySet, ClearLock, DataType
<1>15. CASE Restart(s)
  BY <1>15 DEF Restart, DropLocks, DataType, packetVars
<1> QED BY <1>1, <1>2, <1>3, <1>4, <1>5, <1>6, <1>7, <1>8, <1>9, <1>10, <1>11, <1>12, <1>13,
           <1>14, <1>15 DEF Start, Continue
=============================================================================
