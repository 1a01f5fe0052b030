------------------------------ MODULE Dispatch ------------------------------
(***************************************************************************)
(* Dispatch packets (dispatch.py, handoff.py and their tools in server.py).*)
(*                                                                         *)
(* A packet is a directory of files that several willow-mcp server         *)
(* processes read and write: meta.json and assignment.md (written once),   *)
(* status.json, handoff.json, closeout.md and history/.  packet_lock, a    *)
(* flock on the directory, serialises the handlers that change an accepted *)
(* packet; dispatch_send and the session records take no lock, and         *)
(* verify_handoff decides before it takes the lock.  A step here is one    *)
(* such file operation (each write is an os.replace or os.link, so it is   *)
(* atomic); a server may die between any two steps, and the kernel then    *)
(* releases its flock.                                                     *)
(*                                                                         *)
(* One server process runs one tool call at a time, on behalf of the       *)
(* sessions connected to it.  The packets of the model are all addressed   *)
(* to one specialist app: any other app is refused wrong_recipient before  *)
(* anything is read or written.                                            *)
(***************************************************************************)
EXTENDS Naturals, FiniteSets

CONSTANTS
  Servers,      \* willow-mcp processes (stdio children, serve, the listener's child)
  Desks,        \* those of them the orchestrator calls
  Packets,      \* dispatch ids
  Sessions,     \* session ids of the specialist app
  HomeOf,       \* the server each session is connected to
  Runners,      \* runner kinds a packet can ask for: "seat", "ratatosk"
  RunnerOf,     \* the runner each caller passes (also for an omitted session id)
  NoServer, NoPacket, NoSession, NoVerdict,
  MaxCycles,    \* bound: a packet accepted this often is not cleared again
  MaxRestarts   \* bound: server deaths

SessionIds == Sessions \cup {NoSession}     \* NoSession is the empty string

Statuses == {"pending", "working", "complete", "verified", "cleared", "withdrawn"}

\* Where a call stands, named after what its next step does.
SendSteps     == {"send_meta", "send_assignment", "send_status"}
LockSteps     == {"accept_lock", "write_lock", "verify_set", "clear_lock", "withdraw_lock"}
LockedSteps   == {"accept_archive", "accept_archive_closeout", "accept_status", "accept_bind",
                  "write_link", "write_closeout", "write_status", "withdraw_set"}
UnlockedSteps == {"enter_read", "enter_reread", "enter_bind", "verify_read", "clear_bind"}
Steps == {"idle"} \cup SendSteps \cup LockSteps \cup LockedSteps \cup UnlockedSteps

Verdicts == [cycle : Nat, by : SessionIds, as : SessionIds, clean : BOOLEAN]
Records  == [packet : Packets \cup {NoPacket},
             status : Statuses \cup {"absent", "idle", "closed"}]

ASSUME ServersAssumption ==
  /\ Desks \subseteq Servers
  /\ NoServer \notin Servers
  /\ HomeOf \in [Sessions -> Servers]
  /\ RunnerOf \in [SessionIds -> Runners]
ASSUME NamesAssumption ==
  /\ NoPacket \notin Packets
  /\ NoSession \notin Sessions
  /\ NoVerdict \notin Verdicts
  /\ NoVerdict \notin [as : SessionIds, clean : BOOLEAN]
ASSUME BoundsAssumption == MaxCycles \in Nat /\ MaxRestarts \in Nat

VARIABLES
  \* the packet directory
  files,      \* how far dispatch_send got: absent, dir, meta, whole (assignment.md is there)
  status,     \* status.json: a status, or "none" while the file does not exist
  accepted,   \* its accepted_session_id
  handoff,    \* handoff.json
  closeout,   \* closeout.md, as the handoff it renders
  history,    \* the archived <<handoff.json, closeout.md>> pairs
  runner,     \* the signed meta's runner
  lock,       \* who holds packet_lock
  \* the specialist app's session records
  record,
  \* server memory: sessions that entered a packet there (server._specialist_entrants)
  entrants,
  \* the running calls
  pc, arg,
  \* history variables of the model
  cycle,      \* accepts of the packet so far
  restarts

packetVars == <<files, status, accepted, handoff, closeout, history, runner>>
vars == <<files, status, accepted, handoff, closeout, history, runner, lock,
          record, entrants, pc, arg, cycle, restarts>>

\* session: the id the handler works with; caller: the session that really
\* called; seen: a status read earlier; named: the caller passed dispatch_id;
\* forced: dispatch_withdraw proceeds over bound sessions.
Args == [packet : Packets \cup {NoPacket}, session : SessionIds, caller : SessionIds,
         seen : Statuses, named : BOOLEAN, entering : BOOLEAN, forced : BOOLEAN]
NoArg == [packet |-> NoPacket, session |-> NoSession, caller |-> NoSession,
          seen |-> "pending", named |-> FALSE, entering |-> FALSE, forced |-> FALSE]
Call(p, x) == [NoArg EXCEPT !.packet = p, !.session = x, !.caller = x]

TypeOK ==
  /\ files \in [Packets -> {"absent", "dir", "meta", "whole"}]
  /\ status \in [Packets -> Statuses \cup {"none"}]
  /\ accepted \in [Packets -> SessionIds]
  /\ handoff \in [Packets -> Verdicts \cup {NoVerdict}]
  /\ closeout \in [Packets -> Verdicts \cup {NoVerdict}]
  /\ history \in [Packets -> SUBSET (Verdicts \X (Verdicts \cup {NoVerdict}))]
  /\ runner \in [Packets -> Runners]
  /\ lock \in [Packets -> Servers \cup {NoServer}]
  /\ record \in [Sessions -> Records]
  /\ entrants \in [Servers -> [Packets -> SUBSET Sessions]]
  /\ pc \in [Servers -> Steps]
  /\ arg \in [Servers -> Args]
  /\ cycle \in [Packets -> Nat]
  /\ restarts \in Nat

Init ==
  /\ files = [p \in Packets |-> "absent"]
  /\ status = [p \in Packets |-> "none"]
  /\ accepted = [p \in Packets |-> NoSession]
  /\ handoff = [p \in Packets |-> NoVerdict]
  /\ closeout = [p \in Packets |-> NoVerdict]
  /\ history = [p \in Packets |-> {}]
  /\ runner \in [Packets -> Runners]
  /\ lock = [p \in Packets |-> NoServer]
  /\ record = [x \in Sessions |-> [packet |-> NoPacket, status |-> "absent"]]
  /\ entrants = [s \in Servers |-> [p \in Packets |-> {}]]
  /\ pc = [s \in Servers |-> "idle"]
  /\ arg = [s \in Servers |-> NoArg]
  /\ cycle = [p \in Packets |-> 0]
  /\ restarts = 0

-----------------------------------------------------------------------------
(* Reading and writing a packet.                                           *)

\* dispatch_read succeeds: meta.json is there and assignment.md matches its hash.
Readable(p) == files[p] = "whole"

\* Mutated: a missing status.json is passed on as it is.
CurRaw(p) == status[p]
\* The status dispatch_read's callers see: a missing status.json reads as pending.
Cur(p) == IF status[p] = "none" THEN "pending" ELSE status[p]

\* Mutated: the status is written whether or not status.json exists.
SetStatusCreating(p, new) == status' = [status EXCEPT ![p] = new]
\* _dispatch_set_status_locked: a missing status.json is not_found, which
\* every caller but a reader of the returned dict ignores.
SetStatus(p, new) ==
  status' = [status EXCEPT ![p] = IF @ = "none" THEN @ ELSE new]

\* session_bind replaces the whole record.
Bind(x, p, new) ==
  record' = IF x = NoSession THEN record
            ELSE [record EXCEPT ![x] = [packet |-> p, status |-> new]]

Go(s, step)   == pc' = [pc EXCEPT ![s] = step]
Return(s)     == pc' = [pc EXCEPT ![s] = "idle"] /\ arg' = [arg EXCEPT ![s] = NoArg]
Begin(s, step, call) == /\ pc[s] = "idle"
                        /\ pc' = [pc EXCEPT ![s] = step]
                        /\ arg' = [arg EXCEPT ![s] = call]
Acquire(s, p) == lock[p] = NoServer /\ lock' = [lock EXCEPT ![p] = s]
Release(s, p) == lock' = [lock EXCEPT ![p] = NoServer]

\* Mutated: only a caller that names no session is refused.
HeldByOtherUnnamed(p, x) == accepted[p] # NoSession /\ x = NoSession
\* The packet was accepted by a session, and not by this one.
HeldByOther(p, x) == accepted[p] # NoSession /\ accepted[p] # x

\* Mutated: the runner is checked only while the packet is pending.
RunnerMatchesAtAccept(p, x) == runner[p] = RunnerOf[x] \/ status[p] # "pending"
\* _check_runner_or_error.
RunnerMatches(p, x) == runner[p] = RunnerOf[x]

\* The session_enter tool remembers the session, held_by_other_session or not,
\* under the dispatch id it was given.
Remember(s) == LET p == arg[s].packet IN
  entrants' = IF arg[s].entering /\ arg[s].named
              THEN [entrants EXCEPT ![s][p] = @ \cup {arg[s].session}] ELSE entrants

-----------------------------------------------------------------------------
(* dispatch_send: four file operations, no lock.                           *)

SendMkdir(s) == \E p \in Packets :
  /\ files[p] = "absent"
  /\ Begin(s, "send_meta", Call(p, NoSession))
  /\ files' = [files EXCEPT ![p] = "dir"]
  /\ UNCHANGED <<status, accepted, handoff, closeout, history, runner, lock, record,
                 entrants, cycle, restarts>>

SendMeta(s) ==
  /\ pc[s] = "send_meta"
  /\ files' = [files EXCEPT ![arg[s].packet] = "meta"]
  /\ Go(s, "send_assignment")
  /\ UNCHANGED <<status, accepted, handoff, closeout, history, runner, lock, record,
                 entrants, arg, cycle, restarts>>

SendAssignment(s) ==
  /\ pc[s] = "send_assignment"
  /\ files' = [files EXCEPT ![arg[s].packet] = "whole"]
  /\ Go(s, "send_status")
  /\ UNCHANGED <<status, accepted, handoff, closeout, history, runner, lock, record,
                 entrants, arg, cycle, restarts>>

SendStatus(s) ==
  /\ pc[s] = "send_status"
  /\ status' = [status EXCEPT ![arg[s].packet] = "pending"]
  /\ Return(s)
  /\ UNCHANGED <<files, accepted, handoff, closeout, history, runner, lock, record,
                 entrants, cycle, restarts>>

-----------------------------------------------------------------------------
(* dispatch_accept.                                                        *)

\* Recipient and runner are checked before the lock.
Accept(s) == \E p \in Packets, x \in SessionIds :
  /\ x # NoSession => HomeOf[x] = s
  /\ Readable(p) /\ RunnerMatches(p, x)
  /\ Begin(s, "accept_lock", Call(p, x))
  /\ UNCHANGED packetVars /\ UNCHANGED <<lock, record, entrants, cycle, restarts>>

\* Mutated: a packet that is being worked on can be accepted again.
AcceptableTwice == {"pending", "working", "cleared"}
Acceptable == {"pending", "cleared"}

\* The status is read again under the lock.
AcceptLock(s) == LET p == arg[s].packet IN
  /\ pc[s] = "accept_lock"
  /\ lock[p] = NoServer
  /\ \/ /\ Cur(p) \in Acceptable
        /\ Acquire(s, p)
        /\ Go(s, IF Cur(p) = "cleared" THEN "accept_archive" ELSE "accept_status")
        /\ UNCHANGED arg
     \/ /\ Cur(p) \notin Acceptable                              \* invalid_transition
        /\ IF arg[s].entering THEN Go(s, "enter_reread") /\ UNCHANGED arg ELSE Return(s)
        /\ UNCHANGED lock
  /\ UNCHANGED packetVars /\ UNCHANGED <<record, entrants, cycle, restarts>>

\* Mutated: handoff.json is copied into the history and stays.
AcceptArchiveCopies(s) == LET p == arg[s].packet IN
  /\ pc[s] = "accept_archive"
  /\ Go(s, "accept_status")
  /\ history' = [history EXCEPT ![p] = @ \cup {<<v, closeout[p]>> : v \in {handoff[p]} \ {NoVerdict}}]
  /\ UNCHANGED <<files, status, accepted, handoff, closeout, runner, lock, record,
                 entrants, arg, cycle, restarts>>
\* _archive_prior_handoff: two renames into a fresh history directory; nothing
\* is archived when handoff.json is missing.
AcceptArchive(s) == LET p == arg[s].packet IN
  /\ pc[s] = "accept_archive"
  /\ handoff' = [handoff EXCEPT ![p] = NoVerdict]
  /\ IF handoff[p] = NoVerdict
     THEN Go(s, "accept_status") /\ UNCHANGED history
     ELSE /\ Go(s, "accept_archive_closeout")
          /\ history' = [history EXCEPT ![p] = @ \cup {<<handoff[p], NoVerdict>>}]
  /\ UNCHANGED <<files, status, accepted, closeout, runner, lock, record,
                 entrants, arg, cycle, restarts>>

AcceptArchiveCloseout(s) == LET p == arg[s].packet IN
  /\ pc[s] = "accept_archive_closeout"
  /\ \E old \in history[p] :
       /\ old[1].cycle = cycle[p]
       /\ history' = [history EXCEPT ![p] = (@ \ {old}) \cup {<<old[1], closeout[p]>>}]
  /\ closeout' = [closeout EXCEPT ![p] = NoVerdict]
  /\ Go(s, "accept_status")
  /\ UNCHANGED <<files, status, accepted, handoff, runner, lock, record,
                 entrants, arg, cycle, restarts>>

\* accepted_session_id is written with the status, in the same file; without
\* a status.json neither is.
AcceptStatus(s) == LET p == arg[s].packet IN
  /\ pc[s] = "accept_status"
  /\ SetStatus(p, "working")
  /\ IF status[p] = "none"
     THEN UNCHANGED <<accepted, cycle>>
     ELSE /\ accepted' = [accepted EXCEPT ![p] = arg[s].session]
          /\ cycle' = [cycle EXCEPT ![p] = @ + 1]
  /\ Go(s, "accept_bind")
  /\ UNCHANGED <<files, handoff, closeout, history, runner, lock, record, entrants, arg, restarts>>

\* The session record is bound under the same lock; the session_enter tool
\* then remembers the entrant.
AcceptBind(s) == LET p == arg[s].packet IN
  /\ pc[s] = "accept_bind"
  /\ Bind(arg[s].session, p, "working")
  /\ Release(s, p)
  /\ Remember(s)
  /\ Return(s)
  /\ UNCHANGED packetVars /\ UNCHANGED <<cycle, restarts>>

-----------------------------------------------------------------------------
(* session_enter of a specialist session.                                  *)

\* The packet is the one the caller names, or the one its record holds.
Enter(s) == \E x \in Sessions, p \in Packets, named \in BOOLEAN :
  /\ HomeOf[x] = s
  /\ named \/ record[x].packet = p
  /\ Begin(s, "enter_read", [Call(p, x) EXCEPT !.named = named, !.entering = TRUE])
  /\ UNCHANGED packetVars /\ UNCHANGED <<lock, record, entrants, cycle, restarts>>

\* No dispatch id and none on record: the session enters unassigned.
EnterBare(s) == \E x \in Sessions :
  /\ pc[s] = "idle" /\ HomeOf[x] = s
  /\ record[x].packet = NoPacket
  /\ Bind(x, NoPacket, "idle")
  /\ UNCHANGED packetVars /\ UNCHANGED <<lock, entrants, pc, arg, cycle, restarts>>

EnterRead(s) == LET p == arg[s].packet
                    x == arg[s].session IN
  /\ pc[s] = "enter_read"
  /\ \/ /\ \/ ~Readable(p)
           \/ Cur(p) = "withdrawn"
           \/ ~RunnerMatches(p, x)
        /\ Return(s)
        /\ UNCHANGED entrants
     \/ /\ Readable(p) /\ Cur(p) = "pending" /\ RunnerMatches(p, x)
        /\ Go(s, "accept_lock")
        /\ UNCHANGED <<arg, entrants>>
     \/ /\ Readable(p) /\ Cur(p) \notin {"pending", "withdrawn"} /\ RunnerMatches(p, x)
        /\ IF HeldByOther(p, x)
           THEN Return(s) /\ Remember(s)
           ELSE /\ Go(s, "enter_bind")
                /\ arg' = [arg EXCEPT ![s].seen = Cur(p)]
                /\ UNCHANGED entrants
  /\ UNCHANGED packetVars /\ UNCHANGED <<lock, record, cycle, restarts>>

\* dispatch_accept lost a race: the packet is read again, without the lock.
EnterReread(s) == LET p == arg[s].packet IN
  /\ pc[s] = "enter_reread"
  /\ IF accepted[p] = NoSession THEN UNCHANGED entrants ELSE Remember(s)
  /\ Return(s)
  /\ UNCHANGED packetVars /\ UNCHANGED <<lock, record, cycle, restarts>>

\* Re-entry binds the status read before, without the lock.
EnterBind(s) == LET p == arg[s].packet IN
  /\ pc[s] = "enter_bind"
  /\ Bind(arg[s].session, p, arg[s].seen)
  /\ Remember(s)
  /\ Return(s)
  /\ UNCHANGED packetVars /\ UNCHANGED <<lock, cycle, restarts>>

\* session_handoff_write and the SessionEnd hook end in mark_session_closed.
CloseSession(s) == \E x \in Sessions :
  /\ pc[s] = "idle" /\ HomeOf[x] = s
  /\ Bind(x, NoPacket, "closed")
  /\ UNCHANGED packetVars /\ UNCHANGED <<lock, entrants, pc, arg, cycle, restarts>>

-----------------------------------------------------------------------------
(* handoff_write_v4.                                                       *)

\* Mutated: the latest of several entrants is as good as the only one.
ResolvedAny(s, p) == IF entrants[s][p] # {} THEN CHOOSE x \in entrants[s][p] : TRUE ELSE NoSession
\* An omitted session id resolves to the only session that ever entered the
\* packet in this process (server._current_specialist_session), else to "".
Resolved(s, p) == IF Cardinality(entrants[s][p]) = 1
                  THEN CHOOSE x \in entrants[s][p] : TRUE
                  ELSE NoSession

\* Any session of the app may write, whether or not it entered the packet; it
\* passes its own session id or omits it.
Write(s) == \E p \in Packets, x \in Sessions, omit \in BOOLEAN :
  /\ HomeOf[x] = s
  /\ Readable(p)
  /\ Begin(s, "write_lock",
           [Call(p, x) EXCEPT !.session = IF omit THEN Resolved(s, p) ELSE x])
  /\ UNCHANGED packetVars /\ UNCHANGED <<lock, record, entrants, cycle, restarts>>

\* Under the lock: withdrawn, closed (ECLOSED), not accepted (ESTATE), held by
\* another session (ESESSION) and badly formed payloads (EINVAL) are refused.
WriteLock(s) == LET p == arg[s].packet IN
  /\ pc[s] = "write_lock"
  /\ lock[p] = NoServer
  /\ \/ /\ Cur(p) = "working"
        /\ ~HeldByOther(p, arg[s].session)
        /\ Acquire(s, p)
        /\ Go(s, "write_link")
        /\ UNCHANGED arg
     \/ Return(s) /\ UNCHANGED lock
  /\ UNCHANGED packetVars /\ UNCHANGED <<record, entrants, cycle, restarts>>

\* Mutated: os.replace in the place of os.link.
LinkFailsNever(p) == FALSE
LinkFails(p) == handoff[p] # NoVerdict

\* _create_handoff_exclusive: os.link never replaces a handoff.json.
WriteLink(s) == LET p == arg[s].packet IN
  /\ pc[s] = "write_link"
  /\ IF LinkFails(p)
     THEN Return(s) /\ Release(s, p) /\ UNCHANGED handoff       \* ECLOSED
     ELSE /\ \E clean \in BOOLEAN :
               handoff' = [handoff EXCEPT ![p] =
                 [cycle |-> cycle[p], by |-> arg[s].caller, as |-> arg[s].session, clean |-> clean]]
          /\ Go(s, "write_closeout")
          /\ UNCHANGED <<lock, arg>>
  /\ UNCHANGED <<files, status, accepted, closeout, history, runner, record, entrants, cycle, restarts>>

\* Mutated: the closeout is not rendered.
WriteCloseoutSkipped(s) ==
  /\ pc[s] = "write_closeout"
  /\ Go(s, "write_status")
  /\ UNCHANGED packetVars /\ UNCHANGED <<lock, record, entrants, arg, cycle, restarts>>
WriteCloseout(s) == LET p == arg[s].packet IN
  /\ pc[s] = "write_closeout"
  /\ closeout' = [closeout EXCEPT ![p] = handoff[p]]
  /\ Go(s, "write_status")
  /\ UNCHANGED <<files, status, accepted, handoff, history, runner, lock, record,
                 entrants, arg, cycle, restarts>>

\* Mutated: the call returns without the status.
WriteStatusForgotten(s) ==
  /\ pc[s] = "write_status"
  /\ Release(s, arg[s].packet)
  /\ Return(s)
  /\ UNCHANGED packetVars /\ UNCHANGED <<record, entrants, cycle, restarts>>
WriteStatus(s) == LET p == arg[s].packet IN
  /\ pc[s] = "write_status"
  /\ SetStatus(p, "complete")
  /\ Release(s, p)
  /\ Return(s)
  /\ UNCHANGED <<files, accepted, handoff, closeout, history, runner, record, entrants, cycle, restarts>>

-----------------------------------------------------------------------------
(* The orchestrator's tools.                                               *)

\* verify_handoff reads the status, then the handoff, without the lock.
Verify(s) == \E p \in Packets :
  /\ s \in Desks
  /\ Readable(p) /\ status[p] = "complete"
  /\ Begin(s, "verify_read", Call(p, NoSession))
  /\ UNCHANGED packetVars /\ UNCHANGED <<lock, record, entrants, cycle, restarts>>

\* A missing handoff, one that is not clean, or a lint claim not measured
\* against the pin leaves the status alone.
VerifyRead(s) == LET p == arg[s].packet IN
  /\ pc[s] = "verify_read"
  /\ \/ /\ handoff[p] # NoVerdict /\ handoff[p].clean
        /\ Go(s, "verify_set") /\ UNCHANGED arg
     \/ Return(s)
  /\ UNCHANGED packetVars /\ UNCHANGED <<lock, record, entrants, cycle, restarts>>

\* dispatch_set_status takes the lock and does not look at the status again.
VerifySet(s) == LET p == arg[s].packet IN
  /\ pc[s] = "verify_set"
  /\ lock[p] = NoServer
  /\ SetStatus(p, "verified")
  /\ Return(s)
  /\ UNCHANGED <<files, accepted, handoff, closeout, history, runner, lock, record,
                 entrants, cycle, restarts>>

Clear(s) == \E p \in Packets, x \in SessionIds :
  /\ s \in Desks
  /\ cycle[p] < MaxCycles                      \* bound: the last cycle is not cleared
  /\ Readable(p)
  /\ Begin(s, "clear_lock", Call(p, x))
  /\ UNCHANGED packetVars /\ UNCHANGED <<lock, record, entrants, cycle, restarts>>

\* agent_clear: read, decide and write under one lock; the session, when the
\* caller names one, is set idle afterwards.
ClearLock(s) == LET p == arg[s].packet IN
  /\ pc[s] = "clear_lock"
  /\ lock[p] = NoServer
  /\ IF status[p] \in {"complete", "verified"}
     THEN /\ SetStatus(p, "cleared")
          /\ IF arg[s].session = NoSession THEN Return(s) ELSE Go(s, "clear_bind") /\ UNCHANGED arg
     ELSE UNCHANGED status /\ Return(s)
  /\ UNCHANGED <<files, accepted, handoff, closeout, history, runner, lock, record,
                 entrants, cycle, restarts>>

ClearBind(s) ==
  /\ pc[s] = "clear_bind"
  /\ Bind(arg[s].session, NoPacket, "idle")
  /\ Return(s)
  /\ UNCHANGED packetVars /\ UNCHANGED <<lock, entrants, cycle, restarts>>

Withdraw(s) == \E p \in Packets :
  /\ s \in Desks
  /\ Readable(p)
  /\ Begin(s, "withdraw_lock", Call(p, NoSession))
  /\ UNCHANGED packetVars /\ UNCHANGED <<lock, record, entrants, cycle, restarts>>

\* _sessions_bound_to, and the accepting session when it has no record yet.
BoundSessions(p) ==
  {x \in Sessions : \/ record[x] = [packet |-> p, status |-> "working"]
                    \/ accepted[p] = x /\ record[x].status = "absent"}

\* A working packet with bound sessions is EBUSY unless the orchestrator forces it.
WithdrawLock(s) == LET p == arg[s].packet IN
  /\ pc[s] = "withdraw_lock"
  /\ lock[p] = NoServer
  /\ \/ /\ Cur(p) \in {"pending", "working"}
        /\ \E force \in BOOLEAN :
             /\ Cur(p) = "working" /\ BoundSessions(p) # {} => force
             /\ arg' = [arg EXCEPT ![s].forced = Cur(p) = "working" /\ BoundSessions(p) # {},
                                   ![s].seen = Cur(p)]
        /\ Acquire(s, p)
        /\ Go(s, "withdraw_set")
     \/ /\ \/ Cur(p) \notin {"pending", "working"}
           \/ Cur(p) = "working" /\ BoundSessions(p) # {}
        /\ Return(s)
        /\ UNCHANGED lock
  /\ UNCHANGED packetVars /\ UNCHANGED <<record, entrants, cycle, restarts>>

WithdrawSet(s) == LET p == arg[s].packet IN
  /\ pc[s] = "withdraw_set"
  /\ SetStatus(p, "withdrawn")
  /\ Release(s, p)
  /\ Return(s)
  /\ UNCHANGED <<files, accepted, handoff, closeout, history, runner, record, entrants, cycle, restarts>>

-----------------------------------------------------------------------------
\* Mutated: the lock is a file that its dead holder leaves behind.
DropLocksNot(s) == UNCHANGED lock
DropLocks(s) == lock' = [p \in Packets |-> IF lock[p] = s THEN NoServer ELSE lock[p]]

\* The server process dies: its call, its flocks and its memory are gone.
Restart(s) ==
  /\ restarts < MaxRestarts
  /\ restarts' = restarts + 1
  /\ DropLocks(s)
  /\ entrants' = [entrants EXCEPT ![s] = [p \in Packets |-> {}]]
  /\ Return(s)
  /\ UNCHANGED packetVars /\ UNCHANGED <<record, cycle>>

\* The steps of a call under way.
Continue(s) ==
  \/ SendMeta(s) \/ SendAssignment(s) \/ SendStatus(s)
  \/ AcceptLock(s) \/ AcceptArchive(s) \/ AcceptArchiveCloseout(s)
  \/ AcceptStatus(s) \/ AcceptBind(s)
  \/ EnterRead(s) \/ EnterReread(s) \/ EnterBind(s)
  \/ WriteLock(s) \/ WriteLink(s) \/ WriteCloseout(s) \/ WriteStatus(s)
  \/ VerifyRead(s) \/ VerifySet(s)
  \/ ClearLock(s) \/ ClearBind(s)
  \/ WithdrawLock(s) \/ WithdrawSet(s)

Start(s) ==
  \/ SendMkdir(s) \/ Accept(s) \/ Enter(s) \/ EnterBare(s) \/ CloseSession(s)
  \/ Write(s) \/ Verify(s) \/ Clear(s) \/ Withdraw(s)

Next == \E s \in Servers : Start(s) \/ Continue(s) \/ Restart(s)

Spec == Init /\ [][Next]_vars

\* A call under way runs on; a blocked flock is granted to a waiter that keeps
\* finding the lock free (the kernel queues the waiters of a flock).
Fairness == \A s \in Servers : SF_vars(Continue(s))
FairSpec == Spec /\ Fairness

-----------------------------------------------------------------------------
(* Safety.                                                                 *)

\* The presented session id of the handoff on a packet is the one that
\* accepted it, whoever raced for the lock and whichever process died:
\* handoff_write_v4 refuses ESESSION, and a re-accept archives first.
VerdictOfHolder == \A p \in Packets :
  handoff[p] # NoVerdict => accepted[p] \in {NoSession, handoff[p].as}

\* A packet whose status says complete carries the handoff and the closeout of
\* the accept cycle it is in (handoff_write_v4 writes the status last).
CompleteHasVerdict == \A p \in Packets :
  status[p] = "complete" =>
    /\ handoff[p] # NoVerdict
    /\ handoff[p].cycle = cycle[p]
    /\ closeout[p] = handoff[p]

\* At most one verdict per accept cycle, counting the archived ones
\* (os.link in _create_handoff_exclusive, dispatch_accept's archive).
OneVerdictPerCycle == \A p \in Packets :
  /\ \A old, other \in history[p] : old[1].cycle = other[1].cycle => old = other
  /\ handoff[p] # NoVerdict => \A old \in history[p] : old[1].cycle # handoff[p].cycle

\* A handoff leaves handoff.json only into history/, and an archived handoff
\* stays: no verdict is overwritten or lost, a crash between two renames included.
VerdictNeverLost ==
  [][\A p \in Packets :
       /\ handoff[p] # NoVerdict =>
            \/ handoff'[p] = handoff[p]
            \/ \E old \in history'[p] : old[1] = handoff[p]
       /\ \A old \in history[p] : \E new \in history'[p] : new[1] = old[1]]_vars

\* Between calls, a packet that is working has no handoff yet, so the session
\* that accepted it can still close it, as long as no server has died
\* (handoff_write_v4 writes the status last and refuses a second handoff).
WorkingIsWritable == restarts = 0 => \A p \in Packets :
  status[p] = "working" /\ lock[p] = NoServer => handoff[p] = NoVerdict

\* dispatch_withdraw: withdrawn is terminal.
WithdrawnIsTerminal ==
  [][\A p \in Packets : status[p] = "withdrawn" => status'[p] = "withdrawn"]_vars

\* A session on record as an entrant of the packet in its server, held ones
\* included, writes the handoff only if it holds the packet: an omitted
\* session id is not resolved to somebody else's (D1, S2).
EntrantClosesOwn ==
  [][\A p \in Packets : handoff[p] = NoVerdict /\ handoff'[p] # NoVerdict =>
       LET x == handoff'[p].by IN
         x \in entrants[HomeOf[x]][p] => accepted[p] \in {NoSession, x}]_vars

\* A packet sent for one kind of runner is only ever accepted, and only ever
\* bound, by sessions of that kind (N1, G2: checked on accept and on re-entry).
RunnerRespected == \A p \in Packets, x \in Sessions :
  accepted[p] = x \/ record[x].packet = p => RunnerOf[x] = runner[p]

-----------------------------------------------------------------------------
(* The inductive invariant behind the safety properties.                   *)

\* A call under way is about a packet, a session_enter is a session's, and a
\* call in its locked part holds the lock.
CallInv == \A s \in Servers :
  /\ pc[s] # "idle" => arg[s].packet \in Packets
  /\ arg[s].entering => arg[s].session \in Sessions
  /\ pc[s] \in LockedSteps => lock[arg[s].packet] = s

\* dispatch_send is alone with its directory until status.json is there.
SendInv ==
  /\ \A s \in Servers : pc[s] \in SendSteps =>
       files[arg[s].packet] # "absent" /\ status[arg[s].packet] = "none"
  /\ \A s, t \in Servers :
       pc[s] \in SendSteps /\ pc[t] \in SendSteps /\ arg[s].packet = arg[t].packet => s = t
  /\ \A p \in Packets : files[p] = "absent" => status[p] = "none"

\* A packet nobody accepted has no holder, no verdict and no past.
UnclaimedInv == \A p \in Packets : status[p] \in {"none", "pending"} =>
  accepted[p] = NoSession /\ handoff[p] = NoVerdict /\ history[p] = {}

\* What a handler read under the lock still holds while it has the lock.
HandlerInv == \A s \in Servers : LET p == arg[s].packet IN
  /\ pc[s] \in {"accept_archive", "accept_archive_closeout"} => status[p] = "cleared"
  /\ pc[s] = "accept_status" =>
       status[p] \in {"none", "pending", "cleared"} /\ handoff[p] = NoVerdict
  /\ pc[s] = "accept_archive_closeout" => handoff[p] = NoVerdict
  /\ pc[s] \in {"write_link", "write_closeout", "write_status"} => status[p] = "working"
  /\ pc[s] = "write_link" => accepted[p] \in {NoSession, arg[s].session}
  /\ pc[s] \in {"write_closeout", "write_status"} => handoff[p] # NoVerdict
  /\ pc[s] = "write_status" => closeout[p] = handoff[p]

\* The handoff on a packet is of the cycle it is in; archived ones are of an
\* earlier cycle once the packet is working again.
CycleInv == \A p \in Packets :
  /\ handoff[p] # NoVerdict => handoff[p].cycle = cycle[p]
  /\ \A old \in history[p] : old[1].cycle \leq cycle[p]
  /\ status[p] = "working" => \A old \in history[p] : old[1].cycle < cycle[p]

Inductive ==
  /\ TypeOK /\ CallInv /\ SendInv /\ UnclaimedInv /\ HandlerInv /\ CycleInv
  /\ VerdictOfHolder /\ CompleteHasVerdict /\ OneVerdictPerCycle

-----------------------------------------------------------------------------
(* Liveness.                                                               *)

\* Every tool call returns: no handler waits for a lock its own call holds,
\* and a lock is never left behind (a dead holder's flock is released).
CallsReturn == \A s \in Servers : pc[s] # "idle" ~> pc[s] = "idle"

-----------------------------------------------------------------------------
(* What a reader of status.json sees: the atomic life cycle.               *)

Phase == [p \in Packets |-> IF status[p] = "none" THEN "unsent" ELSE status[p]]
Delivered == [p \in Packets |-> IF status[p] \in {"complete", "verified"}
                                THEN [as |-> handoff[p].as, clean |-> handoff[p].clean]
                                ELSE NoVerdict]
Lifecycle == INSTANCE PacketLifecycle
               WITH phase <- Phase, holder <- accepted, verdict <- Delivered
Implements == Lifecycle!Spec
=============================================================================
