------------------------------- MODULE Grants -------------------------------
(***************************************************************************)
(* manifest.grant (manifest_grant_executor.py): a sealed pair's permission *)
(* groups reach the seats' manifests in two halves that share no process.  *)
(* The broker's request writes pending/<pair>.json, cites, signs and       *)
(* writes again, under a lock file it may have to take from a dead holder. *)
(* A oneshot unit drains pending/: it judges the record afresh, grants one *)
(* group at a time, undoes all of them when one fails, inks the receipts   *)
(* and files the record under done/ or failed/.  The orchestrator may put  *)
(* a failed record back.  Either process may die between any two steps,    *)
(* and the operator edits manifests and clears done/ by hand meanwhile.    *)
(*                                                                         *)
(* A manifest's digest is the set of groups it holds.  The seal, the       *)
(* escalation list and the registry, which no step here changes, are left  *)
(* out: a pair is one they let through.                                    *)
(***************************************************************************)
EXTENDS Integers, SequencesExt, FiniteSets

CONSTANTS
  Pairs, Callers,      \* sealed pairs; calls of manifest_grant_request
  Seats, Groups,
  Apps,                \* the seats a pair names, in the order they are granted
  Wanted,               \* the groups it grants to each of them
  Manifests,           \* what the seats' manifests may hold at first
  MayReclaim,          \* whether a lock may be old enough to be taken over
  Nobody, NoFile,      \* no holder of a lock; no file of a name
  MaxFaults, MaxEdits  \* bounds: deaths, failed writes and lost files; hand edits

ASSUME GrantsAssumption ==
  /\ Pairs # {} /\ Apps \in [Pairs -> Seq(Seats)]
  /\ Wanted \in [Pairs -> Seq(Groups)]
  /\ Manifests \subseteq [Seats -> SUBSET Groups]
  /\ MayReclaim \in BOOLEAN
  /\ MaxFaults \in Nat /\ MaxEdits \in Nat

VARIABLES
  lock,                \* [Pairs -> ]: who wrote pending/<pair>.lock
  pc, about, draft,    \* [Callers -> ]: where a request is, its pair, its record
  cites,               \* the granted citations in FRANK: the pair each one names
  pending, done, failed,
  held,                \* [Seats -> ]: the groups in each manifest
  receipts,            \* manifest_granted events: the citation and the seat
  unit,                \* the apply unit: its step, pair, record, work and verdict
  retry,               \* the orchestrator's manifest_grant_retry
  faults, edits,
  live,                \* history: the groups in force that a pair's apply granted
  cut                 \* history: pairs whose apply was cut short or undid in part

askVars == <<lock, pc, about, draft, cites>>
dirVars == <<pending, done, failed>>
seatVars == <<held, live, cut>>
bounds == <<faults, edits>>
grantVars == <<askVars, dirVars, seatVars, receipts, unit, retry, bounds>>

Retryable == {"EUNREACH", "ecorrupt", "eunexpected"}

Errors == Retryable \union {"eforged", "edrift", "eperm", ""}
Record == [cite : Nat, pre : [Seats -> SUBSET Groups]]
Filing == [cite : Nat, pre : [Seats -> SUBSET Groups], error : Errors]

ASSUME FileAssumption == NoFile \notin Record /\ NoFile \notin Filing

Working == [at : {"rest", "listed", "judge", "seat", "grant", "undo", "ink", "fail", "unlink"},
            pair : Pairs, req : Record,
            seats : Seq(Seats), groups : Seq(Groups), added : SUBSET Groups,
            granted : Seq(Seats \X Groups), owed : SUBSET Seats, error : Errors]
Retrying == [at : {"idle", "read", "queued"}, pair : Pairs, req : Record]

Blank == [cite |-> 0, pre |-> [s \in Seats |-> {}]]
UnitAtRest == [at |-> "rest", pair |-> CHOOSE p \in Pairs : TRUE, req |-> Blank,
            seats |-> <<>>, groups |-> <<>>, added |-> {},
            granted |-> <<>>, owed |-> {}, error |-> ""]

Filed(req, error) == [cite |-> req.cite, pre |-> req.pre, error |-> error]

GrantsInit ==
  /\ lock = [p \in Pairs |-> Nobody]
  /\ pc = [c \in Callers |-> "idle"]
  /\ about \in [Callers -> Pairs]
  /\ draft = [c \in Callers |-> Blank]
  /\ cites = <<>>
  /\ pending = [p \in Pairs |-> NoFile]
  /\ done = pending
  /\ failed = pending
  /\ held \in Manifests
  /\ receipts = {}
  /\ unit = UnitAtRest
  /\ retry = [at |-> "idle", pair |-> UnitAtRest.pair, req |-> Blank]
  /\ faults = 0 /\ edits = 0
  /\ live = {}
  /\ cut = {}

(***************************************************************************)
(* The request.                                                            *)
(***************************************************************************)
Steps(c, from, to) == pc[c] = from /\ pc' = [pc EXCEPT ![c] = to]

(* os.open(O_CREAT | O_EXCL) succeeds.                                     *)
Acquire(c) ==
  /\ \/ Steps(c, "idle", "locked")
     \/ Steps(c, "vacated", "locked")
  /\ lock[about[c]] = Nobody
  /\ lock' = [lock EXCEPT ![about[c]] = c]
  /\ UNCHANGED <<dirVars, seatVars, about, draft, cites, receipts, unit,
                 retry, bounds>>

(* The lock is there: the caller answers EALREADY, or judges it abandoned  *)
(* because its pid is dead (and it is ten minutes old).                    *)
JudgeLock(c) ==
  /\ LET d == lock[about[c]] IN
       /\ d # Nobody
       /\ \/ Steps(c, "idle", "refused")
          \/ Steps(c, "vacated", "refused")
          \/ MayReclaim /\ pc[d] = "dead" /\ Steps(c, "idle", "stale")
  /\ UNCHANGED <<dirVars, seatVars, lock, about, draft, cites, receipts,
                 unit, retry, bounds>>

(* lock_path.rename(reclaim_path) moves whatever file has the name now.    *)
Vacate(c) ==
  /\ IF lock[about[c]] = Nobody THEN Steps(c, "stale", "refused")
                                ELSE Steps(c, "stale", "vacated")
  /\ lock' = [lock EXCEPT ![about[c]] = Nobody]
  /\ UNCHANGED <<dirVars, seatVars, about, draft, cites, receipts, unit,
                 retry, bounds>>

Status(p) == IF pending[p] # NoFile THEN "pending"
             ELSE IF done[p] # NoFile THEN "done"
             ELSE IF failed[p] # NoFile THEN "failed" ELSE "none"

(* One request per pair, and the manifests as they are now.                *)
Vet(c) ==
  LET p == about[c] IN
  /\ \/ /\ Status(p) # "none" /\ Steps(c, "locked", "refusing")
        /\ UNCHANGED draft
     \/ /\ Status(p) = "none" /\ Steps(c, "locked", "vetted")
        /\ draft' = [draft EXCEPT ![c].pre = held]
  /\ UNCHANGED <<dirVars, seatVars, lock, about, cites, receipts, unit,
                 retry, bounds>>

(* The write that comes before the citation.                               *)
WriteFirst(c) ==
  /\ Steps(c, "vetted", "written")
  /\ pending' = [pending EXCEPT ![about[c]] = draft[c]]
  /\ UNCHANGED <<seatVars, lock, about, draft, cites, done, failed,
                 receipts, unit, retry, bounds>>

CiteSecond(c) ==
  /\ Steps(c, "written", "cited")
  /\ cites' = Append(cites, about[c])
  /\ draft' = [draft EXCEPT ![c].cite = Len(cites')]
  /\ UNCHANGED <<dirVars, seatVars, lock, about, receipts, unit, retry,
                 bounds>>

(* authorize_and_cite refuses: the request is taken out of pending/.       *)
CiteRefused(c) ==
  /\ Steps(c, "written", "refusing")
  /\ pending' = [pending EXCEPT ![about[c]] = NoFile]
  /\ draft' = [draft EXCEPT ![c] = Blank]
  /\ UNCHANGED <<seatVars, lock, about, cites, done, failed,
                 receipts, unit, retry, bounds>>

(* broker_sig over the citation, and the second write.                     *)
SignLast(c) ==
  /\ Steps(c, "cited", "queued")
  /\ pending' = [pending EXCEPT ![about[c]] = draft[c]]
  /\ draft' = [draft EXCEPT ![c] = Blank]
  /\ UNCHANGED <<seatVars, lock, about, cites, done, failed,
                 receipts, unit, retry, bounds>>

(* finally: lock_path.unlink(missing_ok=True), whoever wrote it.           *)
Unlock(c) ==
  /\ Steps(c, "queued", "ok") \/ Steps(c, "refusing", "refused")
  /\ lock' = [lock EXCEPT ![about[c]] = Nobody]
  /\ UNCHANGED <<dirVars, seatVars, about, draft, cites, receipts, unit,
                 retry, bounds>>

(* SIGKILL or the OOM killer: the lock file stays.                         *)
CallerDies(c) ==
  /\ faults < MaxFaults /\ faults' = faults + 1
  /\ pc[c] \in {"locked", "vetted", "written", "cited", "queued", "refusing"}
  /\ pc' = [pc EXCEPT ![c] = "dead"]
  /\ draft' = [draft EXCEPT ![c] = Blank]
  /\ UNCHANGED <<dirVars, seatVars, lock, about, cites, receipts,
                 unit, retry, edits>>

(***************************************************************************)
(* The apply unit.                                                         *)
(***************************************************************************)
List(p) ==
  /\ unit.at = "rest" /\ pending[p] # NoFile
  /\ unit' = [UnitAtRest EXCEPT !.at = "listed", !.pair = p]
  /\ UNCHANGED <<askVars, dirVars, seatVars, receipts, retry, bounds>>

(* A file gone since the listing is filed as ecorrupt.                     *)
Read ==
  /\ unit.at = "listed"
  /\ unit' = IF pending[unit.pair] = NoFile
             THEN [unit EXCEPT !.at = "fail", !.error = "ecorrupt"]
             ELSE [unit EXCEPT !.at = "judge", !.req = pending[unit.pair]]
  /\ UNCHANGED <<askVars, dirVars, seatVars, receipts, retry, bounds>>

(* The broker's signature, and a granted citation of this pair.            *)
Genuine(req, p) == req.cite # 0 /\ cites[req.cite] = p

(* Mutated: only done/ is asked.                                           *)
SpentInDone(cite) == \E p \in Pairs : done[p] # NoFile /\ done[p].cite = cite

(* done/ first, then FRANK's own events.                                   *)
Spent(cite) ==
  \/ \E p \in Pairs : done[p] # NoFile /\ done[p].cite = cite
  \/ \E r \in receipts : r[1] = cite

Drifted(req, p) == \E s \in ToSet(Apps[p]) : req.pre[s] # held[s]

Verdict(req, p) ==
  IF ~Genuine(req, p) \/ Spent(req.cite) THEN "eforged"
  ELSE IF Drifted(req, p) THEN "edrift" ELSE ""

(* The refusals in their order, or, at the last two, EUNREACH: the ledger  *)
(* cannot be asked, or no gpg-agent answers.                               *)
Judge ==
  /\ unit.at = "judge"
  /\ LET v == Verdict(unit.req, unit.pair) IN
     \/ unit' = IF v # "" THEN [unit EXCEPT !.at = "fail", !.error = v]
                ELSE [unit EXCEPT !.at = "seat", !.seats = Apps[unit.pair]]
     \/ /\ unit.req.cite # 0
        /\ unit' = [unit EXCEPT !.at = "fail", !.error = "EUNREACH"]
  /\ UNCHANGED <<askVars, dirVars, seatVars, receipts, retry, bounds>>

(* _apply_one_seat begins: the groups this seat lacks are the ones to add.  *)
EnterSeat ==
  /\ unit.at = "seat" /\ unit.seats # <<>>
  /\ unit' = [unit EXCEPT !.at = "grant", !.groups = Wanted[unit.pair],
                          !.added = ToSet(Wanted[unit.pair]) \ held[Head(unit.seats)]]
  /\ UNCHANGED <<askVars, dirVars, seatVars, receipts, retry, bounds>>

GrantGroup ==
  /\ unit.at = "grant" /\ unit.groups # <<>> /\ Head(unit.groups) \in unit.added
  /\ LET s == Head(unit.seats)  g == Head(unit.groups) IN
       /\ held' = [held EXCEPT ![s] = @ \union {g}]
       /\ live' = live \union {<<unit.pair, s, g>>}
       /\ unit' = [unit EXCEPT !.groups = Tail(@),
                               !.granted = Append(@, <<s, g>>)]
  /\ UNCHANGED <<askVars, dirVars, receipts, retry, bounds, cut>>

PassGroup ==
  /\ unit.at = "grant" /\ unit.groups # <<>> /\ Head(unit.groups) \notin unit.added
  /\ unit' = [unit EXCEPT !.groups = Tail(@)]
  /\ UNCHANGED <<askVars, dirVars, seatVars, receipts, retry, bounds>>

(* Mutated: the receipt of a seat is inked when its groups are there.      *)
LeaveSeatInked ==
  /\ unit.at = "grant" /\ unit.groups = <<>>
  /\ unit' = [unit EXCEPT !.at = "seat", !.seats = Tail(@)]
  /\ receipts' = receipts \union {<<unit.req.cite, Head(unit.seats)>>}
  /\ UNCHANGED <<askVars, dirVars, seatVars, retry, bounds>>

LeaveSeat ==
  /\ unit.at = "grant" /\ unit.groups = <<>>
  /\ unit' = [unit EXCEPT !.at = "seat", !.seats = Tail(@)]
  /\ UNCHANGED <<askVars, dirVars, seatVars, receipts, retry, bounds>>

(* set_permission raises: an OSError is eperm, the rest eunexpected.       *)
GrantFails ==
  /\ unit.at = "grant" /\ unit.groups # <<>> /\ Head(unit.groups) \in unit.added
  /\ \E e \in {"eperm", "eunexpected"} :
       unit' = [unit EXCEPT !.at = "undo", !.error = e]
  /\ UNCHANGED <<askVars, dirVars, seatVars, receipts, retry, bounds>>

(* _revoke_groups and _rollback_seat, the last group granted first.        *)
UndoGroup ==
  /\ unit.at = "undo" /\ unit.granted # <<>>
  /\ LET it == Last(unit.granted) IN
       /\ unit' = [unit EXCEPT !.granted = Front(@)]
       /\ \/ /\ held' = [held EXCEPT ![it[1]] = @ \ {it[2]}]
             /\ live' = {l \in live : <<l[2], l[3]>> # it}
             /\ UNCHANGED cut
          \/ /\ cut' = cut \union {unit.pair}
             /\ UNCHANGED <<held, live>>
  /\ UNCHANGED <<askVars, dirVars, receipts, retry, bounds>>

(* Mutated: only the groups of the seat that failed are revoked.           *)
UndoneHere ==
  /\ unit.at = "undo"
  /\ unit.granted # <<>> => Last(unit.granted)[1] # Head(unit.seats)
  /\ unit' = [unit EXCEPT !.at = "fail"]
  /\ UNCHANGED <<askVars, dirVars, seatVars, receipts, retry, bounds>>

Undone ==
  /\ unit.at = "undo" /\ unit.granted = <<>>
  /\ unit' = [unit EXCEPT !.at = "fail"]
  /\ UNCHANGED <<askVars, dirVars, seatVars, receipts, retry, bounds>>

(* Mutated: a receipt per group.                                           *)
AllGrantedEach ==
  /\ unit.at = "seat" /\ unit.seats = <<>>
  /\ unit' = [unit EXCEPT !.at = "ink", !.owed = ToSet(unit.granted)]
  /\ UNCHANGED <<askVars, dirVars, seatVars, receipts, retry, bounds>>

(* Only when every seat has its groups are the receipts owed.              *)
AllGranted ==
  /\ unit.at = "seat" /\ unit.seats = <<>>
  /\ unit' = [unit EXCEPT !.at = "ink",
                          !.owed = {it[1] : it \in ToSet(unit.granted)}]
  /\ UNCHANGED <<askVars, dirVars, seatVars, receipts, retry, bounds>>

(* One receipt per changed seat; an append that fails is noted and passed. *)
InkReceipt ==
  /\ unit.at = "ink"
  /\ \E s \in unit.owed :
       /\ unit' = [unit EXCEPT !.owed = @ \ {s}]
       /\ \/ receipts' = receipts \union {<<unit.req.cite, s>>}
          \/ UNCHANGED receipts
  /\ UNCHANGED <<askVars, dirVars, seatVars, retry, bounds>>

(* _move writes the destination ...                                        *)
FileDone ==
  /\ unit.at = "ink" /\ unit.owed = {}
  /\ done' = [done EXCEPT ![unit.pair] = Filed([Blank EXCEPT !.cite = unit.req.cite], "")]
  /\ unit' = [unit EXCEPT !.at = "unlink"]
  /\ UNCHANGED <<askVars, seatVars, pending, failed, receipts, retry, bounds>>

(* ... or raises, which the drain files as eunexpected ...                 *)
FileDoneFails ==
  /\ faults < MaxFaults /\ faults' = faults + 1
  /\ unit.at = "ink" /\ unit.owed = {}
  /\ unit' = [unit EXCEPT !.at = "fail", !.error = "eunexpected"]
  /\ cut' = cut \union {unit.pair}
  /\ UNCHANGED <<askVars, dirVars, held, receipts, retry, live, edits>>

FileFailed ==
  /\ unit.at = "fail"
  /\ failed' = [failed EXCEPT ![unit.pair] = Filed(unit.req, unit.error)]
  /\ unit' = [unit EXCEPT !.at = "unlink"]
  /\ UNCHANGED <<askVars, seatVars, pending, done, receipts, retry, bounds>>

(* Mutated: what failed stays in pending/ for another try.                 *)
UnlinkDone ==
  /\ unit.at = "unlink"
  /\ pending' = IF unit.error = "" THEN [pending EXCEPT ![unit.pair] = NoFile] ELSE pending
  /\ unit' = UnitAtRest
  /\ UNCHANGED <<askVars, seatVars, done, failed, receipts, retry, bounds>>

(* ... and then unlinks the pending file, whatever it holds by now.        *)
Unlink ==
  /\ unit.at = "unlink"
  /\ pending' = [pending EXCEPT ![unit.pair] = NoFile]
  /\ unit' = UnitAtRest
  /\ UNCHANGED <<askVars, seatVars, done, failed, receipts, retry, bounds>>

UnitDies ==
  /\ faults < MaxFaults /\ faults' = faults + 1
  /\ unit.at # "rest"
  /\ unit' = UnitAtRest
  /\ cut' = IF unit.granted # <<>> THEN cut \union {unit.pair} ELSE cut
  /\ UNCHANGED <<askVars, dirVars, held, receipts, retry, live, edits>>

(***************************************************************************)
(* manifest_grant_retry, and the operator's hand.                          *)
(***************************************************************************)
RetryReads(p) ==
  /\ retry.at = "idle"
  /\ failed[p] # NoFile /\ failed[p].error \in Retryable
  /\ pending[p] = NoFile /\ done[p] = NoFile
  /\ retry' = [at |-> "read", pair |-> p,
               req |-> [cite |-> failed[p].cite, pre |-> failed[p].pre]]
  /\ UNCHANGED <<askVars, dirVars, seatVars, receipts, unit, bounds>>

RetryQueues ==
  /\ retry.at = "read"
  /\ pending' = [pending EXCEPT ![retry.pair] = retry.req]
  /\ retry' = [retry EXCEPT !.at = "queued", !.req = Blank]
  /\ UNCHANGED <<askVars, seatVars, done, failed, receipts, unit, bounds>>

RetryUnlinks ==
  /\ retry.at = "queued"
  /\ failed' = [failed EXCEPT ![retry.pair] = NoFile]
  /\ retry' = [at |-> "idle", pair |-> UnitAtRest.pair, req |-> Blank]
  /\ UNCHANGED <<askVars, seatVars, pending, done, receipts, unit, bounds>>

(* allow-permission and deny-permission at the operator's shell.           *)
EditManifest(s, g) ==
  /\ edits < MaxEdits /\ edits' = edits + 1
  /\ \/ /\ g \notin held[s] /\ UNCHANGED live
        /\ held' = [held EXCEPT ![s] = @ \union {g}]
     \/ /\ g \in held[s]
        /\ held' = [held EXCEPT ![s] = @ \ {g}]
        /\ live' = {l \in live : l[2] # s \/ l[3] # g}
  /\ UNCHANGED <<askVars, dirVars, receipts, unit, retry, cut, faults>>

(* done/ deleted out from under the unit.                                  *)
LoseDone(p) ==
  /\ faults < MaxFaults /\ faults' = faults + 1
  /\ done[p] # NoFile
  /\ done' = [done EXCEPT ![p] = NoFile]
  /\ cut' = cut \union {p}
  /\ UNCHANGED <<askVars, pending, failed, held, live, receipts, unit, retry, edits>>

Request(c) ==
  \/ Acquire(c) \/ JudgeLock(c) \/ Vacate(c) \/ Vet(c) \/ WriteFirst(c)
  \/ CiteSecond(c) \/ CiteRefused(c) \/ SignLast(c) \/ Unlock(c)

Apply ==
  \/ \E p \in Pairs : List(p)
  \/ Read \/ Judge \/ EnterSeat \/ GrantGroup \/ PassGroup \/ LeaveSeat \/ GrantFails
  \/ UndoGroup \/ Undone \/ AllGranted \/ InkReceipt \/ FileDone
  \/ FileFailed \/ Unlink

GrantsNext ==
  \/ \E c \in Callers : Request(c) \/ CallerDies(c)
  \/ Apply \/ FileDoneFails \/ UnitDies
  \/ \E p \in Pairs : RetryReads(p) \/ LoseDone(p)
  \/ RetryQueues \/ RetryUnlinks
  \/ \E s \in Seats, g \in Groups : EditManifest(s, g)

GrantsSpec == GrantsInit /\ [][GrantsNext]_grantVars

GrantsFair == GrantsSpec /\ WF_grantVars(Apply)

-----------------------------------------------------------------------------
(* Properties.                                                             *)

Busy(p) == unit.at # "rest" /\ unit.pair = p

GrantsTypeOK ==
  /\ lock \in [Pairs -> Callers \union {Nobody}]
  /\ pc \in [Callers -> {"idle", "stale", "vacated", "locked", "vetted", "written",
                         "cited", "queued", "refusing", "ok", "refused", "dead"}]
  /\ about \in [Callers -> Pairs]
  /\ draft \in [Callers -> Record]
  /\ cites \in Seq(Pairs)
  /\ pending \in [Pairs -> Record \union {NoFile}]
  /\ done \in [Pairs -> Filing \union {NoFile}]
  /\ failed \in [Pairs -> Filing \union {NoFile}]
  /\ held \in [Seats -> SUBSET Groups]
  /\ receipts \subseteq Nat \X Seats
  /\ unit \in Working
  /\ retry \in Retrying
  /\ faults \in 0..MaxFaults /\ edits \in 0..MaxEdits
  /\ live \subseteq Pairs \X Seats \X Groups
  /\ cut \subseteq Pairs

(* A citation grants once: nothing is added to a manifest under one that a *)
(* done/ entry or a manifest_granted event names, whichever of the two is  *)
(* lost, and whatever died, was put back or was revoked by hand since (the *)
(* REPLAY checks of _apply_one).                                           *)
SpentNeverGrants ==
  [][GrantGroup => /\ \A p \in Pairs : done[p] # NoFile => done[p].cite # unit.req.cite
                   /\ \A r \in receipts : r[1] # unit.req.cite]_grantVars

(* "A failure on seat n, group g rolls back every group": a pair reported  *)
(* failed, whose apply neither died nor failed to undo, left no group in   *)
(* force on any seat.                                                      *)
AllOrNothing ==
  \A p \in Pairs \ cut :
    Status(p) = "failed" /\ ~Busy(p) => \A l \in live : l[1] # p

(* "A receipt for a grant this same call undid is never inked."            *)
ReceiptsStand == [][UndoGroup => \A r \in receipts : r[1] # unit.req.cite]_grantVars

(* What was asked for leaves pending/: the timer keeps starting the unit.  *)
Drains == \A p \in Pairs : pending[p] # NoFile ~> pending[p] = NoFile
=============================================================================
