-------------------------- MODULE EnvelopeRegister --------------------------
(***************************************************************************)
(* The authoring of envelopes (envelope_authoring.py), the retirement      *)
(* sweep (envelope_retire_sweep.py) and the trust owner's ratify and       *)
(* revoke (trust_owner_verbs.py).  Grants are rows of the register; the    *)
(* proposals and the refused ones are a second file, the sidecar; FRANK is *)
(* told what was done.  Every writer reads whole files, edits its copy and *)
(* replaces the file, without a lock: only sweeps exclude each other.      *)
(*                                                                         *)
(* On a single-uid box the broker and the operator's shell write both      *)
(* files.  On an installed box the register is signed and the trust        *)
(* owner's: the broker queues a request (Grants has the steps of that) and *)
(* a oneshot unit applies it, which cannot read the sidecar.               *)
(***************************************************************************)
EXTENDS Integers, Sequences

CONSTANTS
  Ids,                 \* of proposals, and of the envelopes they become
  Calls, Unit,         \* calls of brokers and shells; the apply unit
  Boxes,               \* the kinds of box, of "single" and "installed"
  Overlap,             \* the sets of operations whose calls may overlap
  MaxStops             \* bound: deaths, failed writes and appends

ASSUME EnvelopesAssumption ==
  /\ Ids # {} /\ Unit \notin Calls /\ Boxes \subseteq {"single", "installed"}
  /\ MaxStops \in Nat

VARIABLES
  box,
  register,            \* [Ids -> ]: the rows of each id, as they stand in active[]
  signature,           \* the register its .sig was made for
  sidecar,             \* proposals[] and archived[]
  frank,               \* the envelope events in FRANK
  queue,               \* requests the unit has not filed yet
  born,                \* the ids that were generated
  call,                \* [Calls, Unit -> ]: a call, the steps it still has, its copies
  stops

fileVars == <<register, signature, sidecar>>
envelopeVars == <<box, fileVars, frank, queue, born, call, stops>>

(* Mutated: FRANK is told and the proposal taken out before the register   *)
(* has the row.                                                            *)
RatifyInkFirst == <<"register", "sidecar", "saveSidecar", "ink", "saveRegister">>
RatifySteps == <<"register", "sidecar", "saveRegister", "saveSidecar", "ink">>

(* Mutated: the sweep writes back what it read before it had the lock.     *)
RetireStale == <<"register", "lock", "saveRegister", "ink">>
RetireSteps == <<"lock", "register", "saveRegister", "ink">>

Route ==
  [propose |-> <<"register", "sidecar", "saveSidecar", "ink">>,
   reject  |-> <<"register", "sidecar", "saveSidecar", "ink">>,
   list    |-> <<"register", "sidecar", "saveSidecar">>,
   ratify  |-> RatifySteps,
   revoke  |-> <<"register", "saveRegister">>,
   retire  |-> RetireSteps]

(* The unit signs its candidate, renames the .sig, then the content.       *)
UnitSteps == <<"register", "sign", "saveRegister", "ink", "file">>

Offered == IF box = "single" THEN DOMAIN Route ELSE {"propose", "reject", "list"}

Stages == {"lock", "register", "sidecar", "sign", "saveRegister", "saveSidecar",
           "ink", "file"}

Event == [propose |-> "proposed", reject |-> "rejected", ratify |-> "ratified",
          revoke |-> "revoked", retire |-> "revoked"]

Actors == Calls \union {Unit}
NoRows == [i \in Ids |-> <<>>]
Nothing == [pending |-> {}, archived |-> {}]
NoCall == [op |-> "none", id |-> CHOOSE i \in Ids : TRUE, todo |-> <<>>,
           rows |-> NoRows, side |-> Nothing]

EnvelopesInit ==
  /\ box \in Boxes
  /\ register = NoRows /\ signature = NoRows
  /\ sidecar = Nothing
  /\ frank = {} /\ queue = {} /\ born = {}
  /\ call = [a \in Actors |-> NoCall]
  /\ stops = 0

(* trusted_read: a signed register is read only with its signature.        *)
Readable == box = "single" \/ signature = register

Subjects(op) == CASE op = "propose" -> Ids \ born
                  [] op = "list" -> {NoCall.id}
                  [] OTHER -> born

(* A tool or a subcommand is called.                                       *)
BeginCall(c, op) ==
  /\ call[c].op = "none" /\ op \in Offered
  /\ \A d \in Calls : call[d].op # "none" => {op, call[d].op} \in Overlap
  /\ \E i \in Subjects(op) :
       /\ call' = [call EXCEPT ![c] = [NoCall EXCEPT !.op = op, !.id = i,
                                                    !.todo = Route[op]]]
       /\ born' = born \union {i}
  /\ UNCHANGED <<box, fileVars, frank, queue, stops>>

(* envelope_ratify on an installed box, or a sealed pair: the row of the   *)
(* proposal is copied from the sidecar and compared with FRANK.            *)
AskRatify(i) ==
  /\ box = "installed" /\ <<"ratify", i>> \notin queue
  /\ Readable /\ register[i] = <<>>
  /\ i \in sidecar.pending /\ <<"proposed", i>> \in frank
  /\ queue' = queue \union {<<"ratify", i>>}
  /\ UNCHANGED <<box, fileVars, frank, born, call, stops>>

AskRevoke(i) ==
  /\ box = "installed" /\ <<"revoke", i>> \notin queue
  /\ register[i] # <<>> /\ register[i][1] = "active"
  /\ queue' = queue \union {<<"revoke", i>>}
  /\ UNCHANGED <<box, fileVars, frank, born, call, stops>>

(* The timer starts the unit, which takes a request up.                    *)
TakeUp(op, i) ==
  /\ call[Unit].op = "none" /\ <<op, i>> \in queue
  /\ call' = [call EXCEPT ![Unit] = [NoCall EXCEPT !.op = op, !.id = i,
                                                  !.todo = UnitSteps]]
  /\ UNCHANGED <<box, fileVars, frank, queue, born, stops>>

(* What may overlap and do no harm: a sweep, with the calls that leave the *)
(* register alone and with a sweep, which waits for it.                    *)
WithSweeps == {{"retire", op} : op \in {"retire", "propose", "reject", "list"}}

(***************************************************************************)
(* The steps of a call.                                                    *)
(***************************************************************************)
At(a, s) == call[a].todo # <<>> /\ Head(call[a].todo) = s

Onward(k) == IF Len(k.todo) = 1 THEN NoCall ELSE [k EXCEPT !.todo = Tail(@)]

(* A refusal ends a call; the unit files the request as failed.            *)
Refused(a) == IF a = Unit THEN [NoCall EXCEPT !.op = call[a].op, !.id = call[a].id,
                                             !.todo = <<"file">>]
                          ELSE NoCall

(* Held until the sweep has inked; the kernel frees it if the sweep dies.  *)
LockRegister(a) ==
  /\ At(a, "lock")
  /\ \A b \in Actors : call[b].op = "retire" => At(b, "lock")
  /\ call' = [call EXCEPT ![a] = Onward(call[a])]
  /\ UNCHANGED <<box, fileVars, frank, queue, born, stops>>

(* Mutated: nothing looks for a row that is there already.                 *)
AlwaysFree(a, rows) == call[a].op \in {"revoke", "retire"} /\
                       (rows = <<>> \/ rows[1] = "revoked")

(* The unit ratifies an id once, withdrawing wants a first row in force.   *)
Void(a, rows) ==
  \/ a = Unit /\ call[a].op = "ratify" /\ rows # <<>>
  \/ call[a].op \in {"revoke", "retire"} /\ (rows = <<>> \/ rows[1] = "revoked")

ReadRegister(a) ==
  /\ At(a, "register")
  /\ call' = [call EXCEPT ![a] =
                IF ~Readable \/ Void(a, register[@.id]) THEN Refused(a)
                ELSE [Onward(@) EXCEPT !.rows = register]]
  /\ UNCHANGED <<box, fileVars, frank, queue, born, stops>>

Granted(rows) == {i \in Ids : rows[i] # <<>>}

(* No such proposal, or nothing to reconcile.                              *)
ReadSidecar(a) ==
  /\ At(a, "sidecar")
  /\ LET k == call[a]
         idle == \/ k.op \in {"reject", "ratify"} /\ k.id \notin sidecar.pending
                 \/ k.op = "list" /\ sidecar.pending \intersect Granted(k.rows) = {}
     IN call' = [call EXCEPT ![a] = IF idle THEN NoCall
                                    ELSE [Onward(k) EXCEPT !.side = sidecar]]
  /\ UNCHANGED <<box, fileVars, frank, queue, born, stops>>

(* Mutated: the row is marked with a status of its own.                    *)
Expired(k) ==
  IF k.op = "ratify" THEN [k.rows EXCEPT ![k.id] = Append(@, "active")]
                     ELSE [k.rows EXCEPT ![k.id][1] = k.op]

(* A row is appended, or the first row of the id is marked and kept.       *)
Edited(k) ==
  IF k.op = "ratify" THEN [k.rows EXCEPT ![k.id] = Append(@, "active")]
                     ELSE [k.rows EXCEPT ![k.id][1] = "revoked"]

Sign(a) ==
  /\ At(a, "sign")
  /\ signature' = Edited(call[a])
  /\ call' = [call EXCEPT ![a] = Onward(@)]
  /\ UNCHANGED <<box, register, sidecar, frank, queue, born, stops>>

SaveRegister(a) ==
  /\ At(a, "saveRegister")
  /\ register' = Edited(call[a])
  /\ call' = [call EXCEPT ![a] = Onward(@)]
  /\ UNCHANGED <<box, signature, sidecar, frank, queue, born, stops>>

(* Proposed, moved to archived[], or in the register by now.               *)
Sorted(k) ==
  CASE k.op = "propose" -> [k.side EXCEPT !.pending = @ \union {k.id}]
    [] k.op = "reject" -> [pending |-> k.side.pending \ {k.id},
                           archived |-> k.side.archived \union {k.id}]
    [] k.op = "ratify" -> [k.side EXCEPT !.pending = @ \ {k.id}]
    [] k.op = "list" -> [k.side EXCEPT !.pending = @ \ Granted(k.rows)]

SaveSidecar(a) ==
  /\ At(a, "saveSidecar")
  /\ sidecar' = Sorted(call[a])
  /\ call' = [call EXCEPT ![a] = Onward(@)]
  /\ UNCHANGED <<box, register, signature, frank, queue, born, stops>>

InkEvent(a) ==
  /\ At(a, "ink")
  /\ frank' = frank \union {<<Event[call[a].op], call[a].id>>}
  /\ call' = [call EXCEPT ![a] = Onward(@)]
  /\ UNCHANGED <<box, fileVars, queue, born, stops>>

(* An append that fails, or a shell without Postgres, is reported only.    *)
GoUninked(a) ==
  /\ stops < MaxStops /\ stops' = stops + 1
  /\ At(a, "ink")
  /\ call' = [call EXCEPT ![a] = Onward(@)]
  /\ UNCHANGED <<box, fileVars, frank, queue, born>>

(* done/ or failed/.                                                       *)
FileRequest ==
  /\ At(Unit, "file")
  /\ queue' = queue \ {<<call[Unit].op, call[Unit].id>>}
  /\ call' = [call EXCEPT ![Unit] = NoCall]
  /\ UNCHANGED <<box, fileVars, frank, born, stops>>

(* A death, or a write that fails; the unit files the latter as failed.    *)
Stop(a) ==
  /\ stops < MaxStops /\ stops' = stops + 1
  /\ call[a].op # "none"
  /\ \E end \in {NoCall, Refused(a)} : call' = [call EXCEPT ![a] = end]
  /\ UNCHANGED <<box, fileVars, frank, queue, born>>

StepOn(a) ==
  \/ LockRegister(a) \/ ReadRegister(a) \/ ReadSidecar(a) \/ Sign(a)
  \/ SaveRegister(a) \/ SaveSidecar(a) \/ InkEvent(a)

EnvelopesNext ==
  \/ \E c \in Calls, op \in DOMAIN Route : BeginCall(c, op)
  \/ \E i \in Ids : AskRatify(i) \/ AskRevoke(i)
                    \/ \E op \in {"ratify", "revoke"} : TakeUp(op, i)
  \/ \E a \in Actors : StepOn(a) \/ GoUninked(a) \/ Stop(a)
  \/ FileRequest

EnvelopesSpec == EnvelopesInit /\ [][EnvelopesNext]_envelopeVars

-----------------------------------------------------------------------------
(* Properties.                                                             *)

Register == [Ids -> Seq({"active", "revoked"})]
Sidecar == [pending : SUBSET Ids, archived : SUBSET Ids]

EnvelopesTypeOK ==
  /\ box \in Boxes
  /\ register \in Register /\ signature \in Register
  /\ sidecar \in Sidecar
  /\ frank \subseteq {"proposed", "rejected", "ratified", "revoked"} \X Ids
  /\ queue \subseteq {"ratify", "revoke"} \X Ids
  /\ born \subseteq Ids
  /\ call \in [Actors -> [op : DOMAIN Route \union {"none"}, id : Ids,
                          todo : Seq(Stages), rows : Register, side : Sidecar]]
  /\ stops \in 0..MaxStops

(* "Proposals queue in $WILLOW_HOME/proposals/ and are not lost" (ratify).  *)
ProposalsKept ==
  \A i \in Ids :
    <<"proposed", i>> \in frank =>
      i \in sidecar.pending \union sidecar.archived \union Granted(register)

(* "There is no window where FRANK says ratified and the register          *)
(* disagrees, and no window where the proposal is gone from the sidecar    *)
(* but never made it into the register" (ratify): where the calls that may *)
(* overlap leave each other's files alone, whatever stops half way, and on *)
(* an installed box also with the unit beside them, which grants an id in  *)
(* one row only (EnvelopeAuthority.check refuses an id with two).          *)
NoWindow ==
  /\ ProposalsKept
  /\ \A i \in Ids :
       /\ <<"ratified", i>> \in frank => register[i] # <<>>
       /\ box = "installed" => Len(register[i]) <= 1

(* "The row is marked in place and KEPT" (revoke), and a sweep writes no   *)
(* stale copy over another's retirement: rows never vanish, and a revoked  *)
(* one is never in force again.                                            *)
WithdrawnStands ==
  [][\A i \in Ids : \A n \in 1..Len(register[i]) :
       /\ n <= Len(register'[i])
       /\ register[i][n] = "revoked" => register'[i][n] = "revoked"]_envelopeVars
=============================================================================
