---------------------------- MODULE SealAuthority ----------------------------
(***************************************************************************)
(* Authority by seal (net_authority.py, net_signer.py, seal_drain.py,      *)
(* seal_handler.py, decision_bridge.py).  A seat asks: it puts a record in *)
(* the governance collection, drafts a decision pair in Nestor, links the  *)
(* two and, for a task, inserts a held row.  The operator seals or rejects *)
(* the pair.  A tick of net_authority takes sealed pairs to the signer and *)
(* releases rows and mints leases; a drain of seal_drain walks Nestor's    *)
(* ledger and marks the records of sealed decisions.                       *)
(*                                                                         *)
(* A step is one statement against Postgres, one call of the store, of     *)
(* nestor.db or of the signer, or one write of the offset.  Any number of  *)
(* ticks and drains may run at once (the steward's and one by hand).       *)
(* Sealed texts and envelopes are not modelled: every ask has a pair of    *)
(* its own (the question names its id), the sealed text is the ask's.      *)
(***************************************************************************)
EXTENDS Naturals, Sequences, FiniteSets

CONSTANTS
  Tasks,       \* asks for the network of one task
  Leases,      \* asks for a standing lease
  Rulings,     \* other governance records that are proposed
  Ticks,       \* processes that run net_authority's tick
  Steward,     \* the one of them that the steward runs again and again
  Watchers,    \* processes that run seal_drain
  NoAsk,
  Together,    \* bound: the asks made, one of these sets
  MaxRows,     \* rows one tick looks at
  MaxRecords,  \* records one drain handles
  MaxDeaths,   \* bound: deaths of any of these processes
  MaxMints     \* bound: lease files written for one ask

ASSUME AsksAssumption ==
  /\ Tasks \cap Leases = {} /\ (Tasks \cup Leases) \cap Rulings = {}
  /\ NoAsk \notin Tasks \cup Leases \cup Rulings
  /\ Ticks \cap Watchers = {} /\ Steward \in Ticks
ASSUME TogetherAssumption == Together \subseteq SUBSET (Tasks \cup Leases \cup Rulings)
ASSUME LimitsAssumption ==
  /\ MaxRows \in Nat \ {0} /\ MaxRecords \in Nat \ {0}
  /\ MaxDeaths \in Nat /\ MaxMints \in Nat

Asks == Tasks \cup Leases \cup Rulings

VARIABLES
  asking,  \* of each ask, how far the seat's call has come
  record,  \* of each ask, its record in the governance collection
  pair,    \* of each ask, its pair in nestor.db
  old,     \* the tasks asked for longer ago than HELD_MAX_AGE_S
  stale,   \* the asks whose seal the signer does not honour (age, key revoked)
  row,     \* of each task, its row in the queue
  mints,   \* of each lease, how often its file was written
  inked,   \* of each ask, what its receipts in FRANK say (refusals by age or by
           \* the signer are left out: no one reads them again)
  tick,    \* of each tick, where it is
  ledger,  \* the seals in Nestor's ledger
  torn,    \* the last line of it is still being written
  offset,  \* the lines the offset file counts as done
  drain,   \* of each drain, where it is
  handed,  \* lines that on_seal was called for (history)
  deaths

nestor  == <<pair, ledger, torn>>
vars == <<asking, record, nestor, old, stale, row, mints, inked, tick, offset, drain,
          handed, deaths>>

Ticking == [step : {"idle", "walk", "age", "call", "release", "reject", "expire", "mark",
                    "receipt", "flip"},
            half : {"tasks", "leases"},
            todo : SUBSET Asks,              \* rows or records yet to be looked at
            at   : Asks \cup {NoAsk},
            aged : SUBSET Tasks,             \* the rows too old at the time of the tick
            why  : {"none", "aged", "rejected", "minted"}]
Resting == [step |-> "idle", half |-> "tasks", todo |-> {}, at |-> NoAsk, aged |-> {},
            why |-> "none"]
Draining == [step : {"idle", "read", "write"}, from : Nat, next : Nat]

TypeOK ==
  /\ asking \in [Asks -> {"none", "put", "drafted", "linked", "done", "lost"}]
  /\ record \in [Asks -> [status : {"absent", "proposed", "sealed", "rejected", "minted"},
                          linked : BOOLEAN]]
  /\ pair \in [Asks -> {"none", "draft", "sealed", "rejected", "superseded"}]
  /\ old \subseteq Tasks /\ stale \subseteq Tasks \cup Leases
  /\ row \in [Tasks -> {"absent", "held", "pending", "failed"}]
  /\ mints \in [Leases -> Nat]
  /\ inked \in [Asks -> SUBSET {"rejected", "minted"}]
  /\ tick \in [Ticks -> Ticking]
  /\ ledger \in Seq(Asks)
  /\ torn \in BOOLEAN
  /\ offset \in 0..Len(ledger)
  /\ drain \in [Watchers -> Draining]
  /\ handed \subseteq 1..Len(ledger)
  /\ deaths \in Nat

Init ==
  /\ asking = [a \in Asks |-> "none"]
  /\ record = [a \in Asks |-> [status |-> "absent", linked |-> FALSE]]
  /\ pair = [a \in Asks |-> "none"]
  /\ old = {} /\ stale = {}
  /\ row = [t \in Tasks |-> "absent"]
  /\ mints = [l \in Leases |-> 0]
  /\ inked = [a \in Asks |-> {}]
  /\ tick = [k \in Ticks |-> Resting]
  /\ ledger = <<>>
  /\ torn = FALSE
  /\ offset = 0
  /\ drain = [w \in Watchers |-> [step |-> "idle", from |-> 0, next |-> 1]]
  /\ handed = {}
  /\ deaths = 0

-----------------------------------------------------------------------------
(* The seat: hold_and_propose, propose_lease, decision_bridge.propose.     *)

Asked(a, from, to) == asking[a] = from /\ asking' = [asking EXCEPT ![a] = to]
others == <<old, stale, mints, inked, tick, offset, drain, handed, deaths>>

Put(a) == /\ Asked(a, "none", "put")
          /\ \E T \in Together : {a} \cup {b \in Asks : asking[b] # "none"} \subseteq T
          /\ record' = [record EXCEPT ![a].status = "proposed"]
          /\ UNCHANGED <<nestor, row>> /\ UNCHANGED others

\* The draft is the one of this question, if there is one.
Draft(a) == /\ Asked(a, "put", "drafted")
            /\ pair' = [pair EXCEPT ![a] = IF @ = "none" THEN "draft" ELSE @]
            /\ UNCHANGED <<record, ledger, torn, row>> /\ UNCHANGED others

Link(a) == /\ Asked(a, "drafted", IF a \in Tasks THEN "linked" ELSE "done")
           /\ record' = [record EXCEPT ![a].linked = TRUE]
           /\ UNCHANGED <<nestor, row>> /\ UNCHANGED others

Insert(t) == /\ Asked(t, "linked", "done")
             /\ row' = [row EXCEPT ![t] = "held"]
             /\ UNCHANGED <<nestor, record>> /\ UNCHANGED others

\* The seat's server dies, or Nestor refuses.  A ruling can be proposed again by its record id; the
\* other calls mint a new id, which is another ask.
Lose(a) == /\ asking[a] \in {"put", "drafted", "linked"}
           /\ deaths < MaxDeaths
           /\ asking' = [asking EXCEPT ![a] = IF a \in Rulings THEN "put" ELSE "lost"]
           /\ deaths' = deaths + 1
           /\ UNCHANGED <<nestor, record, row, old, stale, mints, inked, tick, offset, drain,
                          handed>>

-----------------------------------------------------------------------------
(* The operator, Nestor and time.                                          *)

\* The pair is sealed in the database and its record begins in the ledger.
Seal(a) == /\ pair[a] = "draft"
           /\ ~torn
           /\ pair' = [pair EXCEPT ![a] = "sealed"]
           /\ ledger' = Append(ledger, a)
           /\ torn' = TRUE
           /\ UNCHANGED <<asking, record, row>> /\ UNCHANGED others

EndLine == /\ torn /\ torn' = FALSE
           /\ UNCHANGED <<asking, record, row, pair, ledger>> /\ UNCHANGED others

Reject(a) == /\ pair[a] = "draft"
             /\ pair' = [pair EXCEPT ![a] = "rejected"]
             /\ UNCHANGED <<asking, record, row, ledger, torn>> /\ UNCHANGED others

Supersede(a) == /\ pair[a] = "sealed"
                /\ pair' = [pair EXCEPT ![a] = "superseded"]
                /\ UNCHANGED <<asking, record, row, ledger, torn>> /\ UNCHANGED others

GrowOld(t) == /\ record[t].status # "absent" /\ t \notin old
              /\ old' = old \cup {t}
              /\ UNCHANGED <<asking, record, row, nestor, stale, mints, inked, tick, offset,
                             drain, handed, deaths>>

GoStale(a) == /\ pair[a] = "sealed" /\ a \notin stale \cup Rulings
              /\ stale' = stale \cup {a}
              /\ UNCHANGED <<asking, record, row, nestor, old, mints, inked, tick, offset,
                             drain, handed, deaths>>

-----------------------------------------------------------------------------
(* A tick of net_authority: drain, then drain_leases.                      *)

beside == <<asking, nestor, old, stale, offset, drain, handed, deaths>>
Asking(k) == tick[k].at
Goes(k, step) == tick' = [tick EXCEPT ![k] = [tick[k] EXCEPT !.step = step]]
GoesFor(k, step, a, why) == tick' = [tick EXCEPT ![k] = [tick[k] EXCEPT !.step = step, !.at = a,
                                                                        !.why = why]]
\* The next row or record.
Turns(k, a) == tick' = [tick EXCEPT ![k] = [tick[k] EXCEPT !.step = "walk", !.at = NoAsk,
                                                           !.why = "none",
                                                           !.todo = tick[k].todo \ {a}]]

Held == {t \in Tasks : row[t] = "held"}
Requests == {l \in Leases : record[l].status = "proposed" /\ record[l].linked}

\* Mutated: a held row waits forever.
TooOldNever(S) == {}
\* The rows of S held longer than held_max_age_s.
TooOld(S) == S \cap old

\* One SELECT, in no order, and the first max_rows of it.  The age of a row is
\* judged at this moment.
Begin(k) ==
  /\ tick[k].step = "idle"
  /\ \E S \in SUBSET Held :
       /\ S = Held \/ Cardinality(S) = MaxRows
       /\ Cardinality(S) <= MaxRows
       /\ S \cup Requests # {}
       /\ tick' = [tick EXCEPT ![k] = [Resting EXCEPT !.step = "walk", !.todo = S,
                                                      !.aged = TooOld(S)]]
  /\ UNCHANGED beside /\ UNCHANGED <<record, row, mints, inked>>

BeginLeases(k) ==
  /\ tick[k].step = "walk" /\ tick[k].half = "tasks" /\ tick[k].todo = {}
  /\ tick' = [tick EXCEPT ![k] = [tick[k] EXCEPT !.half = "leases", !.todo = Requests]]
  /\ UNCHANGED beside /\ UNCHANGED <<record, row, mints, inked>>

End(k) ==
  /\ tick[k].step = "walk" /\ tick[k].half = "leases" /\ tick[k].todo = {}
  /\ tick' = [tick EXCEPT ![k] = Resting]
  /\ UNCHANGED beside /\ UNCHANGED <<record, row, mints, inked>>

\* The record, the age of a row, then the pair.
Look(k, a) ==
  /\ tick[k].step = "walk" /\ a \in tick[k].todo
  /\ \/ /\ record[a].linked /\ a \in tick[k].aged
        /\ GoesFor(k, "expire", a, "aged")
     \/ /\ record[a].linked /\ a \notin tick[k].aged /\ pair[a] = "rejected"
        /\ GoesFor(k, IF a \in Tasks THEN "receipt" ELSE "mark", a, "rejected")
     \/ /\ record[a].linked /\ a \notin tick[k].aged /\ pair[a] = "sealed"
        /\ GoesFor(k, "call", a, "none")
     \/ /\ ~record[a].linked \/ (a \notin tick[k].aged /\ pair[a] \in {"none", "draft", "superseded"})
        /\ Turns(k, a)
  /\ UNCHANGED beside /\ UNCHANGED <<record, row, mints, inked>>

\* nestor.db is not to be read.
Blind(k, a) ==
  /\ tick[k].step = "walk" /\ a \in tick[k].todo
  /\ record[a].linked /\ a \notin tick[k].aged
  /\ Turns(k, a)
  /\ UNCHANGED beside /\ UNCHANGED <<record, row, mints, inked>>

\* The signer verifies the seal.  It signs an envelope, or writes the lease file
\* itself; a refusal of a lease is in the tick's own receipt only.  A task is refused
\* too when the envelope does not verify for its row.
Sign(k) == LET a == Asking(k) IN
  /\ tick[k].step = "call"
  /\ \/ /\ a \in Tasks \/ a \in stale
        /\ Turns(k, a)
        /\ UNCHANGED mints
     \/ /\ a \notin stale /\ a \in Tasks
        /\ GoesFor(k, "release", a, "minted")
        /\ UNCHANGED mints
     \/ /\ a \notin stale /\ a \in Leases
        /\ mints[a] < MaxMints
        /\ mints' = [mints EXCEPT ![a] = @ + 1]
        /\ GoesFor(k, "flip", a, "minted")
  /\ UNCHANGED beside /\ UNCHANGED <<record, row, inked>>

\* The socket is down, or the reply comes too late: the file may be written.
Miss(k) == LET a == Asking(k) IN
  /\ tick[k].step = "call"
  /\ Turns(k, a)
  /\ \/ UNCHANGED mints
     \/ /\ a \in Leases \ stale /\ mints[a] < MaxMints
        /\ mints' = [mints EXCEPT ![a] = @ + 1]
  /\ UNCHANGED beside /\ UNCHANGED <<record, row, inked>>

\* Mutated: the UPDATE finds the row by task_id alone.
StillHeldAlways(t) == TRUE
\* The condition of the UPDATEs of _release and _expire.
StillHeld(t) == row[t] = "held"

\* Mutated: the count of updated rows is not looked at.
ReleaseBlind(k) == LET t == Asking(k) IN
  /\ tick[k].step = "release"
  /\ row' = IF StillHeld(t) THEN [row EXCEPT ![t] = "pending"] ELSE row
  /\ Goes(k, "receipt")
  /\ UNCHANGED beside /\ UNCHANGED <<record, mints, inked>>

\* The envelope is attached and the row goes to the workers.
Release(k) == LET t == Asking(k) IN
  /\ tick[k].step = "release"
  /\ \/ /\ StillHeld(t)
        /\ row' = [row EXCEPT ![t] = "pending"]
        /\ Goes(k, "receipt")
     \/ /\ ~StillHeld(t)
        /\ Turns(k, t)
        /\ UNCHANGED row
  /\ UNCHANGED beside /\ UNCHANGED <<record, mints, inked>>

\* _ink, which may fail; a rejected row is expired after it.
Ink(k) == LET a == Asking(k) IN
  /\ tick[k].step = "receipt"
  /\ inked' \in {inked, [inked EXCEPT ![a] = @ \cup {tick[k].why}]}
  /\ IF tick[k].why = "rejected" THEN Goes(k, "expire") ELSE Turns(k, a)
  /\ UNCHANGED beside /\ UNCHANGED <<record, row, mints>>

Expire(k) == LET t == Asking(k) IN
  /\ tick[k].step = "expire"
  /\ row' = IF StillHeld(t) THEN [row EXCEPT ![t] = "failed"] ELSE row
  /\ IF tick[k].why = "rejected" THEN Goes(k, "mark") ELSE Turns(k, t)
  /\ UNCHANGED beside /\ UNCHANGED <<record, mints, inked>>

\* The record of a rejected ask, and that of a minted lease.
Mark(k) == LET a == Asking(k) IN
  /\ tick[k].step = "mark"
  /\ record' = [record EXCEPT ![a].status = "rejected"]
  /\ Turns(k, a)
  /\ UNCHANGED beside /\ UNCHANGED <<row, mints, inked>>

Flip(k) == LET l == Asking(k) IN
  /\ tick[k].step = "flip"
  /\ record' = [record EXCEPT ![l].status = "minted"]
  /\ Goes(k, "receipt")
  /\ UNCHANGED beside /\ UNCHANGED <<row, mints, inked>>

DieTick(k) ==
  /\ tick[k].step # "idle"
  /\ deaths < MaxDeaths
  /\ deaths' = deaths + 1
  /\ tick' = [tick EXCEPT ![k] = Resting]
  /\ UNCHANGED <<asking, record, nestor, old, stale, row, mints, inked, offset, drain, handed>>

-----------------------------------------------------------------------------
(* A drain of seal_drain.                                                  *)

aside == <<asking, nestor, old, stale, row, mints, inked, tick, deaths>>

\* Mutated: a line without its end is read like any other.
CompleteAll == Len(ledger)
\* readline gives a line without its end while it is being written.
Complete == IF torn THEN Len(ledger) - 1 ELSE Len(ledger)

BeginDrain(w) ==
  /\ drain[w].step = "idle"
  /\ offset < Len(ledger)
  /\ drain' = [drain EXCEPT ![w] = [step |-> "read", from |-> offset, next |-> offset + 1]]
  /\ UNCHANGED aside /\ UNCHANGED <<record, offset, handed>>

\* Mutated: the record of a lease request is sealed like any other.
OwnedElsewhere(a) == FALSE
\* The record of a lease request is drain_leases' own.
Owned(a) == a \in Leases

\* on_seal: the record that carries the pair, if there is one by now.  Nothing
\* else writes a record whose pair is sealed, so reading and writing it is one step.
Upgraded(a) == IF record[a].linked /\ ~Owned(a) THEN [record EXCEPT ![a].status = "sealed"]
               ELSE record

\* Half a line is no JSON.
Broken(i) == torn /\ i = Len(ledger)

\* A malformed line is counted and passed over, and so is the answer "error" of a
\* broken store.
Handle(w) == LET i == drain[w].next IN
  /\ drain[w].step = "read"
  /\ i <= Complete /\ i <= drain[w].from + MaxRecords
  /\ IF Broken(i) THEN UNCHANGED <<record, handed>>
     ELSE /\ record' \in {record, Upgraded(ledger[i])}
          /\ handed' = handed \cup {i}
  /\ drain' = [drain EXCEPT ![w].next = i + 1]
  /\ UNCHANGED aside /\ UNCHANGED offset

Stop(w) == /\ drain[w].step = "read"
           /\ drain[w].next > Complete \/ drain[w].next > drain[w].from + MaxRecords
           /\ drain' = [drain EXCEPT ![w].step = "write"]
           /\ UNCHANGED aside /\ UNCHANGED <<record, offset, handed>>

\* Mutated: one line too far.
SavedPast(w) == drain[w].next
\* The lines read, the one without an end not among them.
Saved(w) == drain[w].next - 1

WriteOffset(w) == /\ drain[w].step = "write"
                  /\ offset' = Saved(w)
                  /\ drain' = [drain EXCEPT ![w] = [step |-> "idle", from |-> 0, next |-> 1]]
                  /\ UNCHANGED aside /\ UNCHANGED <<record, handed>>

DieDrain(w) ==
  /\ drain[w].step # "idle"
  /\ deaths < MaxDeaths
  /\ deaths' = deaths + 1
  /\ drain' = [drain EXCEPT ![w] = [step |-> "idle", from |-> 0, next |-> 1]]
  /\ UNCHANGED <<asking, record, nestor, old, stale, row, mints, inked, tick, offset, handed>>

-----------------------------------------------------------------------------
Seat(a)     == Put(a) \/ Draft(a) \/ Link(a) \/ Lose(a)
Operator(a) == Seal(a) \/ Reject(a) \/ Supersede(a) \/ GoStale(a)
Act(k) == Sign(k) \/ Release(k) \/ Ink(k) \/ Expire(k) \/ Mark(k) \/ Flip(k)
Walk(k) == BeginLeases(k) \/ End(k) \/ Act(k)

Next == \/ \E a \in Asks : Seat(a) \/ Operator(a)
        \/ \E t \in Tasks : Insert(t) \/ GrowOld(t)
        \/ EndLine
        \/ \E k \in Ticks : \/ Begin(k) \/ Walk(k) \/ Miss(k) \/ DieTick(k)
                            \/ \E a \in Asks : Look(k, a) \/ Blind(k, a)
        \/ \E w \in Watchers : \/ BeginDrain(w) \/ Handle(w) \/ Stop(w) \/ WriteOffset(w)
                               \/ DieDrain(w)

Spec == Init /\ [][Next]_vars

\* The steward's tick is run again and again and finishes, tasks grow old, and
\* nestor.db and the signer answer now and then.  A tick by hand may stay anywhere.
Fairness ==
  /\ \A t \in Tasks : WF_vars(GrowOld(t))
  /\ WF_vars(Begin(Steward)) /\ WF_vars(Walk(Steward) \/ Miss(Steward))
  /\ \A a \in Tasks \cup Leases : WF_vars(Look(Steward, a) \/ Blind(Steward, a))
  /\ \A l \in Leases : /\ SF_vars(Look(Steward, l))
                       /\ SF_vars(Asking(Steward) = l /\ Sign(Steward))

FairSpec == Spec /\ Fairness

-----------------------------------------------------------------------------
(* Properties.                                                             *)

\* Whatever ticks race and die, a row that left "held" stays what it became, and
\* it is given to the workers only on a pair the operator sealed.
RowsEndOnce ==
  [][\A t \in Tasks : /\ row[t] \in {"pending", "failed"} => row'[t] = row[t]
                      /\ row'[t] = "pending" => pair[t] \in {"sealed", "superseded"}]_vars

\* FRANK says of a task what happened: a minted receipt stands for a released
\* row, the receipt of a rejection for one that is not released.
ReceiptsAgree == \A t \in Tasks : /\ "minted" \in inked[t] => row[t] = "pending"
                                  /\ "rejected" \in inked[t] => row[t] # "pending"

\* The record of an ask says what became of its pair; that of a lease request is
\* never "sealed" (drain_leases: "it NEVER shows ``sealed``").
RecordsAgree ==
  \A a \in Asks : /\ record[a].status = "sealed" => a \notin Leases /\ pair[a] \in {"sealed", "superseded"}
                  /\ record[a].status = "rejected" => pair[a] = "rejected"
                  /\ record[a].status = "minted" => a \in Leases /\ mints[a] > 0

\* The offset never passes a seal that was not handed to on_seal, however drains
\* die or overlap (seal_drain: "the offset is written only after every record in
\* the batch has been handed to the handler").
NoSealSkipped == 1..offset \subseteq handed

\* A held row is released or fails: it "does not wait forever" (drain).
HeldRowsEnd == \A t \in Tasks : row[t] = "held" ~> row[t] # "held"

\* The lease of a sealed request is minted, unless its seal is worth nothing any
\* more or was superseded.
LeasesEnd == \A l \in Leases : record[l].linked /\ pair[l] = "sealed"
                                 ~> mints[l] > 0 \/ l \in stale \/ pair[l] = "superseded"

\* A request is minted once ("the record flips to ``minted`` so it is never sent
\* twice", drain_leases).
LeaseMintedOnce == \A l \in Leases : mints[l] <= 1
=============================================================================
