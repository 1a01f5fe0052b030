------------------------- MODULE SealAuthorityProofs -------------------------
(***************************************************************************)
(* Proofs about SealAuthority, for any asks, ticks, drains and bounds: any *)
(* number of ticks and drains, however they interleave and die.            *)
(*                                                                         *)
(* What the receipts and the records say rests on what a tick carries from *)
(* one of its steps to the next (TickTrue): the pair it acts on was sealed,*)
(* or rejected, and a pair never leaves either but to be superseded; the   *)
(* row whose release it is about to ink is the one its own UPDATE changed. *)
(* That no seal is skipped rests on each drain having handed over every    *)
(* line before its next one, wherever it began (DrainsTrue).               *)
(***************************************************************************)
EXTENDS SealAuthority, TLAPS, SequenceTheorems

(* The type of a record, and of the pairs.                                 *)
Records == [status : {"absent", "proposed", "sealed", "rejected", "minted"}, linked : BOOLEAN]
Pairing == [Asks -> {"none", "draft", "sealed", "rejected", "superseded"}]

(* The steps of a tick, and the reasons it has for them.                   *)
Steps == {"idle", "walk", "age", "call", "release", "reject", "expire", "mark", "receipt",
          "flip"}
Reasons == {"none", "aged", "rejected", "minted"}

(* What a tick does to its own state keeps its type.                       *)
LEMMA TickUpdates ==
  ASSUME tick \in [Ticks -> Ticking], NEW k \in Ticks
  PROVE  /\ \A s \in Steps : Goes(k, s) => tick' \in [Ticks -> Ticking]
         /\ \A s \in Steps, a \in Asks \cup {NoAsk}, w \in Reasons :
              GoesFor(k, s, a, w) => tick' \in [Ticks -> Ticking]
         /\ \A a : Turns(k, a) => tick' \in [Ticks -> Ticking]
<1>1. tick[k] \in Ticking
  OBVIOUS
<1>2. ASSUME NEW s \in Steps PROVE [tick[k] EXCEPT !.step = s] \in Ticking
  BY <1>1 DEF Ticking, Steps
<1>3. ASSUME NEW s \in Steps, NEW a \in Asks \cup {NoAsk}, NEW w \in Reasons
      PROVE  [tick[k] EXCEPT !.step = s, !.at = a, !.why = w] \in Ticking
  BY <1>1 DEF Ticking, Steps, Reasons
<1>4. ASSUME NEW a
      PROVE  [tick[k] EXCEPT !.step = "walk", !.at = NoAsk, !.why = "none",
                             !.todo = tick[k].todo \ {a}] \in Ticking
  BY <1>1 DEF Ticking
<1>5. ASSUME NEW n \in Ticking, tick' = [tick EXCEPT ![k] = n] PROVE tick' \in [Ticks -> Ticking]
  BY <1>5
<1> QED BY <1>2, <1>3, <1>4, <1>5 DEF Goes, GoesFor, Turns

(* The steps of a seat's call keep the types.                              *)
LEMMA AskerType ==
  ASSUME TypeOK, NEW a \in Asks, Put(a) \/ Draft(a) \/ Link(a) \/ Lose(a)
  PROVE  TypeOK'
<1> USE DEF Asked, nestor, others
<1>1. CASE Put(a)
  BY <1>1 DEF TypeOK, Put
<1>2. CASE Draft(a)
  BY <1>2 DEF TypeOK, Draft
<1>3. CASE Link(a)
  BY <1>3 DEF TypeOK, Link
<1>4. CASE Lose(a)
  BY <1>4 DEF TypeOK, Lose
<1> QED BY <1>1, <1>2, <1>3, <1>4

(* So do those of the operator, of Nestor and of time.                     *)
LEMMA OperatorType ==
  ASSUME TypeOK, NEW a \in Asks,
         Operator(a) \/ EndLine \/ (a \in Tasks /\ (Insert(a) \/ GrowOld(a)))
  PROVE  TypeOK'
<1> USE DEF Asked, nestor, others
<1>1. CASE Seal(a)
  BY <1>1, AppendProperties DEF TypeOK, Seal
<1>2. CASE Reject(a)
  BY <1>2 DEF TypeOK, Reject
<1>3. CASE Supersede(a)
  BY <1>3 DEF TypeOK, Supersede
<1>4. CASE GoStale(a)
  BY <1>4 DEF TypeOK, GoStale, Asks
<1>5. CASE EndLine
  BY <1>5 DEF TypeOK, EndLine
<1>6. CASE a \in Tasks /\ Insert(a)
  BY <1>6 DEF TypeOK, Insert
<1>7. CASE a \in Tasks /\ GrowOld(a)
  BY <1>7 DEF TypeOK, GrowOld
<1> QED BY <1>1, <1>2, <1>3, <1>4, <1>5, <1>6, <1>7 DEF Operator

(* A step of a tick that gives values of their types to what it changes    *)
(* keeps the types of all.                                                 *)
LEMMA TickType ==
  ASSUME TypeOK, tick' \in [Ticks -> Ticking],
         record' \in [Asks -> Records],
         row' \in [Tasks -> {"absent", "held", "pending", "failed"}],
         mints' \in [Leases -> Nat], inked' \in [Asks -> SUBSET {"rejected", "minted"}],
         deaths' \in Nat, UNCHANGED <<asking, nestor, old, stale, offset, drain, handed>>
  PROVE  TypeOK'
  BY DEF TypeOK, nestor, Records

(* What a tick may rely on at each of its steps.                           *)
TickTrue(n) ==
  /\ n.step \in {"call", "release", "flip"}
       => n.at \in Asks /\ pair[n.at] \in {"sealed", "superseded"}
  /\ n.step \in {"release", "flip"} => n.why = "minted"
  /\ n.step = "flip" => n.at \in Leases /\ mints[n.at] > 0
  /\ n.step = "mark" => n.why = "rejected"
  /\ n.why = "rejected" => n.at \in Asks /\ pair[n.at] = "rejected"
  /\ n.step = "receipt" => n.why \in {"rejected", "minted"}
  /\ n.step = "receipt" /\ n.why = "minted" /\ n.at \in Tasks => row[n.at] = "pending"
TicksTrue == \A k \in Ticks : TickTrue(tick[k])

(* Every step of a tick keeps the types.                                   *)
LEMMA TickActs ==
  ASSUME TypeOK, TicksTrue, NEW k \in Ticks,
         \/ Begin(k) \/ Walk(k) \/ Miss(k) \/ DieTick(k)
         \/ \E a \in Asks : Look(k, a) \/ Blind(k, a)
  PROVE  TypeOK'
<1> USE DEF beside, nestor
<1>0. /\ tick \in [Ticks -> Ticking] /\ tick[k] \in Ticking /\ record \in [Asks -> Records]
      /\ row \in [Tasks -> {"absent", "held", "pending", "failed"}]
      /\ mints \in [Leases -> Nat] /\ inked \in [Asks -> SUBSET {"rejected", "minted"}]
      /\ deaths \in Nat /\ deaths + 1 \in Nat
      /\ Leases \subseteq Asks /\ Tasks \subseteq Asks
  BY DEF TypeOK, Records, Asks
<1>s. /\ Resting \in Ticking /\ tick[k].at \in Asks \cup {NoAsk} /\ tick[k].todo \subseteq Asks
      /\ \A a \in Asks : a \in Asks \cup {NoAsk}
  BY <1>0 DEF Resting, Ticking
<1>t. {"receipt", "call", "release", "flip", "mark", "expire"} \subseteq Steps
  BY DEF Steps
<1>u. {"none", "aged", "rejected", "minted"} \subseteq Reasons
  BY DEF Reasons
<1>a. CASE Begin(k)
  <2>1. PICK S \in SUBSET Held :
          tick' = [tick EXCEPT ![k] = [Resting EXCEPT !.step = "walk", !.todo = S,
                                                      !.aged = TooOld(S)]]
    BY <1>a DEF Begin
  <2>2. S \in SUBSET Asks /\ TooOld(S) \in SUBSET Tasks
    BY <1>0 DEF Held, TooOld
  <2>3. [Resting EXCEPT !.step = "walk", !.todo = S, !.aged = TooOld(S)] \in Ticking
    BY <1>s, <2>2 DEF Ticking
  <2>4. tick' \in [Ticks -> Ticking]
    BY <2>1, <2>3, <1>0
  <2> QED BY <1>a, <2>4, <1>0, TickType DEF Begin
<1>b. CASE BeginLeases(k)
  <2>1. [tick[k] EXCEPT !.half = "leases", !.todo = Requests] \in Ticking
    BY <1>0 DEF Requests, Ticking
  <2>2. tick' \in [Ticks -> Ticking]
    BY <1>b, <2>1, <1>0 DEF BeginLeases
  <2> QED BY <1>b, <2>2, <1>0, TickType DEF BeginLeases
<1>c. CASE End(k) \/ DieTick(k)
  <2>1. tick' \in [Ticks -> Ticking]
    BY <1>c, <1>0, <1>s DEF End, DieTick
  <2> QED BY <1>c, <2>1, <1>0, TickType DEF End, DieTick
<1>d. ASSUME NEW a \in Asks, Look(k, a) PROVE TypeOK'
  <2>1. tick' \in [Ticks -> Ticking]
    BY <1>d, <1>0, <1>s, <1>t, <1>u, TickUpdates DEF Look
  <2> QED BY <1>d, <2>1, <1>0, TickType DEF Look
<1>e. ASSUME NEW a \in Asks, Blind(k, a) PROVE TypeOK'
  <2>1. tick' \in [Ticks -> Ticking]
    BY <1>e, <1>0, <1>s, <1>t, <1>u, TickUpdates DEF Blind
  <2> QED BY <1>e, <2>1, <1>0, TickType DEF Blind
<1>f. CASE Sign(k)
  <2>1. tick' \in [Ticks -> Ticking]
    BY <1>f, <1>0, <1>s, <1>t, <1>u, TickUpdates DEF Sign, Asking
  <2>2. mints' \in [Leases -> Nat]
    BY <1>f, <1>0 DEF Sign
  <2> QED BY <1>f, <2>1, <2>2, <1>0, TickType DEF Sign
<1>g. CASE Release(k)
  <2>1. tick' \in [Ticks -> Ticking]
    BY <1>g, <1>0, <1>s, <1>t, <1>u, TickUpdates DEF Release
  <2>2. row' \in [Tasks -> {"absent", "held", "pending", "failed"}]
    BY <1>g, <1>0 DEF Release
  <2> QED BY <1>g, <2>1, <2>2, <1>0, TickType DEF Release
<1>h. CASE Ink(k)
  <2>1. tick' \in [Ticks -> Ticking]
    BY <1>h, <1>0, <1>s, <1>t, <1>u, TickUpdates DEF Ink
  <2>2. inked' \in [Asks -> SUBSET {"rejected", "minted"}]
    BY <1>h, <1>0 DEF Ink, TicksTrue, TickTrue
  <2> QED BY <1>h, <2>1, <2>2, <1>0, TickType DEF Ink
<1>i. CASE Expire(k)
  <2>1. tick' \in [Ticks -> Ticking]
    BY <1>i, <1>0, <1>s, <1>t, <1>u, TickUpdates DEF Expire
  <2>2. row' \in [Tasks -> {"absent", "held", "pending", "failed"}]
    BY <1>i, <1>0 DEF Expire
  <2> QED BY <1>i, <2>1, <2>2, <1>0, TickType DEF Expire
<1>j. CASE Mark(k)
  <2>1. tick' \in [Ticks -> Ticking]
    BY <1>j, <1>0, <1>s, <1>t, <1>u, TickUpdates DEF Mark
  <2>2. record' \in [Asks -> Records]
    BY <1>j, <1>0 DEF Mark, Records
  <2> QED BY <1>j, <2>1, <2>2, <1>0, TickType DEF Mark
<1>k. CASE Flip(k)
  <2>1. tick' \in [Ticks -> Ticking]
    BY <1>k, <1>0, <1>s, <1>t, <1>u, TickUpdates DEF Flip
  <2>2. record' \in [Asks -> Records]
    BY <1>k, <1>0 DEF Flip, Records
  <2> QED BY <1>k, <2>1, <2>2, <1>0, TickType DEF Flip
<1>l. CASE Miss(k)
  <2>1. tick' \in [Ticks -> Ticking]
    BY <1>l, <1>0, <1>s, <1>t, <1>u, TickUpdates DEF Miss
  <2>2. mints' \in [Leases -> Nat]
    BY <1>l, <1>0 DEF Miss
  <2> QED BY <1>l, <2>1, <2>2, <1>0, TickType DEF Miss
<1> QED
  BY <1>a, <1>b, <1>c, <1>d, <1>e, <1>f, <1>g, <1>h, <1>i, <1>j, <1>k, <1>l DEF Walk, Act

(* What a drain has passed it has handed over.                             *)
DrainsTrue ==
  \A w \in Watchers : /\ drain[w].next >= 1 /\ drain[w].next - 1 <= Len(ledger)
                      /\ 1..(drain[w].next - 1) \subseteq handed

(* A step of one drain that hands over what it passes keeps the types, and *)
(* the handing over of all.                                                *)
LEMMA DrainStep ==
  ASSUME TypeOK, DrainsTrue, NoSealSkipped, NEW w \in Watchers,
         NEW n \in Draining, drain' = [drain EXCEPT ![w] = n],
         NEW m \in Nat, n.next = m + 1, m <= Len(ledger), 1..m \subseteq handed',
         offset' \in 0..Len(ledger), 1..offset' \subseteq handed',
         handed \subseteq handed', handed' \subseteq 1..Len(ledger),
         record' \in [Asks -> Records], deaths' \in Nat,
         UNCHANGED <<asking, nestor, old, stale, row, mints, inked, tick>>
  PROVE  TypeOK' /\ DrainsTrue' /\ NoSealSkipped'
<1>1. drain' \in [Watchers -> Draining]
  BY DEF TypeOK
<1>2. TypeOK'
  BY <1>1 DEF TypeOK, Records, nestor
<1>3. n.next >= 1 /\ n.next - 1 = m
  OBVIOUS
<1>4. ASSUME NEW v \in Watchers
      PROVE  /\ drain'[v].next >= 1 /\ drain'[v].next - 1 <= Len(ledger)
             /\ 1..(drain'[v].next - 1) \subseteq handed'
  <2>1. CASE v = w
    <3>1. drain'[v] = n
      BY <2>1 DEF TypeOK
    <3> QED BY <3>1, <1>3
  <2>2. CASE v # w
    <3>1. drain'[v] = drain[v]
      BY <2>2 DEF TypeOK
    <3> QED BY <3>1 DEF DrainsTrue
  <2> QED BY <2>1, <2>2
<1>5. ledger' = ledger
  BY DEF nestor
<1>6. DrainsTrue'
  BY <1>4, <1>5 DEF DrainsTrue
<1> QED BY <1>2, <1>6 DEF NoSealSkipped

(* Every step of a drain is such a step.                                   *)
LEMMA DrainActs ==
  ASSUME TypeOK, DrainsTrue, NoSealSkipped, NEW w \in Watchers,
         BeginDrain(w) \/ Handle(w) \/ Stop(w) \/ WriteOffset(w) \/ DieDrain(w)
  PROVE  TypeOK' /\ DrainsTrue' /\ NoSealSkipped'
<1> USE DEF aside
<1>0. /\ drain \in [Watchers -> Draining] /\ offset \in 0..Len(ledger) /\ Len(ledger) \in Nat
      /\ handed \subseteq 1..Len(ledger) /\ deaths \in Nat /\ ledger \in Seq(Asks)
      /\ record \in [Asks -> Records] /\ drain[w] \in Draining
      /\ drain[w].next \in Nat /\ drain[w].from \in Nat
      /\ deaths + 1 \in Nat
  BY LenProperties DEF TypeOK, Records, Draining
<1>s. 1..offset \subseteq handed
  BY DEF NoSealSkipped
<1>i. /\ [step |-> "idle", from |-> 0, next |-> 1] \in Draining
      /\ [step |-> "idle", from |-> 0, next |-> 1].next = 0 + 1
      /\ 0 \in Nat /\ 0 <= Len(ledger) /\ 1..0 \subseteq handed
  BY <1>0 DEF Draining
<1>n. PICK m \in Nat : /\ drain[w].next = m + 1 /\ m <= Len(ledger)
                       /\ 1..m \subseteq handed
  <2> DEFINE j == drain[w].next - 1
  <2>1. drain[w].next >= 1 /\ j <= Len(ledger) /\ 1..j \subseteq handed
    BY DEF DrainsTrue
  <2>2. j \in Nat /\ drain[w].next = j + 1
    BY <1>0, <2>1
  <2> HIDE DEF j
  <2> QED BY <2>1, <2>2
<1>a. CASE BeginDrain(w)
  <2> DEFINE n == [step |-> "read", from |-> offset, next |-> offset + 1]
  <2>1. n \in Draining /\ n.next = offset + 1 /\ offset \in Nat /\ offset <= Len(ledger)
    BY <1>0 DEF Draining
  <2>2. /\ drain' = [drain EXCEPT ![w] = n]
        /\ UNCHANGED <<asking, nestor, old, stale, row, mints, inked, tick, deaths, record, offset,
                       handed>>
    BY <1>a DEF BeginDrain
  <2> HIDE DEF n
  <2> QED BY <2>1, <2>2, <1>0, <1>s, DrainStep
<1>b. CASE Handle(w)
  <2> DEFINE i == drain[w].next  n == [drain[w] EXCEPT !.next = i + 1]
  <2>1. i \in 1..Len(ledger) /\ ~Broken(i) /\ i = m + 1
    BY <1>b, <1>0, <1>n DEF Handle, Complete, Broken, TypeOK
  <2>a. ledger[i] \in Asks
    BY <2>1, <1>0
  <2>2. handed' = handed \cup {i} /\ record' \in {record, Upgraded(ledger[i])}
    BY <1>b, <2>1 DEF Handle
  <2>3. record' \in [Asks -> Records]
    BY <2>2, <2>a, <1>0 DEF Upgraded, Records
  <2>4. n \in Draining /\ n.next = i + 1 /\ i \in Nat /\ i <= Len(ledger)
    <3>1. \A d \in Draining, j \in Nat :
            [d EXCEPT !.next = j] \in Draining /\ [d EXCEPT !.next = j].next = j
      BY DEF Draining
    <3>2. i \in Nat /\ i + 1 \in Nat /\ i <= Len(ledger)
      BY <2>1, <1>0
    <3> HIDE DEF i
    <3> QED BY <3>1, <3>2, <1>0
  <2>5. 1..i = 1..m \cup {i}
    BY <2>1, <1>n
  <2>6. 1..i \subseteq handed' /\ handed' \subseteq 1..Len(ledger) /\ 1..offset \subseteq handed'
    BY <2>1, <2>2, <2>5, <1>0, <1>n, <1>s
  <2>7. /\ drain' = [drain EXCEPT ![w] = n]
        /\ UNCHANGED <<asking, nestor, old, stale, row, mints, inked, tick, deaths, offset>>
    BY <1>b DEF Handle
  <2> HIDE DEF n, i
  <2> QED BY <2>2, <2>3, <2>4, <2>6, <2>7, <1>0, DrainStep
<1>c. CASE Stop(w)
  <2> DEFINE n == [drain[w] EXCEPT !.step = "write"]
  <2>1. n \in Draining /\ n.next = drain[w].next
    BY <1>0 DEF Draining
  <2>2. /\ drain' = [drain EXCEPT ![w] = n]
        /\ UNCHANGED <<asking, nestor, old, stale, row, mints, inked, tick, deaths, record, offset,
                       handed>>
    BY <1>c DEF Stop
  <2> HIDE DEF n
  <2> QED BY <2>1, <2>2, <1>0, <1>n, <1>s, DrainStep
<1>d. CASE WriteOffset(w)
  <2> DEFINE n == [step |-> "idle", from |-> 0, next |-> 1]
  <2>1. Saved(w) = m
    BY <1>n DEF Saved
  <2>2. offset' = m /\ drain' = [drain EXCEPT ![w] = n]
        /\ UNCHANGED <<asking, nestor, old, stale, row, mints, inked, tick, deaths, record, handed>>
    BY <1>d, <2>1 DEF WriteOffset
  <2>3. n \in Draining /\ n.next = 0 + 1
    BY <1>i
  <2>4. m \in 0..Len(ledger)
    BY <1>0, <1>n
  <2> HIDE DEF n
  <2> QED BY <2>2, <2>3, <2>4, <1>0, <1>i, <1>n, DrainStep
<1>e. CASE DieDrain(w)
  <2> DEFINE n == [step |-> "idle", from |-> 0, next |-> 1]
  <2>2. deaths' = deaths + 1 /\ drain' = [drain EXCEPT ![w] = n]
        /\ UNCHANGED <<asking, nestor, old, stale, row, mints, inked, tick, record, offset, handed>>
    BY <1>e DEF DieDrain, nestor
  <2>3. n \in Draining /\ n.next = 0 + 1
    BY <1>i
  <2> HIDE DEF n
  <2> QED BY <2>2, <2>3, <1>0, <1>i, <1>s, DrainStep
<1> QED BY <1>a, <1>b, <1>c, <1>d, <1>e

(* A row is there when its call has come to the end, and goes to the workers *)
(* on a sealed pair only.                                                  *)
RowsTrue ==
  \A t \in Tasks : /\ row[t] = "pending" => pair[t] \in {"sealed", "superseded"}
                   /\ row[t] # "absent" => asking[t] = "done"

(* What the receipts of a task stand for.                                  *)
InkTrue ==
  \A t \in Tasks : /\ "minted" \in inked[t] => row[t] = "pending"
                   /\ "rejected" \in inked[t] => pair[t] = "rejected"

(* Every pair in the ledger was sealed.                                    *)
LedgerTrue == \A i \in 1..Len(ledger) : pair[ledger[i]] \in {"sealed", "superseded"}

(* The strengthening of the records and the receipts.                      *)
Truth == TicksTrue /\ RowsTrue /\ InkTrue /\ LedgerTrue /\ RecordsAgree

(* It holds after any step in which pairs only move on, new records are    *)
(* proposed, and a new row is held.                                        *)
LEMMA PairMoves ==
  ASSUME TypeOK, Truth,
         \A a \in Asks : \/ pair'[a] = pair[a]
                         \/ pair[a] \in {"none", "draft"}
                         \/ pair[a] = "sealed" /\ pair'[a] = "superseded",
         \A t \in Tasks : \/ row'[t] = row[t]
                          \/ row[t] = "absent" /\ row'[t] = "held" /\ asking'[t] = "done",
         \A t \in Tasks : asking[t] = "done" => asking'[t] = "done",
         \A a \in Asks : \/ record'[a].status = record[a].status
                         \/ record'[a].status = "proposed",
         UNCHANGED <<tick, mints, inked>>
  PROVE  TicksTrue' /\ RowsTrue' /\ InkTrue' /\ RecordsAgree'
<1> USE DEF Truth
<1>1. Tasks \subseteq Asks /\ Leases \subseteq Asks
  BY DEF Asks
<1>2. TicksTrue'
  <2> SUFFICES ASSUME NEW k \in Ticks PROVE TickTrue(tick[k])'
    BY DEF TicksTrue
  <2>1. TickTrue(tick[k])
    BY DEF TicksTrue
  <2>2. PICK n : n = tick[k]
    OBVIOUS
  <2>3. TickTrue(n)
    BY <2>1, <2>2
  <2>4. TickTrue(n)'
    BY <2>3, <1>1 DEF TickTrue
  <2> QED BY <2>2, <2>4 DEF TickTrue
<1>3. RowsTrue'
  BY <1>1 DEF RowsTrue
<1>4. InkTrue'
  BY <1>1 DEF InkTrue
<1>5. RecordsAgree'
  BY <1>1 DEF RecordsAgree
<1> QED BY <1>2, <1>3, <1>4, <1>5

(* A step beside the drains leaves them with what they handed over.        *)
LEMMA BesideDrains ==
  ASSUME TypeOK, TypeOK', DrainsTrue, NoSealSkipped, UNCHANGED <<drain, offset, handed>>,
         Len(ledger') >= Len(ledger)
  PROVE  DrainsTrue' /\ NoSealSkipped'
<1>1. ASSUME NEW w \in Watchers, drain[w].next - 1 <= Len(ledger)
      PROVE  drain'[w].next - 1 <= Len(ledger')
  <2>1. Len(ledger) \in Nat /\ Len(ledger') \in Nat /\ drain[w].next \in Nat
    BY LenProperties DEF TypeOK, Draining
  <2> QED BY <1>1, <2>1
<1> QED BY <1>1 DEF DrainsTrue, NoSealSkipped

(* The inductive invariant.                                                *)
SealInductive == TypeOK /\ Truth /\ DrainsTrue /\ NoSealSkipped

(* A seat keeps the invariant ...                                          *)
LEMMA AskerSteps ==
  ASSUME SealInductive, NEW a \in Asks, Seat(a) \/ (a \in Tasks /\ Insert(a))
  PROVE  SealInductive'
<1> USE DEF SealInductive, Asked, nestor, others
<1>0. /\ asking \in [Asks -> {"none", "put", "drafted", "linked", "done", "lost"}]
      /\ record \in [Asks -> Records] /\ pair \in Pairing
      /\ row \in [Tasks -> {"absent", "held", "pending", "failed"}]
      /\ Tasks \subseteq Asks
  BY DEF TypeOK, Records, Pairing, Asks
<1>1. TypeOK'
  BY AskerType, OperatorType DEF Seat
<1>2. UNCHANGED <<tick, mints, inked, ledger, drain, offset, handed>>
  BY DEF Seat, Put, Draft, Link, Lose, Insert
<1>3. \A b \in Asks : pair'[b] = pair[b] \/ pair[b] \in {"none", "draft"}
  BY <1>0 DEF Seat, Put, Draft, Link, Lose, Insert, Pairing
<1>4. \A t \in Tasks : asking[t] = "done" => asking'[t] = "done"
  BY <1>0 DEF Seat, Put, Draft, Link, Lose, Insert
<1>5. \A b \in Asks : \/ record'[b].status = record[b].status
                      \/ record'[b].status = "proposed"
  BY <1>0 DEF Seat, Put, Draft, Link, Lose, Insert, Records
<1>6. \A t \in Tasks : \/ row'[t] = row[t]
                       \/ row[t] = "absent" /\ row'[t] = "held" /\ asking'[t] = "done"
  <2>1. CASE Insert(a) /\ a \in Tasks
    <3>1. row[a] = "absent"
      BY <2>1, <1>0 DEF Insert, Truth, RowsTrue
    <3> QED BY <3>1, <2>1, <1>0 DEF Insert
  <2>2. CASE Seat(a)
    BY <2>2 DEF Seat, Put, Draft, Link, Lose
  <2> QED BY <2>1, <2>2
<1>7. TicksTrue' /\ RowsTrue' /\ InkTrue' /\ RecordsAgree'
  BY <1>2, <1>3, <1>4, <1>5, <1>6, PairMoves
<1>8. LedgerTrue'
  <2> SUFFICES ASSUME NEW i \in 1..Len(ledger) PROVE pair'[ledger[i]] \in {"sealed", "superseded"}
    BY <1>2 DEF LedgerTrue
  <2>1. ledger[i] \in Asks
    BY DEF TypeOK
  <2> QED BY <2>1, <1>3 DEF Truth, LedgerTrue
<1>9. DrainsTrue' /\ NoSealSkipped'
  <2>1. Len(ledger') >= Len(ledger)
    BY <1>2, LenProperties DEF TypeOK
  <2> QED BY <2>1, <1>1, <1>2, BesideDrains
<1> QED BY <1>1, <1>7, <1>8, <1>9 DEF Truth

(* ... the operator does ...                                               *)
LEMMA OperatorSteps ==
  ASSUME SealInductive, NEW a \in Asks,
         Operator(a) \/ EndLine \/ (a \in Tasks /\ GrowOld(a))
  PROVE  SealInductive'
<1> USE DEF SealInductive, nestor, others
<1>0. /\ pair \in Pairing /\ ledger \in Seq(Asks) /\ Len(ledger) \in Nat
  BY LenProperties DEF TypeOK, Pairing
<1>1. TypeOK'
  BY OperatorType
<1>2. UNCHANGED <<asking, record, row, tick, mints, inked, drain, offset, handed>>
  BY DEF Operator, Seal, Reject, Supersede, GoStale, EndLine, GrowOld
<1>3. \A b \in Asks : \/ pair'[b] = pair[b]
                      \/ pair[b] = "draft"
                      \/ pair[b] = "sealed" /\ pair'[b] = "superseded"
  BY <1>0 DEF Operator, Seal, Reject, Supersede, GoStale, EndLine, GrowOld, Pairing
<1>7. TicksTrue' /\ RowsTrue' /\ InkTrue' /\ RecordsAgree'
  BY <1>2, <1>3, PairMoves
<1>8. LedgerTrue' /\ Len(ledger') >= Len(ledger)
  <2>1. CASE Seal(a)
    <3>1. /\ Len(ledger') = Len(ledger) + 1 /\ ledger'[Len(ledger) + 1] = a
          /\ \A i \in 1..Len(ledger) : ledger'[i] = ledger[i] /\ ledger[i] \in Asks
      BY <2>1, <1>0, AppendProperties DEF Seal
    <3>2. pair'[a] = "sealed"
      BY <2>1, <1>0 DEF Seal, Pairing
    <3>3. ASSUME NEW i \in 1..(Len(ledger) + 1) PROVE pair'[ledger'[i]] \in {"sealed", "superseded"}
      <4>1. CASE i \in 1..Len(ledger)
        BY <4>1, <3>1, <1>3 DEF Truth, LedgerTrue
      <4>2. CASE i = Len(ledger) + 1
        BY <4>2, <3>1, <3>2
      <4> QED BY <4>1, <4>2, <1>0
    <3> QED BY <3>1, <3>3, <1>0 DEF LedgerTrue
  <2>2. CASE ~Seal(a)
    <3>1. UNCHANGED ledger
      BY <2>2 DEF Operator, Reject, Supersede, GoStale, EndLine, GrowOld
    <3>2. \A i \in 1..Len(ledger) : ledger[i] \in Asks
      BY <1>0
    <3> QED BY <3>1, <3>2, <1>0, <1>3 DEF Truth, LedgerTrue
  <2> QED BY <2>1, <2>2
<1>9. DrainsTrue' /\ NoSealSkipped'
  BY <1>1, <1>2, <1>8, BesideDrains
<1> QED BY <1>1, <1>7, <1>8, <1>9 DEF Truth

(* ... and a drain: the pair of a line it handles was sealed.              *)
LEMMA DrainSteps ==
  ASSUME SealInductive, NEW w \in Watchers,
         BeginDrain(w) \/ Handle(w) \/ Stop(w) \/ WriteOffset(w) \/ DieDrain(w)
  PROVE  SealInductive'
<1> USE DEF SealInductive, nestor, aside
<1>0. record \in [Asks -> Records] /\ Tasks \subseteq Asks /\ Leases \subseteq Asks
  BY DEF TypeOK, Records, Asks
<1>1. TypeOK' /\ DrainsTrue' /\ NoSealSkipped'
  BY DrainActs
<1>2. UNCHANGED <<asking, pair, ledger, row, mints, inked, tick>>
  BY DEF BeginDrain, Handle, Stop, WriteOffset, DieDrain
<1>3. TicksTrue' /\ RowsTrue' /\ InkTrue' /\ LedgerTrue'
  BY <1>2 DEF Truth, TicksTrue, TickTrue, RowsTrue, InkTrue, LedgerTrue
<1>4. RecordsAgree'
  <2>1. CASE record' = record
    BY <2>1, <1>2 DEF Truth, RecordsAgree
  <2>2. CASE Handle(w) /\ record' # record
    <3> DEFINE a == ledger[drain[w].next]
    <3>1. drain[w].next \in 1..Len(ledger)
      BY <2>2, LenProperties DEF Handle, Complete, DrainsTrue, TypeOK, Draining
    <3>2. pair[a] \in {"sealed", "superseded"} /\ a \in Asks
      BY <3>1 DEF Truth, LedgerTrue, TypeOK
    <3>3. record' = [record EXCEPT ![a].status = "sealed"] /\ a \notin Leases
      BY <2>2 DEF Handle, Upgraded, Owned
    <3>4. ASSUME NEW b \in Asks
          PROVE  /\ record'[b].status = "sealed" => b \notin Leases /\ pair[b] \in {"sealed", "superseded"}
                 /\ record'[b].status = "rejected" => pair[b] = "rejected"
                 /\ record'[b].status = "minted" => b \in Leases /\ mints[b] > 0
      <4>1. CASE b = a
        BY <4>1, <3>2, <3>3, <1>0 DEF Records
      <4>2. CASE b # a
        <5>1. record'[b] = record[b]
          BY <4>2, <3>3, <1>0
        <5> QED BY <5>1 DEF Truth, RecordsAgree
      <4> QED BY <4>1, <4>2
    <3> QED BY <3>4, <1>2 DEF RecordsAgree
  <2> QED BY <2>1, <2>2 DEF BeginDrain, Stop, WriteOffset, DieDrain
<1> QED BY <1>1, <1>3, <1>4 DEF Truth

(* A step of a tick keeps the invariant when the tick is left with what it *)
(* relies on, and each change of a row, a receipt or a record has its reason. *)
LEMMA TickMoves ==
  ASSUME TypeOK, TypeOK', Truth, DrainsTrue, NoSealSkipped, NEW k \in Ticks, TickTrue(tick[k])',
         \A j \in Ticks \ {k} : tick'[j] = tick[j],
         \A t \in Tasks : \/ row'[t] = row[t]
                          \/ row[t] = "held" /\ row'[t] = "failed"
                          \/ /\ row[t] = "held" /\ row'[t] = "pending"
                             /\ pair[t] \in {"sealed", "superseded"},
         \A l \in Leases : mints'[l] >= mints[l],
         \A t \in Tasks : \/ inked'[t] = inked[t]
                          \/ inked'[t] = inked[t] \cup {"minted"} /\ row[t] = "pending"
                          \/ inked'[t] = inked[t] \cup {"rejected"} /\ pair[t] = "rejected",
         \A a \in Asks : \/ record'[a].status = record[a].status
                         \/ record'[a].status = "rejected" /\ pair[a] = "rejected"
                         \/ record'[a].status = "minted" /\ a \in Leases /\ mints[a] > 0,
         UNCHANGED <<asking, pair, ledger, drain, offset, handed>>
  PROVE  SealInductive'
<1> USE DEF Truth
<1>1. Tasks \subseteq Asks /\ Leases \subseteq Asks /\ mints \in [Leases -> Nat] /\ mints' \in [Leases -> Nat]
  BY DEF Asks, TypeOK
<1>2. TicksTrue'
  <2> SUFFICES ASSUME NEW j \in Ticks, j # k PROVE TickTrue(tick[j])'
    BY DEF TicksTrue
  <2>1. PICK n : n = tick[j]
    OBVIOUS
  <2>2. TickTrue(n)
    BY <2>1 DEF TicksTrue
  <2>3. TickTrue(n)'
    BY <2>2, <1>1 DEF TickTrue
  <2> QED BY <2>1, <2>3 DEF TickTrue
<1>3. RowsTrue'
  BY DEF RowsTrue
<1>4. InkTrue'
  BY DEF InkTrue
<1>5. LedgerTrue'
  BY DEF LedgerTrue
<1>6. RecordsAgree'
  BY <1>1 DEF RecordsAgree
<1>7. DrainsTrue' /\ NoSealSkipped'
  BY DEF DrainsTrue, NoSealSkipped
<1> QED BY <1>2, <1>3, <1>4, <1>5, <1>6, <1>7 DEF SealInductive

(* Every step of a tick is such a step.                                    *)
LEMMA TickSteps ==
  ASSUME SealInductive, NEW k \in Ticks,
         \/ Begin(k) \/ Walk(k) \/ Miss(k) \/ DieTick(k)
         \/ \E a \in Asks : Look(k, a) \/ Blind(k, a)
  PROVE  SealInductive'
<1> USE DEF SealInductive, beside, nestor
<1>0. /\ tick \in [Ticks -> Ticking] /\ tick[k] \in Ticking /\ record \in [Asks -> Records]
      /\ row \in [Tasks -> {"absent", "held", "pending", "failed"}]
      /\ mints \in [Leases -> Nat] /\ inked \in [Asks -> SUBSET {"rejected", "minted"}]
      /\ Leases \subseteq Asks /\ Tasks \subseteq Asks
  BY DEF TypeOK, Records, Asks
<1>1. TypeOK'
  BY TickActs DEF Truth
<1>2. TickTrue(tick[k])
  BY DEF Truth, TicksTrue
<1>q. ASSUME TickTrue(tick[k])', \A j \in Ticks \ {k} : tick'[j] = tick[j],
             UNCHANGED <<asking, pair, ledger, drain, offset, handed, row, inked, record>>,
             \A l \in Leases : mints'[l] >= mints[l]
      PROVE  SealInductive'
  BY <1>q, <1>1, TickMoves
<1>r. \A l \in Leases : mints[l] >= mints[l]
  BY <1>0
<1>a. CASE Begin(k)
  <2>1. PICK S :
          tick' = [tick EXCEPT ![k] = [Resting EXCEPT !.step = "walk", !.todo = S,
                                                      !.aged = TooOld(S)]]
    BY <1>a DEF Begin
  <2>2. tick'[k].step = "walk" /\ tick'[k].why = "none"
    BY <2>1, <1>0 DEF Resting
  <2>3. TickTrue(tick[k])'
    BY <2>2 DEF TickTrue
  <2> QED BY <2>1, <2>3, <1>a, <1>q, <1>r, <1>0 DEF Begin
<1> DEFINE Alone == \A j \in Ticks \ {k} : tick'[j] = tick[j]
<1>t. ASSUME NEW a, Turns(k, a) PROVE TickTrue(tick[k])' /\ Alone
  <2>1. tick'[k].step = "walk" /\ tick'[k].why = "none" /\ Alone
    BY <1>t, <1>0 DEF Ticking, Turns
  <2> QED BY <2>1 DEF TickTrue
<1>u. ASSUME NEW s, NEW a, NEW w, GoesFor(k, s, a, w)
      PROVE  tick'[k].step = s /\ tick'[k].at = a /\ tick'[k].why = w /\ Alone
  BY <1>u, <1>0 DEF Ticking, GoesFor
<1>v. ASSUME NEW s, Goes(k, s)
      PROVE  tick'[k].step = s /\ tick'[k].at = tick[k].at /\ tick'[k].why = tick[k].why /\ Alone
  BY <1>v, <1>0 DEF Ticking, Goes
<1>b. CASE BeginLeases(k)
  <2>1. tick'[k].step = "walk" /\ tick'[k].why = tick[k].why /\ tick'[k].at = tick[k].at
    BY <1>b, <1>0 DEF BeginLeases, Ticking
  <2>2. TickTrue(tick[k])'
    BY <2>1, <1>2, <1>b DEF TickTrue, BeginLeases
  <2> QED BY <2>2, <1>b, <1>q, <1>r, <1>0 DEF BeginLeases
<1>c. CASE End(k) \/ DieTick(k)
  <2>1. tick'[k].step = "idle" /\ tick'[k].why = "none"
    BY <1>c, <1>0 DEF End, DieTick, Resting
  <2>2. TickTrue(tick[k])'
    BY <2>1 DEF TickTrue
  <2> QED BY <2>2, <1>c, <1>q, <1>r, <1>0 DEF End, DieTick
<1>d. ASSUME NEW a \in Asks, Look(k, a) PROVE SealInductive'
  <2>1. \/ tick'[k].step = "expire" /\ tick'[k].why = "aged"
        \/ /\ tick'[k].step \in {"receipt", "mark"} /\ tick'[k].why = "rejected"
           /\ tick'[k].at = a /\ pair[a] = "rejected"
        \/ tick'[k].step = "call" /\ tick'[k].why = "none" /\ tick'[k].at = a /\ pair[a] = "sealed"
        \/ Turns(k, a)
    BY <1>d, <1>u DEF Look
  <2>2. pair' = pair
    BY <1>d DEF Look
  <2>3. TickTrue(tick[k])'
    BY <2>1, <2>2, <1>t DEF TickTrue
  <2>4. Alone
    BY <1>d, <1>t, <1>u DEF Look
  <2> QED BY <2>3, <2>4, <1>d, <1>q, <1>r DEF Look
<1>e. ASSUME NEW a \in Asks, Blind(k, a) PROVE SealInductive'
  BY <1>e, <1>t, <1>q, <1>r DEF Blind
<1>f. CASE Sign(k)
  <2> DEFINE a == tick[k].at
  <2>1. a \in Asks /\ pair[a] \in {"sealed", "superseded"}
    BY <1>f, <1>2 DEF Sign, TickTrue
  <2>2. \A l \in Leases : mints'[l] >= mints[l]
    BY <1>f, <1>0 DEF Sign
  <2>3. \/ Turns(k, a)
        \/ tick'[k].step = "release" /\ tick'[k].why = "minted" /\ tick'[k].at = a
        \/ /\ tick'[k].step = "flip" /\ tick'[k].why = "minted" /\ tick'[k].at = a
           /\ a \in Leases /\ mints'[a] > 0
    <3>1. mints' = [mints EXCEPT ![a] = mints[a] + 1] /\ a \in Leases => mints'[a] > 0
      BY <1>0
    <3> QED BY <1>f, <1>u, <3>1 DEF Sign, Asking
  <2>4. pair' = pair
    BY <1>f DEF Sign
  <2>5. TickTrue(tick[k])'
    BY <2>1, <2>3, <2>4, <1>t DEF TickTrue
  <2>6. Alone
    BY <1>f, <1>t, <1>u DEF Sign
  <2> QED BY <2>5, <2>6, <2>2, <1>f, <1>q DEF Sign
<1>l. CASE Miss(k)
  <2>1. \A l \in Leases : mints'[l] >= mints[l]
    BY <1>l, <1>0 DEF Miss
  <2> QED BY <2>1, <1>l, <1>t, <1>q DEF Miss
<1>g. CASE Release(k)
  <2> DEFINE a == tick[k].at
  <2>1. pair[a] \in {"sealed", "superseded"} /\ tick[k].why = "minted"
    BY <1>g, <1>2 DEF Release, TickTrue
  <2>2. \A t \in Tasks : \/ row'[t] = row[t]
                         \/ row[t] = "held" /\ row'[t] = "pending" /\ t = a
    BY <1>g, <1>0 DEF Release, Asking, StillHeld
  <2>3. \/ Turns(k, a)
        \/ /\ tick'[k].step = "receipt" /\ tick'[k].why = "minted" /\ tick'[k].at = a
           /\ a \in Tasks => row'[a] = "pending"
    BY <1>g, <1>0, <1>v, <2>1 DEF Release, Asking
  <2>4. TickTrue(tick[k])'
    BY <2>1, <2>3, <1>t DEF TickTrue
  <2>9. Alone
    BY <1>g, <1>t, <1>v DEF Release
  <2> QED BY <2>1, <2>2, <2>4, <2>9, <1>g, <1>1, <1>r, TickMoves DEF Release
<1>h. CASE Ink(k)
  <2> DEFINE a == tick[k].at
  <2>1. \/ Turns(k, a)
        \/ /\ tick'[k].step = "expire" /\ tick'[k].why = "rejected" /\ tick'[k].at = a
           /\ a \in Asks /\ pair[a] = "rejected"
    BY <1>h, <1>v, <1>2 DEF Ink, Asking, TickTrue
  <2>2. pair' = pair
    BY <1>h DEF Ink
  <2>3. TickTrue(tick[k])'
    BY <2>1, <2>2, <1>t DEF TickTrue
  <2>4. \A t \in Tasks : \/ inked'[t] = inked[t]
                         \/ inked'[t] = inked[t] \cup {"minted"} /\ row[t] = "pending"
                         \/ inked'[t] = inked[t] \cup {"rejected"} /\ pair[t] = "rejected"
    BY <1>h, <1>0, <1>2 DEF Ink, Asking, TickTrue
  <2>9. Alone
    BY <1>h, <1>t, <1>v DEF Ink
  <2> QED BY <2>3, <2>4, <2>9, <1>h, <1>1, <1>r, TickMoves DEF Ink
<1>i. CASE Expire(k)
  <2> DEFINE a == tick[k].at
  <2>1. \/ Turns(k, a)
        \/ /\ tick'[k].step = "mark" /\ tick'[k].why = "rejected" /\ tick'[k].at = a
           /\ a \in Asks /\ pair[a] = "rejected"
    BY <1>i, <1>v, <1>2 DEF Expire, Asking, TickTrue
  <2>2. pair' = pair
    BY <1>i DEF Expire
  <2>3. TickTrue(tick[k])'
    BY <2>1, <2>2, <1>t DEF TickTrue
  <2>4. \A t \in Tasks : \/ row'[t] = row[t]
                         \/ row[t] = "held" /\ row'[t] = "failed"
    BY <1>i, <1>0 DEF Expire, StillHeld
  <2>9. Alone
    BY <1>i, <1>t, <1>v DEF Expire
  <2> QED BY <2>3, <2>4, <2>9, <1>i, <1>1, <1>r, TickMoves DEF Expire
<1>j. CASE Mark(k)
  <2> DEFINE a == tick[k].at
  <2>1. a \in Asks /\ pair[a] = "rejected"
    BY <1>j, <1>2 DEF Mark, TickTrue
  <2>2. \A b \in Asks : record'[b].status = record[b].status \/ (b = a /\ record'[b].status = "rejected")
    BY <1>j, <1>0 DEF Mark, Records, Asking
  <2> QED BY <2>1, <2>2, <1>j, <1>t, <1>1, <1>r, TickMoves DEF Mark
<1>k. CASE Flip(k)
  <2> DEFINE a == tick[k].at
  <2>1. a \in Asks /\ a \in Leases /\ mints[a] > 0 /\ tick[k].why = "minted"
    BY <1>k, <1>2 DEF Flip, TickTrue
  <2>2. \A b \in Asks : record'[b].status = record[b].status \/ (b = a /\ record'[b].status = "minted")
    BY <1>k, <1>0 DEF Flip, Records, Asking
  <2>3. tick'[k].step = "receipt" /\ tick'[k].why = "minted" /\ tick'[k].at = a
    BY <1>k, <1>v, <2>1 DEF Flip
  <2>4. a \notin Tasks
    BY <2>1, AsksAssumption
  <2>5. TickTrue(tick[k])'
    BY <2>3, <2>4 DEF TickTrue
  <2>9. Alone
    BY <1>k, <1>t, <1>v DEF Flip
  <2> QED BY <2>1, <2>2, <2>5, <2>9, <1>k, <1>1, <1>r, TickMoves DEF Flip
<1> QED
  BY <1>a, <1>b, <1>c, <1>d, <1>e, <1>f, <1>g, <1>h, <1>i, <1>j, <1>k, <1>l DEF Walk, Act

(* The invariant holds at first ...                                        *)
LEMMA SealInit == Init => SealInductive
<1> SUFFICES ASSUME Init PROVE SealInductive
  OBVIOUS
<1> USE DEF Init
<1>1. ledger \in Seq(Asks) /\ Len(ledger) = 0
  BY EmptySeq
<1>2. Resting \in Ticking
  BY DEF Resting, Ticking
<1>3. [step |-> "idle", from |-> 0, next |-> 1] \in Draining
  BY DEF Draining
<1>4. TypeOK
  <2>1. tick \in [Ticks -> Ticking] /\ drain \in [Watchers -> Draining]
    BY <1>2, <1>3
  <2>2. record \in [Asks -> [status : {"absent", "proposed", "sealed", "rejected", "minted"}, linked : BOOLEAN]]
    OBVIOUS
  <2>3. /\ asking \in [Asks -> {"none", "put", "drafted", "linked", "done", "lost"}]
        /\ pair \in [Asks -> {"none", "draft", "sealed", "rejected", "superseded"}]
        /\ row \in [Tasks -> {"absent", "held", "pending", "failed"}]
        /\ mints \in [Leases -> Nat] /\ inked \in [Asks -> SUBSET {"rejected", "minted"}]
    OBVIOUS
  <2>4. /\ old \subseteq Tasks /\ stale \subseteq Tasks \cup Leases /\ torn \in BOOLEAN
        /\ deaths \in Nat
    OBVIOUS
  <2>5. offset \in 0..Len(ledger) /\ handed \subseteq 1..Len(ledger)
    BY <1>1
  <2> HIDE DEF Init
  <2> QED BY <1>1, <2>1, <2>2, <2>3, <2>4, <2>5 DEF TypeOK
<1>5. Resting.step = "idle" /\ Resting.why = "none"
  BY DEF Resting
<1>6. TicksTrue
  BY <1>5 DEF TicksTrue, TickTrue
<1>7. Tasks \subseteq Asks
  BY DEF Asks
<1>8. RowsTrue /\ InkTrue /\ LedgerTrue /\ RecordsAgree
  BY <1>1, <1>7 DEF RowsTrue, InkTrue, LedgerTrue, RecordsAgree
<1>9. DrainsTrue /\ NoSealSkipped
  BY <1>1 DEF DrainsTrue, NoSealSkipped
<1> QED BY <1>4, <1>6, <1>8, <1>9 DEF SealInductive, Truth

(* ... and every step keeps it.                                            *)
LEMMA SealStep == SealInductive /\ [Next]_vars => SealInductive'
<1> SUFFICES ASSUME SealInductive, [Next]_vars PROVE SealInductive'
  OBVIOUS
<1>1. CASE UNCHANGED vars
  BY <1>1 DEF vars, nestor, SealInductive, TypeOK, Truth, TicksTrue, TickTrue, RowsTrue, InkTrue,
              LedgerTrue, RecordsAgree, DrainsTrue, NoSealSkipped
<1>2. ASSUME NEW a \in Asks, Seat(a) \/ Operator(a) PROVE SealInductive'
  BY <1>2, AskerSteps, OperatorSteps
<1>3. ASSUME NEW t \in Tasks, Insert(t) \/ GrowOld(t) PROVE SealInductive'
  BY <1>3, AskerSteps, OperatorSteps DEF Asks
<1>4. CASE EndLine
  <2>1. UNCHANGED <<asking, record, row, pair, ledger, old, stale, mints, inked, tick, offset,
                     drain, handed, deaths>> /\ torn' \in BOOLEAN
    BY <1>4 DEF EndLine, others
  <2> QED BY <2>1 DEF SealInductive, TypeOK, Truth, TicksTrue, TickTrue, RowsTrue, InkTrue,
              LedgerTrue, RecordsAgree, DrainsTrue, NoSealSkipped
<1>5. ASSUME NEW k \in Ticks, \/ Begin(k) \/ Walk(k) \/ Miss(k) \/ DieTick(k)
                              \/ \E a \in Asks : Look(k, a) \/ Blind(k, a)
      PROVE  SealInductive'
  BY <1>5, TickSteps
<1>6. ASSUME NEW w \in Watchers, \/ BeginDrain(w) \/ Handle(w) \/ Stop(w) \/ WriteOffset(w)
                                 \/ DieDrain(w)
      PROVE  SealInductive'
  BY <1>6, DrainSteps
<1> QED BY <1>1, <1>2, <1>3, <1>4, <1>5, <1>6 DEF Next

(* The inductive invariant holds of the authority by seal.                 *)
THEOREM SealInductiveCorrect == Spec => []SealInductive
  BY SealInit, SealStep, PTL DEF Spec

(* Type correctness.                                                       *)
THEOREM SealTypeCorrect == Spec => []TypeOK
<1>1. SealInductive => TypeOK
  BY DEF SealInductive
<1> QED BY <1>1, SealInductiveCorrect, PTL

(* A minted receipt stands for a released row and the receipt of a rejection *)
(* for one that is not released, whichever ticks race (drain, _release).   *)
THEOREM ReceiptsTrue == Spec => []ReceiptsAgree
<1>1. SealInductive => ReceiptsAgree
  BY DEF SealInductive, Truth, RowsTrue, InkTrue, ReceiptsAgree
<1> QED BY <1>1, SealInductiveCorrect, PTL

(* The record of an ask says what became of its pair, and never shows sealed *)
(* for a lease request (on_seal, drain_leases).                            *)
THEOREM RecordsTrue == Spec => []RecordsAgree
<1>1. SealInductive => RecordsAgree
  BY DEF SealInductive, Truth
<1> QED BY <1>1, SealInductiveCorrect, PTL

(* The offset never passes a seal that was not handed to on_seal (seal_drain). *)
THEOREM EverySealHanded == Spec => []NoSealSkipped
<1>1. SealInductive => NoSealSkipped
  BY DEF SealInductive
<1> QED BY <1>1, SealInductiveCorrect, PTL

(* A row that left held stays what it became, and goes to the workers on a *)
(* sealed pair only (_release, _expire).                                   *)
THEOREM RowsDecidedOnce == Spec => RowsEndOnce
<1> DEFINE Once == \A t \in Tasks : /\ row[t] \in {"pending", "failed"} => row'[t] = row[t]
                                    /\ row'[t] = "pending" => pair[t] \in {"sealed", "superseded"}
<1>1. SealInductive /\ [Next]_vars => [Once]_vars
  <2> SUFFICES ASSUME SealInductive, Next PROVE Once
    OBVIOUS
  <2> USE DEF SealInductive, Truth
  <2>0. \A t \in Tasks : row[t] = "pending" => pair[t] \in {"sealed", "superseded"}
    BY DEF RowsTrue
  <2>1. CASE row' = row
    BY <2>0, <2>1
  <2>2. ASSUME NEW t \in Tasks, Insert(t) PROVE Once
    <3>1. row[t] = "absent" /\ row' = [row EXCEPT ![t] = "held"]
      BY <2>2 DEF Insert, Asked, RowsTrue, TypeOK
    <3> QED BY <3>1, <2>0 DEF TypeOK
  <2>3. ASSUME NEW k \in Ticks, Release(k) PROVE Once
    <3>1. pair[tick[k].at] \in {"sealed", "superseded"}
      BY <2>3 DEF Release, TicksTrue, TickTrue
    <3> QED BY <2>3, <3>1, <2>0 DEF Release, StillHeld, Asking, TypeOK
  <2>4. ASSUME NEW k \in Ticks, Expire(k) PROVE Once
    BY <2>4, <2>0 DEF Expire, StillHeld, TypeOK
  <2>5. ASSUME NEW a \in Asks, Seat(a) \/ Operator(a) PROVE row' = row
    BY <2>5 DEF Seat, Operator, Put, Draft, Link, Lose, Seal, Reject, Supersede, GoStale
  <2>6. ASSUME NEW k \in Ticks,
               \/ Begin(k) \/ BeginLeases(k) \/ End(k) \/ Sign(k) \/ Ink(k) \/ Mark(k) \/ Flip(k)
               \/ Miss(k) \/ DieTick(k) \/ \E a \in Asks : Look(k, a) \/ Blind(k, a)
        PROVE  row' = row
    BY <2>6 DEF Begin, BeginLeases, End, Sign, Ink, Mark, Flip, Miss, DieTick, Look, Blind
  <2>7. ASSUME NEW w \in Watchers, \/ BeginDrain(w) \/ Handle(w) \/ Stop(w) \/ WriteOffset(w)
                                   \/ DieDrain(w)
        PROVE  row' = row
    BY <2>7 DEF BeginDrain, Handle, Stop, WriteOffset, DieDrain, aside
  <2>8. EndLine \/ (\E t \in Tasks : GrowOld(t)) => row' = row
    BY DEF EndLine, GrowOld
  <2> QED BY <2>1, <2>2, <2>3, <2>4, <2>5, <2>6, <2>7, <2>8 DEF Next, Walk, Act
<1> QED BY <1>1, SealInductiveCorrect, PTL DEF Spec, RowsEndOnce

(* A lease file is written for a request whose pair was sealed.            *)
LeasesSealed == \A l \in Leases : mints[l] > 0 => pair[l] \in {"sealed", "superseded"}

(* What changes the mints, and what changes a pair.                        *)
LEMMA MintSteps ==
  ASSUME SealInductive, Next
  PROVE  /\ \A l \in Leases : \/ mints'[l] = mints[l]
                              \/ pair[l] \in {"sealed", "superseded"} /\ pair'[l] = pair[l]
         /\ \A a \in Asks : \/ pair'[a] = pair[a]
                            \/ pair[a] \in {"none", "draft"}
                            \/ pair[a] = "sealed" /\ pair'[a] = "superseded"
<1> USE DEF nestor, beside, aside, others
<1>0. pair \in Pairing /\ mints \in [Leases -> Nat] /\ Leases \subseteq Asks
  BY DEF SealInductive, TypeOK, Pairing, Asks
<1>1. ASSUME NEW a \in Asks, Seat(a)
      PROVE  /\ mints' = mints
             /\ \A b \in Asks : pair'[b] = pair[b] \/ pair[b] = "none"
  BY <1>1, <1>0 DEF Seat, Put, Draft, Link, Lose, Pairing
<1>2. ASSUME NEW a \in Asks, Operator(a)
      PROVE  /\ mints' = mints
             /\ \A b \in Asks : \/ pair'[b] = pair[b]
                                \/ pair[b] = "draft"
                                \/ pair[b] = "sealed" /\ pair'[b] = "superseded"
  BY <1>2, <1>0 DEF Operator, Seal, Reject, Supersede, GoStale, Pairing
<1>3. ASSUME NEW t \in Tasks, Insert(t) \/ GrowOld(t) PROVE UNCHANGED <<pair, mints>>
  BY <1>3 DEF Insert, GrowOld
<1>4. ASSUME NEW k \in Ticks, Sign(k) \/ Miss(k)
      PROVE  /\ pair' = pair
             /\ \A l \in Leases : mints'[l] = mints[l] \/ pair[l] \in {"sealed", "superseded"}
  <2>1. pair[tick[k].at] \in {"sealed", "superseded"}
    BY <1>4 DEF Sign, Miss, SealInductive, Truth, TicksTrue, TickTrue
  <2>2. \A l \in Leases : mints'[l] = mints[l] \/ l = tick[k].at
    BY <1>4, <1>0 DEF Sign, Miss, Asking
  <2> QED BY <1>4, <2>1, <2>2 DEF Sign, Miss
<1>5. ASSUME NEW k \in Ticks,
             \/ Begin(k) \/ BeginLeases(k) \/ End(k) \/ Release(k) \/ Ink(k) \/ Expire(k)
             \/ Mark(k) \/ Flip(k) \/ DieTick(k) \/ \E a \in Asks : Look(k, a) \/ Blind(k, a)
      PROVE  UNCHANGED <<pair, mints>>
  BY <1>5 DEF Begin, BeginLeases, End, Release, Ink, Expire, Mark, Flip, DieTick, Look, Blind
<1>6. ASSUME NEW w \in Watchers, \/ BeginDrain(w) \/ Handle(w) \/ Stop(w) \/ WriteOffset(w)
                                 \/ DieDrain(w)
      PROVE  UNCHANGED <<pair, mints>>
  BY <1>6 DEF BeginDrain, Handle, Stop, WriteOffset, DieDrain
<1>7. EndLine => UNCHANGED <<pair, mints>>
  BY DEF EndLine
<1> QED BY <1>0, <1>1, <1>2, <1>3, <1>4, <1>5, <1>6, <1>7 DEF Next, Walk, Act

(* Whatever ticks race, die or lose the signer's answer, a lease file is   *)
(* written only on a pair the operator sealed (read_sealed_pair,           *)
(* net_signer).                                                            *)
THEOREM LeasesAreSealed == Spec => []LeasesSealed
<1>1. Init => LeasesSealed
  BY DEF Init, LeasesSealed
<1>2. SealInductive /\ LeasesSealed /\ [Next]_vars => LeasesSealed'
  <2> SUFFICES ASSUME SealInductive, LeasesSealed, [Next]_vars, NEW l \in Leases, mints'[l] > 0
               PROVE  pair'[l] \in {"sealed", "superseded"}
    BY DEF LeasesSealed
  <2>1. CASE UNCHANGED vars
    BY <2>1 DEF vars, nestor, LeasesSealed
  <2>2. CASE Next
    BY <2>2, MintSteps DEF LeasesSealed, Asks
  <2> QED BY <2>1, <2>2
<1> QED BY <1>1, <1>2, SealInductiveCorrect, PTL DEF Spec

(* Nothing is there of an ask before the seat's call puts its record.      *)
AskedFirst ==
  \A a \in Asks : asking[a] = "none" => record[a].status = "absent" /\ pair[a] = "none"

(* A line a drain handles is a seal of the ledger.                         *)
LEMMA HandledSeal ==
  ASSUME SealInductive, NEW w \in Watchers, Handle(w)
  PROVE  /\ ledger[drain[w].next] \in Asks
         /\ pair[ledger[drain[w].next]] \in {"sealed", "superseded"}
<1>1. drain[w].next \in 1..Len(ledger)
  BY LenProperties DEF SealInductive, Handle, Complete, DrainsTrue, TypeOK, Draining
<1> QED BY <1>1 DEF SealInductive, Truth, LedgerTrue, TypeOK

(* What changes the status of a record: the seat's own call at first, a    *)
(* tick that has its pair rejected or its lease minted, a drain that has   *)
(* the seal of another ask than a lease.                                   *)
LEMMA StatusSteps ==
  ASSUME SealInductive, Next
  PROVE  \A a \in Asks :
           \/ record'[a].status = record[a].status
           \/ /\ asking[a] = "none" /\ asking'[a] = "put" /\ record'[a].status = "proposed"
              /\ UNCHANGED tick
           \/ pair[a] = "rejected" /\ UNCHANGED asking
           \/ a \notin Leases /\ pair[a] \in {"sealed", "superseded"} /\ UNCHANGED asking
           \/ \E k \in Ticks : Flip(k) /\ a = tick[k].at /\ pair[a] \in {"sealed", "superseded"}
<1> USE DEF nestor, beside, aside, others
<1>0. record \in [Asks -> Records]
      /\ asking \in [Asks -> {"none", "put", "drafted", "linked", "done", "lost"}]
  BY DEF SealInductive, TypeOK, Records
<1>s. ASSUME UNCHANGED record PROVE \A a \in Asks : record'[a].status = record[a].status
  BY <1>s
<1>1. ASSUME NEW a \in Asks, Put(a)
      PROVE  /\ \A b \in Asks \ {a} : record'[b].status = record[b].status
             /\ asking[a] = "none" /\ asking'[a] = "put" /\ record'[a].status = "proposed"
             /\ UNCHANGED tick
  BY <1>1, <1>0 DEF Put, Asked, Records
<1>2. ASSUME NEW a \in Asks, Link(a) PROVE \A b \in Asks : record'[b].status = record[b].status
  BY <1>2, <1>0 DEF Link, Records
<1>3. ASSUME NEW a \in Asks, Draft(a) \/ Lose(a) \/ Operator(a) PROVE UNCHANGED record
  BY <1>3 DEF Draft, Lose, Operator, Seal, Reject, Supersede, GoStale
<1>4. ASSUME NEW t \in Tasks, Insert(t) \/ GrowOld(t) PROVE UNCHANGED record
  BY <1>4 DEF Insert, GrowOld
<1>5. ASSUME NEW k \in Ticks, Mark(k)
      PROVE  \A a \in Asks : \/ record'[a].status = record[a].status
                             \/ pair[a] = "rejected" /\ UNCHANGED asking
  <2>1. pair[tick[k].at] = "rejected"
    BY <1>5 DEF Mark, SealInductive, Truth, TicksTrue, TickTrue
  <2>2. \A a \in Asks : record'[a].status = record[a].status \/ a = tick[k].at
    BY <1>5, <1>0 DEF Mark, Asking, Records
  <2> QED BY <1>5, <2>1, <2>2 DEF Mark
<1>6. ASSUME NEW k \in Ticks, Flip(k)
      PROVE  \A a \in Asks : \/ record'[a].status = record[a].status
                             \/ a = tick[k].at /\ pair[a] \in {"sealed", "superseded"}
  <2>1. pair[tick[k].at] \in {"sealed", "superseded"}
    BY <1>6 DEF Flip, SealInductive, Truth, TicksTrue, TickTrue
  <2>2. \A a \in Asks : record'[a].status = record[a].status \/ a = tick[k].at
    BY <1>6, <1>0 DEF Flip, Asking, Records
  <2> QED BY <2>1, <2>2
<1>7. ASSUME NEW k \in Ticks,
             \/ Begin(k) \/ BeginLeases(k) \/ End(k) \/ Sign(k) \/ Release(k) \/ Ink(k)
             \/ Expire(k) \/ Miss(k) \/ DieTick(k) \/ \E a \in Asks : Look(k, a) \/ Blind(k, a)
      PROVE  UNCHANGED record
  BY <1>7 DEF Begin, BeginLeases, End, Sign, Release, Ink, Expire, Miss, DieTick, Look, Blind
<1>8. ASSUME NEW w \in Watchers, Handle(w)
      PROVE  \A a \in Asks :
               \/ record'[a].status = record[a].status
               \/ a \notin Leases /\ pair[a] \in {"sealed", "superseded"} /\ UNCHANGED asking
  <2> DEFINE b == ledger[drain[w].next]
  <2>1. b \in Asks /\ pair[b] \in {"sealed", "superseded"}
    BY <1>8, HandledSeal
  <2>2. \/ record' = record
        \/ record' = [record EXCEPT ![b].status = "sealed"] /\ b \notin Leases
    BY <1>8 DEF Handle, Upgraded, Owned
  <2>3. \A a \in Asks : record'[a].status = record[a].status \/ (a = b /\ b \notin Leases)
    BY <2>1, <2>2, <1>0 DEF Records
  <2>4. UNCHANGED asking
    BY <1>8 DEF Handle
  <2> QED BY <2>1, <2>3, <2>4
<1>9. ASSUME NEW w \in Watchers, BeginDrain(w) \/ Stop(w) \/ WriteOffset(w) \/ DieDrain(w)
      PROVE  UNCHANGED record
  BY <1>9 DEF BeginDrain, Stop, WriteOffset, DieDrain
<1>10. EndLine => UNCHANGED record
  BY DEF EndLine
<1> HIDE DEF nestor, beside, aside, others
<1> QED
  BY <1>s, <1>1, <1>2, <1>3, <1>4, <1>5, <1>6, <1>7, <1>8, <1>9, <1>10 DEF Next, Seat, Walk, Act

(* A call goes only forward, and drafts no pair before it put the record.  *)
LEMMA AskedFirstStep ==
  ASSUME SealInductive, AskedFirst, Next
  PROVE  AskedFirst'
<1> USE DEF nestor, beside, aside, others
<1>0. /\ asking \in [Asks -> {"none", "put", "drafted", "linked", "done", "lost"}]
      /\ pair \in Pairing /\ Tasks \subseteq Asks
  BY DEF SealInductive, TypeOK, Pairing, Asks
<1> DEFINE Unasked(a) == asking'[a] = "none" => asking[a] = "none" /\ pair'[a] = pair[a]
<1>1. ASSUME NEW b \in Asks, Seat(b) PROVE \A a \in Asks : Unasked(a)
  BY <1>1, <1>0 DEF Seat, Put, Draft, Link, Lose, Asked, Pairing
<1>2. ASSUME NEW b \in Asks, Operator(b) PROVE \A a \in Asks : AskedFirst => Unasked(a)
  BY <1>2, <1>0 DEF Operator, Seal, Reject, Supersede, GoStale, AskedFirst, Pairing
<1>3. ASSUME NEW t \in Tasks, Insert(t) PROVE \A a \in Asks : Unasked(a)
  BY <1>3, <1>0 DEF Insert, Asked
<1>4. ASSUME NEW t \in Tasks, GrowOld(t) PROVE UNCHANGED <<asking, pair>>
  BY <1>4 DEF GrowOld
<1>5. ASSUME NEW k \in Ticks, \/ Begin(k) \/ Walk(k) \/ Miss(k) \/ DieTick(k)
                              \/ \E a \in Asks : Look(k, a) \/ Blind(k, a)
      PROVE  UNCHANGED <<asking, pair>>
  BY <1>5 DEF Walk, Act, Begin, BeginLeases, End, Sign, Release, Ink, Expire, Mark, Flip, Miss,
              DieTick, Look, Blind
<1>6. ASSUME NEW w \in Watchers, \/ BeginDrain(w) \/ Handle(w) \/ Stop(w) \/ WriteOffset(w)
                                 \/ DieDrain(w)
      PROVE  UNCHANGED <<asking, pair>>
  BY <1>6 DEF BeginDrain, Handle, Stop, WriteOffset, DieDrain
<1>7. EndLine => UNCHANGED <<asking, pair>>
  BY DEF EndLine
<1>8. \A a \in Asks : Unasked(a)
  BY <1>1, <1>2, <1>3, <1>4, <1>5, <1>6, <1>7 DEF Next
<1> HIDE DEF nestor, beside, aside, others
<1>9. ASSUME NEW a \in Asks, asking'[a] = "none"
      PROVE  record'[a].status = "absent" /\ pair'[a] = "none"
  <2>1. asking[a] = "none" /\ pair'[a] = "none" /\ pair[a] = "none" /\ record[a].status = "absent"
    BY <1>8, <1>9 DEF AskedFirst
  <2> QED BY <2>1, <1>9, StatusSteps
<1> QED BY <1>9 DEF AskedFirst

(* The host runs one tick, the steward's.                                  *)
OneTick == Ticks = {Steward}

(* What one tick knows of the requests on its list: none is minted but the *)
(* one it has itself just minted, and leaves after its receipt.            *)
Listed(n) ==
  /\ n.step = "call" => n.at \in n.todo
  /\ \A l \in n.todo \cap Leases :
       record[l].status = "minted" => n.step = "receipt" /\ n.at = l /\ n.why = "minted"

TicksListed == \A k \in Ticks : Listed(tick[k])

(* The minted records of lease requests stay, and their files are not      *)
(* written again.                                                          *)
MintedStays == \A l \in Leases : record[l].status = "minted"
                                   => record'[l].status = "minted" /\ mints'[l] = mints[l]

(* No step takes a minted request's record back.                           *)
LEMMA MintedRecord ==
  ASSUME SealInductive, LeasesSealed, AskedFirst, Next, NEW l \in Leases,
         record[l].status = "minted"
  PROVE  record'[l].status = "minted"
<1>0. record \in [Asks -> Records] /\ l \in Asks
  BY DEF SealInductive, TypeOK, Records, Asks
<1>1. asking[l] # "none"
  BY <1>0 DEF AskedFirst
<1>2. pair[l] \in {"sealed", "superseded"}
  BY <1>0 DEF SealInductive, Truth, RecordsAgree, LeasesSealed
<1>3. ASSUME NEW k \in Ticks, Flip(k) PROVE record'[l].status = "minted"
  BY <1>3, <1>0 DEF Flip, Records
<1> QED BY <1>0, <1>1, <1>2, <1>3, StatusSteps

(* What a step of the tick leaves on its list.                             *)
LEMMA ListedSteps ==
  ASSUME OneTick, SealInductive, NEW k \in Ticks, Listed(tick[k]),
         \/ Begin(k) \/ Walk(k) \/ Miss(k) \/ DieTick(k)
         \/ \E a \in Asks : Look(k, a) \/ Blind(k, a)
  PROVE  Listed(tick[k])'
<1> USE DEF beside, nestor
<1>0. /\ tick \in [Ticks -> Ticking] /\ tick[k] \in Ticking /\ record \in [Asks -> Records]
      /\ Leases \subseteq Asks
  BY DEF SealInductive, TypeOK, Records, Asks
<1>1. ASSUME UNCHANGED record, tick'[k].todo \cap Leases \subseteq tick[k].todo,
             tick'[k].step # "call",
             \A l \in tick'[k].todo \cap Leases : record[l].status # "minted"
      PROVE  Listed(tick[k])'
  BY <1>1 DEF Listed
<1>t. ASSUME NEW a, Turns(k, a)
      PROVE  tick'[k].todo = tick[k].todo \ {a} /\ tick'[k].step = "walk"
  BY <1>t, <1>0 DEF Ticking, Turns
<1>u. ASSUME NEW s, NEW a, NEW w, GoesFor(k, s, a, w)
      PROVE  /\ tick'[k].step = s /\ tick'[k].at = a /\ tick'[k].why = w
             /\ tick'[k].todo = tick[k].todo
  BY <1>u, <1>0 DEF Ticking, GoesFor
<1>v. ASSUME NEW s, Goes(k, s)
      PROVE  /\ tick'[k].step = s /\ tick'[k].at = tick[k].at /\ tick'[k].why = tick[k].why
             /\ tick'[k].todo = tick[k].todo
  BY <1>v, <1>0 DEF Ticking, Goes
<1>n. tick[k].step # "receipt" => \A l \in tick[k].todo \cap Leases : record[l].status # "minted"
  BY DEF Listed
<1>a. CASE Begin(k)
  <2>1. PICK S \in SUBSET Held :
          tick' = [tick EXCEPT ![k] = [Resting EXCEPT !.step = "walk", !.todo = S,
                                                      !.aged = TooOld(S)]]
    BY <1>a DEF Begin
  <2>2. tick'[k].step = "walk" /\ tick'[k].todo = S
    BY <2>1, <1>0 DEF Resting
  <2>3. S \cap Leases = {}
    BY AsksAssumption DEF Held
  <2> QED BY <2>2, <2>3 DEF Listed
<1>b. CASE BeginLeases(k)
  <2>1. tick'[k].step = "walk" /\ tick'[k].todo = Requests /\ UNCHANGED record
    BY <1>b, <1>0 DEF BeginLeases, Ticking
  <2> QED BY <2>1 DEF Listed, Requests
<1>c. CASE End(k) \/ DieTick(k)
  <2>1. tick'[k].step = "idle" /\ tick'[k].todo = {}
    BY <1>c, <1>0 DEF End, DieTick, Resting
  <2> QED BY <2>1 DEF Listed
<1>d. ASSUME NEW a \in Asks, Look(k, a) PROVE Listed(tick[k])'
  <2>1. a \in tick[k].todo /\ UNCHANGED record /\ tick[k].step # "receipt"
    BY <1>d DEF Look
  <2>2. \/ Turns(k, a)
        \/ tick'[k].at = a /\ tick'[k].todo = tick[k].todo
    BY <1>d, <1>u DEF Look
  <2> QED BY <2>1, <2>2, <1>n, <1>t DEF Listed
<1>e. ASSUME NEW a \in Asks, Blind(k, a) PROVE Listed(tick[k])'
  BY <1>e, <1>1, <1>n, <1>t DEF Blind
<1>f. CASE Sign(k) \/ Miss(k)
  <2>1. UNCHANGED record /\ tick[k].step # "receipt"
    BY <1>f DEF Sign, Miss
  <2>2. tick'[k].todo \subseteq tick[k].todo /\ tick'[k].step # "call"
    BY <1>f, <1>t, <1>u DEF Sign, Miss
  <2> QED BY <2>1, <2>2, <1>1, <1>n
<1>g. CASE Release(k) \/ Expire(k)
  <2>1. UNCHANGED record /\ tick[k].step # "receipt"
    BY <1>g DEF Release, Expire
  <2>2. tick'[k].todo \subseteq tick[k].todo /\ tick'[k].step # "call"
    BY <1>g, <1>t, <1>v DEF Release, Expire
  <2> QED BY <2>1, <2>2, <1>1, <1>n
<1>h. CASE Ink(k)
  <2>1. UNCHANGED record
    BY <1>h DEF Ink
  <2>2. CASE tick[k].why = "rejected"
    <3>1. tick'[k].todo = tick[k].todo /\ tick'[k].step = "expire"
      BY <1>h, <2>2, <1>v DEF Ink
    <3>2. \A l \in tick[k].todo \cap Leases : record[l].status # "minted"
      BY <2>2 DEF Listed
    <3> QED BY <3>1, <3>2, <2>1, <1>1
  <2>3. CASE tick[k].why # "rejected"
    <3>1. Turns(k, tick[k].at)
      BY <1>h, <2>3 DEF Ink, Asking
    <3>2. \A l \in tick'[k].todo \cap Leases : record[l].status # "minted"
      BY <3>1, <1>t DEF Listed
    <3> QED BY <3>1, <3>2, <2>1, <1>1, <1>t
  <2> QED BY <2>2, <2>3
<1>j. CASE Mark(k)
  <2>1. Turns(k, tick[k].at) /\ tick[k].step # "receipt"
    BY <1>j DEF Mark, Asking
  <2>2. \A l \in Leases : record[l].status # "minted" => record'[l].status # "minted"
    BY <1>j, <1>0 DEF Mark, Asking, Records
  <2> QED BY <2>1, <2>2, <1>n, <1>t DEF Listed
<1>k. CASE Flip(k)
  <2>1. \A l \in Leases : l # tick[k].at /\ record[l].status # "minted"
                            => record'[l].status # "minted"
    BY <1>k, <1>0 DEF Flip, Asking, Records
  <2>2. /\ tick'[k].step = "receipt" /\ tick'[k].at = tick[k].at /\ tick'[k].why = "minted"
        /\ tick'[k].todo = tick[k].todo /\ tick[k].step # "receipt"
    BY <1>k, <1>v DEF Flip, SealInductive, Truth, TicksTrue, TickTrue
  <2> QED BY <2>1, <2>2, <1>n DEF Listed
<1> QED
  BY <1>a, <1>b, <1>c, <1>d, <1>e, <1>f, <1>g, <1>h, <1>j, <1>k DEF Walk, Act

(* Beside the tick no record becomes minted and its list stays.            *)
LEMMA ListedStep ==
  ASSUME OneTick, SealInductive, TicksListed, Next
  PROVE  TicksListed'
<1>1. ASSUME NEW k \in Ticks, \/ Begin(k) \/ Walk(k) \/ Miss(k) \/ DieTick(k)
                              \/ \E a \in Asks : Look(k, a) \/ Blind(k, a)
      PROVE  TicksListed'
  <2>1. Listed(tick[k])'
    BY <1>1, ListedSteps DEF TicksListed
  <2>2. \A j \in Ticks : j = k
    BY DEF OneTick
  <2> QED BY <2>1, <2>2 DEF TicksListed
<1>2. ASSUME UNCHANGED tick,
             \A l \in Leases : \/ record'[l].status = record[l].status
                               \/ record'[l].status # "minted",
             NEW k \in Ticks
      PROVE  Listed(tick[k])'
  <2>1. PICK n : n = tick[k]
    OBVIOUS
  <2>2. Listed(n)
    BY <2>1 DEF TicksListed
  <2>3. Listed(n)'
    BY <2>2, <1>2 DEF Listed
  <2> QED BY <2>1, <2>3, <1>2 DEF Listed
<1>3. record \in [Asks -> Records] /\ Leases \subseteq Asks
  BY DEF SealInductive, TypeOK, Records, Asks
<1> USE DEF nestor, aside, others
<1>4. ASSUME NEW a \in Asks, Seat(a) \/ Operator(a)
      PROVE  UNCHANGED tick /\ \A l \in Leases : \/ record'[l].status = record[l].status
                                                 \/ record'[l].status # "minted"
  BY <1>4, <1>3 DEF Seat, Operator, Put, Draft, Link, Lose, Seal, Reject, Supersede, GoStale, Records
<1>5. ASSUME NEW t \in Tasks, Insert(t) \/ GrowOld(t) PROVE UNCHANGED <<tick, record>>
  BY <1>5 DEF Insert, GrowOld
<1>6. ASSUME NEW w \in Watchers, \/ BeginDrain(w) \/ Handle(w) \/ Stop(w) \/ WriteOffset(w)
                                 \/ DieDrain(w)
      PROVE  UNCHANGED tick /\ \A l \in Leases : \/ record'[l].status = record[l].status
                                                 \/ record'[l].status # "minted"
  BY <1>6, <1>3 DEF BeginDrain, Handle, Upgraded, Stop, WriteOffset, DieDrain, Records
<1>7. EndLine => UNCHANGED <<tick, record>>
  BY DEF EndLine
<1> HIDE DEF nestor, aside, others
<1> QED BY <1>1, <1>2, <1>4, <1>5, <1>6, <1>7 DEF Next, TicksListed

(* When the steward's tick is the only one, a request whose record is      *)
(* minted stays minted and is never sent again (drain_leases: "the record  *)
(* flips to ``minted`` so it is never sent twice"), however often the tick *)
(* dies or loses an answer.  A second tick may send it: its list may be    *)
(* older than the mint.                                                    *)
THEOREM MintedNeverSentAgain == OneTick => (Spec => [][MintedStays]_vars)
<1> SUFFICES ASSUME OneTick PROVE Spec => [][MintedStays]_vars
  OBVIOUS
<1>1. Init => AskedFirst /\ TicksListed
  BY DEF Init, AskedFirst, TicksListed, Listed, Resting
<1>2. SealInductive /\ AskedFirst /\ TicksListed /\ [Next]_vars => AskedFirst' /\ TicksListed'
  <2> SUFFICES ASSUME SealInductive, AskedFirst, TicksListed, [Next]_vars
               PROVE  AskedFirst' /\ TicksListed'
    OBVIOUS
  <2>1. CASE UNCHANGED vars
    BY <2>1 DEF vars, nestor, AskedFirst, TicksListed, Listed
  <2>2. CASE Next
    BY <2>2, AskedFirstStep, ListedStep
  <2> QED BY <2>1, <2>2
<1>3. SealInductive /\ LeasesSealed /\ AskedFirst /\ TicksListed /\ [Next]_vars => [MintedStays]_vars
  <2> SUFFICES ASSUME SealInductive, LeasesSealed, AskedFirst, TicksListed, Next,
                      NEW l \in Leases, record[l].status = "minted"
               PROVE  record'[l].status = "minted" /\ mints'[l] = mints[l]
    BY DEF MintedStays
  <2>1. record'[l].status = "minted"
    BY MintedRecord
  <2>2. ASSUME NEW k \in Ticks, Sign(k) \/ Miss(k) PROVE mints'[l] = mints[l]
    <3>1. tick[k].step = "call" /\ tick[k].at \in tick[k].todo
      BY <2>2 DEF Sign, Miss, TicksListed, Listed
    <3>2. l # tick[k].at
      BY <3>1 DEF TicksListed, Listed
    <3> QED BY <2>2, <3>2 DEF Sign, Miss, Asking, SealInductive, TypeOK
  <2>3. mints' = mints \/ \E k \in Ticks : Sign(k) \/ Miss(k)
    <3> USE DEF nestor, beside, aside, others
    <3>1. ASSUME NEW a \in Asks, Seat(a) \/ Operator(a) PROVE mints' = mints
      BY <3>1 DEF Seat, Operator, Put, Draft, Link, Lose, Seal, Reject, Supersede, GoStale
    <3>2. ASSUME NEW t \in Tasks, Insert(t) \/ GrowOld(t) PROVE mints' = mints
      BY <3>2 DEF Insert, GrowOld
    <3>3. ASSUME NEW k \in Ticks,
                 \/ Begin(k) \/ BeginLeases(k) \/ End(k) \/ Release(k) \/ Ink(k) \/ Expire(k)
                 \/ Mark(k) \/ Flip(k) \/ DieTick(k) \/ \E a \in Asks : Look(k, a) \/ Blind(k, a)
          PROVE  mints' = mints
      BY <3>3 DEF Begin, BeginLeases, End, Release, Ink, Expire, Mark, Flip, DieTick, Look, Blind
    <3>4. ASSUME NEW w \in Watchers, \/ BeginDrain(w) \/ Handle(w) \/ Stop(w) \/ WriteOffset(w)
                                     \/ DieDrain(w)
          PROVE  mints' = mints
      BY <3>4 DEF BeginDrain, Handle, Stop, WriteOffset, DieDrain
    <3>5. EndLine => mints' = mints
      BY DEF EndLine
    <3> QED BY <3>1, <3>2, <3>3, <3>4, <3>5 DEF Next, Walk, Act
  <2> QED BY <2>1, <2>2, <2>3
<1> QED BY <1>1, <1>2, <1>3, SealInductiveCorrect, LeasesAreSealed, PTL DEF Spec
==============================================================================
