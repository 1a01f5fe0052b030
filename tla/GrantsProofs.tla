---------------------------- MODULE GrantsProofs ----------------------------
(***************************************************************************)
(* Proofs about Grants, for any pairs, callers, seats, groups and bounds.  *)
(* None of its safety properties is inductive.  The strengthening says     *)
(* what the unit holds on to between its steps: the seat it is granting on *)
(* (SeatAhead), a citation that is still unspent while it may touch a      *)
(* manifest (FreshWork), and every group in force that it granted, which   *)
(* is in the list it would undo, on a pair that is done, or on one whose   *)
(* apply was cut short (LiveAccounted).                                    *)
(***************************************************************************)
EXTENDS Grants, TLAPS, SequenceTheorems

(* The records a request and a filing are made of stay records.            *)
LEMMA Records ==
  /\ Blank \in Record
  /\ \A r \in Record, e \in Errors : Filed(r, e) \in Filing
  /\ \A r \in Record, h \in [Seats -> SUBSET Groups] : [r EXCEPT !.pre = h] \in Record
  /\ \A r \in Record, n \in Nat : [r EXCEPT !.cite = n] \in Record
  /\ \A r \in Record, n \in Nat : [Blank EXCEPT !.cite = n] \in Record
  /\ \A f \in Filing : [cite |-> f.cite, pre |-> f.pre] \in Record
  BY DEF Blank, Record, Filing, Filed

(* Where a request may be.                                                 *)
Places == {"idle", "stale", "vacated", "locked", "vetted", "written",
                         "cited", "queued", "refusing", "ok", "refused", "dead"}

(* A step of a request that puts values of their types in its own variables *)
(* keeps the types of all.                                                 *)
LEMMA AskType ==
  ASSUME GrantsTypeOK, NEW c \in Callers,
         NEW l \in Callers \union {Nobody},
         lock' = lock \/ lock' = [lock EXCEPT ![about[c]] = l],
         NEW to \in Places,
         pc' = [pc EXCEPT ![c] = to],
         NEW d \in Record, draft' = draft \/ draft' = [draft EXCEPT ![c] = d],
         NEW q \in Record \union {NoFile},
         pending' = pending \/ pending' = [pending EXCEPT ![about[c]] = q],
         cites' = cites \/ cites' = Append(cites, about[c]),
         faults' \in 0..MaxFaults,
         UNCHANGED <<about, done, failed, seatVars, receipts, unit, retry, edits>>
  PROVE  GrantsTypeOK'
<1>1. about[c] \in Pairs
  BY DEF GrantsTypeOK
<1>2. lock' \in [Pairs -> Callers \union {Nobody}]
  BY DEF GrantsTypeOK
<1>3. pc' \in [Callers -> Places]
  <2>1. pc \in [Callers -> Places]
    BY DEF GrantsTypeOK, Places
  <2> QED BY <2>1
<1>4. draft' \in [Callers -> Record]
  BY DEF GrantsTypeOK
<1>5. pending' \in [Pairs -> Record \union {NoFile}]
  BY DEF GrantsTypeOK
<1>6. cites' \in Seq(Pairs)
  <2>1. cites \in Seq(Pairs)
    BY DEF GrantsTypeOK
  <2> QED
    BY <1>1, <2>1, AppendProperties
<1>7. about' = about /\ done' = done /\ failed' = failed /\ held' = held /\ live' = live
      /\ cut' = cut /\ receipts' = receipts /\ unit' = unit /\ retry' = retry /\ edits' = edits
  BY DEF seatVars
<1>8. /\ about \in [Callers -> Pairs]
      /\ done \in [Pairs -> Filing \union {NoFile}]
      /\ failed \in [Pairs -> Filing \union {NoFile}]
      /\ held \in [Seats -> SUBSET Groups] /\ receipts \subseteq Nat \X Seats
      /\ unit \in Working /\ retry \in Retrying /\ edits \in 0..MaxEdits
      /\ live \subseteq Pairs \X Seats \X Groups /\ cut \subseteq Pairs
  BY DEF GrantsTypeOK
<1> HIDE DEF GrantsTypeOK
<1> QED
  BY <1>2, <1>3, <1>4, <1>5, <1>6, <1>7, <1>8 DEF GrantsTypeOK, Places

(* Every step of manifest_grant_request, and its death, keeps the types.   *)
LEMMA AskActions ==
  ASSUME GrantsTypeOK, NEW c \in Callers, Request(c) \/ CallerDies(c)
  PROVE  GrantsTypeOK'
<1> USE Records DEF Steps, askVars, dirVars, seatVars, bounds
<1> DEFINE L == Callers \union {Nobody}
<1>0. c \in L /\ Nobody \in L /\ about[c] \in Pairs /\ draft[c] \in Record
      /\ NoFile \in Record \union {NoFile}
      /\ \A q \in Record : q \in Record \union {NoFile}
  BY DEF GrantsTypeOK
<1>f. faults \in 0..MaxFaults /\ (faults < MaxFaults => faults + 1 \in 0..MaxFaults)
  BY GrantsAssumption DEF GrantsTypeOK
<1>p. {"refused", "stale", "vacated", "locked", "vetted", "written", "cited",
       "queued", "refusing", "ok", "dead"} \subseteq Places
  BY DEF Places
<1>a. ASSUME Acquire(c) PROVE GrantsTypeOK'
  BY <1>a, <1>0, <1>f, <1>p, AskType DEF Acquire
<1>b. ASSUME JudgeLock(c) PROVE GrantsTypeOK'
  BY <1>b, <1>0, <1>f, <1>p, AskType DEF JudgeLock
<1>c. ASSUME Vacate(c) PROVE GrantsTypeOK'
  BY <1>c, <1>0, <1>f, <1>p, AskType DEF Vacate
<1>d. ASSUME Vet(c) PROVE GrantsTypeOK'
  <2>1. [draft[c] EXCEPT !.pre = held] \in Record
    BY <1>0 DEF GrantsTypeOK
  <2> QED BY <1>d, <2>1, <1>0, <1>f, <1>p, AskType DEF Vet
<1>e. ASSUME WriteFirst(c) PROVE GrantsTypeOK'
  BY <1>e, <1>0, <1>f, <1>p, AskType DEF WriteFirst
<1>g. ASSUME CiteSecond(c) PROVE GrantsTypeOK'
  <2>1. Len(cites') \in Nat
    BY <1>g, <1>0 DEF GrantsTypeOK, CiteSecond
  <2>2. [draft[c] EXCEPT !.cite = Len(cites')] \in Record
    BY <2>1, <1>0
  <2> QED BY <1>g, <2>2, <1>0, <1>f, <1>p, AskType DEF CiteSecond
<1>h. ASSUME CiteRefused(c) PROVE GrantsTypeOK'
  BY <1>h, <1>0, <1>f, <1>p, AskType DEF CiteRefused
<1>i. ASSUME SignLast(c) PROVE GrantsTypeOK'
  BY <1>i, <1>0, <1>f, <1>p, AskType DEF SignLast
<1>j. ASSUME Unlock(c) PROVE GrantsTypeOK'
  BY <1>j, <1>0, <1>f, <1>p, AskType DEF Unlock
<1>k. ASSUME CallerDies(c) PROVE GrantsTypeOK'
  BY <1>k, <1>0, <1>f, <1>p, AskType DEF CallerDies
<1> QED
  BY <1>a, <1>b, <1>c, <1>d, <1>e, <1>g, <1>h, <1>i, <1>j, <1>k DEF Request

(* The fields of the apply unit's record.                                  *)
LEMMA UnitFields ==
  ASSUME NEW u \in Working
  PROVE  /\ u.pair \in Pairs /\ u.req \in Record /\ u.req.cite \in Nat
         /\ u.seats \in Seq(Seats) /\ u.groups \in Seq(Groups) /\ u.added \subseteq Groups
         /\ u.granted \in Seq(Seats \X Groups) /\ u.owed \subseteq Seats /\ u.error \in Errors
  BY DEF Working, Record

(* Where the unit may be.                                                  *)
Stations == {"rest", "listed", "judge", "seat", "grant", "undo", "ink", "fail", "unlink"}

(* An update of one field of the apply unit keeps its type.                *)
LEMMA UnitUpdates ==
  ASSUME NEW u \in Working
  PROVE  /\ \A a \in Stations : [u EXCEPT !.at = a] \in Working
         /\ \A e \in Errors : [u EXCEPT !.error = e] \in Working
         /\ \A r \in Record : [u EXCEPT !.req = r] \in Working
         /\ \A q \in Seq(Seats) : [u EXCEPT !.seats = q] \in Working
         /\ \A q \in Seq(Groups) : [u EXCEPT !.groups = q] \in Working
         /\ \A g \in SUBSET Groups : [u EXCEPT !.added = g] \in Working
         /\ \A q \in Seq(Seats \X Groups) : [u EXCEPT !.granted = q] \in Working
         /\ \A o \in SUBSET Seats : [u EXCEPT !.owed = o] \in Working
         /\ \A p \in Pairs : [u EXCEPT !.pair = p] \in Working
  BY DEF Working, Stations

(* The unit between two passes.                                            *)
LEMMA AtRest ==
  /\ UnitAtRest \in Working
  /\ UnitAtRest.pair \in Pairs
  /\ UnitAtRest.granted = <<>> /\ UnitAtRest.at = "rest"
<1>1. (CHOOSE p \in Pairs : TRUE) \in Pairs
  BY GrantsAssumption
<1>2. <<>> \in Seq(Seats) /\ <<>> \in Seq(Groups) /\ <<>> \in Seq(Seats \X Groups)
  BY EmptySeq
<1> QED
  BY <1>1, <1>2, Records, Zenon DEF UnitAtRest, Working, Errors

(* What is left of a sequence without its last element.                    *)
LEMMA FrontFacts ==
  ASSUME NEW S, NEW q \in Seq(S), q # <<>>
  PROVE  /\ Front(q) \in Seq(S) /\ Last(q) \in S
         /\ \A x \in ToSet(q) : x = Last(q) \/ x \in ToSet(Front(q))
<1>1. Len(q) \in Nat \ {0} /\ DOMAIN q = 1..Len(q)
  BY EmptySeq, LenProperties
<1>2. Front(q) \in Seq(S)
  BY <1>1 DEF Front
<1>3. Last(q) \in S
  BY <1>1 DEF Last
<1>4. Len(Front(q)) = Len(q) - 1 /\ \A i \in 1..(Len(q) - 1) : Front(q)[i] = q[i]
  BY <1>1 DEF Front
<1>5. DOMAIN Front(q) = 1..(Len(q) - 1)
  BY <1>2, <1>4, LenProperties
<1>6. ASSUME NEW i \in 1..Len(q)
      PROVE  q[i] = Last(q) \/ \E j \in DOMAIN Front(q) : Front(q)[j] = q[i]
  BY <1>1, <1>4, <1>5 DEF Last
<1> QED
  BY <1>1, <1>2, <1>3, <1>6 DEF ToSet

(* What Append adds to a sequence's elements.                              *)
LEMMA AppendFacts ==
  ASSUME NEW S, NEW q \in Seq(S), NEW x \in S
  PROVE  /\ Append(q, x) \in Seq(S)
         /\ ToSet(Append(q, x)) = ToSet(q) \union {x}
  BY AppendProperties, LenProperties DEF ToSet

(* The elements of a sequence over S are in S.                             *)
LEMMA ToSetOf ==
  ASSUME NEW S, NEW q \in Seq(S)
  PROVE  ToSet(q) \subseteq S
  BY LenProperties DEF ToSet

(* A step that leaves the requests alone and gives the rest values of their *)
(* types keeps the types of all.                                           *)
LEMMA WorkType ==
  ASSUME GrantsTypeOK, unit' \in Working, UNCHANGED askVars,
         held' \in [Seats -> SUBSET Groups], receipts' \subseteq Nat \X Seats,
         pending' \in [Pairs -> Record \union {NoFile}],
         done' \in [Pairs -> Filing \union {NoFile}],
         failed' \in [Pairs -> Filing \union {NoFile}],
         retry' \in Retrying, faults' \in 0..MaxFaults, edits' \in 0..MaxEdits,
         live' \subseteq Pairs \X Seats \X Groups, cut' \subseteq Pairs
  PROVE  GrantsTypeOK'
<1>1. lock' = lock /\ pc' = pc /\ about' = about /\ draft' = draft /\ cites' = cites
  BY DEF askVars
<1> QED
  BY <1>1 DEF GrantsTypeOK

(* The type invariant, without the requests.                               *)
LEMMA Parts ==
  ASSUME GrantsTypeOK
  PROVE  /\ unit \in Working /\ retry \in Retrying
         /\ held \in [Seats -> SUBSET Groups] /\ receipts \subseteq Nat \X Seats
         /\ pending \in [Pairs -> Record \union {NoFile}]
         /\ done \in [Pairs -> Filing \union {NoFile}]
         /\ failed \in [Pairs -> Filing \union {NoFile}]
         /\ faults \in 0..MaxFaults /\ edits \in 0..MaxEdits
         /\ live \subseteq Pairs \X Seats \X Groups /\ cut \subseteq Pairs
  BY DEF GrantsTypeOK

(* A unit inside _apply_one_seat has the seat at the head of its list.     *)
SeatAhead == unit.at = "grant" => unit.seats # <<>>

(* Every step of the apply unit keeps the types.                           *)
LEMMA ApplyType ==
  ASSUME GrantsTypeOK, SeatAhead, Apply PROVE GrantsTypeOK'
<1> USE DEF dirVars, seatVars, bounds
<1>0. /\ unit \in Working /\ retry \in Retrying
      /\ held \in [Seats -> SUBSET Groups] /\ receipts \subseteq Nat \X Seats
      /\ pending \in [Pairs -> Record \union {NoFile}]
      /\ done \in [Pairs -> Filing \union {NoFile}]
      /\ failed \in [Pairs -> Filing \union {NoFile}]
      /\ faults \in 0..MaxFaults /\ edits \in 0..MaxEdits
      /\ live \subseteq Pairs \X Seats \X Groups /\ cut \subseteq Pairs
  BY Parts
<1>s. /\ Stations = {"rest", "listed", "judge", "seat", "grant", "undo", "ink", "fail",
                     "unlink"}
      /\ {"eforged", "edrift", "ecorrupt", "EUNREACH", "eperm", "eunexpected",
          ""} \subseteq Errors
  BY DEF Stations, Errors, Retryable
<1>u. /\ unit.pair \in Pairs /\ unit.req \in Record /\ unit.req.cite \in Nat
      /\ unit.seats \in Seq(Seats) /\ unit.groups \in Seq(Groups) /\ unit.added \subseteq Groups
      /\ unit.granted \in Seq(Seats \X Groups) /\ unit.owed \subseteq Seats /\ unit.error \in Errors
  BY <1>0, UnitFields
<1>a. ASSUME NEW p \in Pairs, List(p) PROVE GrantsTypeOK'
  <2>1. [UnitAtRest EXCEPT !.at = "listed", !.pair = p] \in Working
    BY AtRest, <1>s DEF Working, Stations
  <2> QED BY <2>1, <1>0, <1>a, WorkType DEF List
<1>b. ASSUME Read PROVE GrantsTypeOK'
  <2>1. pending[unit.pair] # NoFile => pending[unit.pair] \in Record
    BY <1>0, <1>u
  <2>2. /\ [unit EXCEPT !.at = "fail", !.error = "ecorrupt"] \in Working
        /\ \A r \in Record : [unit EXCEPT !.at = "judge", !.req = r] \in Working
    BY <1>0, <1>s DEF Working
  <2> QED BY <2>1, <2>2, <1>0, <1>b, WorkType DEF Read
<1>c. ASSUME Judge PROVE GrantsTypeOK'
  <2>1. Apps[unit.pair] \in Seq(Seats)
    BY <1>u, GrantsAssumption
  <2>2. /\ \A e \in Errors : [unit EXCEPT !.at = "fail", !.error = e] \in Working
        /\ \A q \in Seq(Seats) : [unit EXCEPT !.at = "seat", !.seats = q] \in Working
    BY <1>0 DEF Working
  <2>3. Verdict(unit.req, unit.pair) \in Errors
    BY <1>s DEF Verdict
  <2> HIDE DEF Verdict
  <2> QED BY <2>1, <2>2, <2>3, <1>0, <1>s, <1>c, WorkType DEF Judge
<1>d. ASSUME EnterSeat PROVE GrantsTypeOK'
  <2>1. Wanted[unit.pair] \in Seq(Groups)
    BY <1>u, GrantsAssumption
  <2>2. ToSet(Wanted[unit.pair]) \ held[Head(unit.seats)] \subseteq Groups
    BY <2>1, ToSetOf
  <2>3. \A q \in Seq(Groups), g \in SUBSET Groups :
          [unit EXCEPT !.at = "grant", !.groups = q, !.added = g] \in Working
    BY <1>0 DEF Working
  <2> QED BY <2>1, <2>2, <2>3, <1>0, <1>d, WorkType DEF EnterSeat
<1>e. ASSUME GrantGroup PROVE GrantsTypeOK'
  <2> DEFINE s == Head(unit.seats)  g == Head(unit.groups)
  <2>1. g \in Groups /\ Tail(unit.groups) \in Seq(Groups)
    BY <1>e, <1>u, HeadTailProperties DEF GrantGroup
  <2>2. s \in Seats
    BY <1>e, <1>u, HeadTailProperties DEF GrantGroup, SeatAhead
  <2>3. Append(unit.granted, <<s, g>>) \in Seq(Seats \X Groups)
    BY <2>1, <2>2, <1>u, AppendProperties
  <2>4. \A q \in Seq(Groups), h \in Seq(Seats \X Groups) :
          [unit EXCEPT !.groups = q, !.granted = h] \in Working
    BY <1>0 DEF Working
  <2>5. unit' \in Working
    BY <1>e, <2>1, <2>3, <2>4 DEF GrantGroup
  <2>6. held' \in [Seats -> SUBSET Groups] /\ live' \subseteq Pairs \X Seats \X Groups
    BY <1>e, <1>0, <1>u, <2>1, <2>2 DEF GrantGroup
  <2> QED BY <2>5, <2>6, <1>0, <1>e, WorkType DEF GrantGroup
<1>f. ASSUME PassGroup PROVE GrantsTypeOK'
  <2>1. Tail(unit.groups) \in Seq(Groups)
    BY <1>f, <1>u, HeadTailProperties DEF PassGroup
  <2>2. unit' \in Working
    BY <1>f, <2>1, <1>0, UnitUpdates DEF PassGroup
  <2> QED BY <2>2, <1>0, <1>f, WorkType DEF PassGroup
<1>g. ASSUME LeaveSeat PROVE GrantsTypeOK'
  <2>1. Tail(unit.seats) \in Seq(Seats)
    BY <1>g, <1>u, HeadTailProperties DEF LeaveSeat, SeatAhead
  <2>2. \A q \in Seq(Seats) : [unit EXCEPT !.at = "seat", !.seats = q] \in Working
    BY <1>0 DEF Working
  <2>3. unit' \in Working
    BY <1>g, <2>1, <2>2 DEF LeaveSeat
  <2> QED BY <2>3, <1>0, <1>g, WorkType DEF LeaveSeat
<1>h. ASSUME GrantFails PROVE GrantsTypeOK'
  <2>1. \A e \in Errors : [unit EXCEPT !.at = "undo", !.error = e] \in Working
    BY <1>0 DEF Working
  <2>2. unit' \in Working
    BY <1>h, <1>s, <2>1 DEF GrantFails
  <2> QED BY <2>2, <1>0, <1>h, WorkType DEF GrantFails
<1>i. ASSUME UndoGroup PROVE GrantsTypeOK'
  <2>1. unit.granted # <<>>
    BY <1>i DEF UndoGroup
  <2>2. Front(unit.granted) \in Seq(Seats \X Groups) /\ Last(unit.granted) \in Seats \X Groups
    BY <2>1, <1>u, FrontFacts
  <2>3. unit' \in Working
    BY <1>i, <2>2, <1>0, UnitUpdates DEF UndoGroup
  <2>4. held' \in [Seats -> SUBSET Groups] /\ live' \subseteq live /\ cut' \subseteq Pairs
    BY <1>i, <2>2, <1>0, <1>u DEF UndoGroup
  <2> QED BY <2>3, <2>4, <1>0, <1>i, WorkType DEF UndoGroup
<1>j. ASSUME Undone PROVE GrantsTypeOK'
  <2>1. unit' \in Working
    BY <1>j, <1>0, <1>s, UnitUpdates DEF Undone
  <2> QED BY <2>1, <1>0, <1>j, WorkType DEF Undone
<1>k. ASSUME AllGranted PROVE GrantsTypeOK'
  <2>1. ToSet(unit.granted) \subseteq Seats \X Groups
    BY <1>u, ToSetOf
  <2>2. {it[1] : it \in ToSet(unit.granted)} \subseteq Seats
    BY <2>1
  <2>3. \A o \in SUBSET Seats : [unit EXCEPT !.at = "ink", !.owed = o] \in Working
    BY <1>0 DEF Working
  <2>4. unit' \in Working
    BY <1>k, <2>2, <2>3 DEF AllGranted
  <2> QED BY <2>4, <1>0, <1>k, WorkType DEF AllGranted
<1>l. ASSUME InkReceipt PROVE GrantsTypeOK'
  <2>1. PICK s \in unit.owed : /\ unit' = [unit EXCEPT !.owed = @ \ {s}]
                               /\ \/ receipts' = receipts \union {<<unit.req.cite, s>>}
                                  \/ UNCHANGED receipts
    BY <1>l DEF InkReceipt
  <2>2. unit' \in Working
    BY <2>1, <1>u, <1>0, UnitUpdates
  <2>3. receipts' \subseteq Nat \X Seats
    BY <2>1, <1>u, <1>0
  <2> QED BY <2>2, <2>3, <1>0, <1>l, WorkType DEF InkReceipt
<1>m. ASSUME FileDone PROVE GrantsTypeOK'
  <2>1. Filed([Blank EXCEPT !.cite = unit.req.cite], "") \in Filing
    BY <1>u, <1>s, Records
  <2>2. unit' \in Working
    BY <1>m, <1>0, <1>s, UnitUpdates DEF FileDone
  <2>3. done' \in [Pairs -> Filing \union {NoFile}]
    BY <1>m, <2>1, <1>0, <1>u DEF FileDone
  <2> QED BY <2>2, <2>3, <1>0, <1>m, WorkType DEF FileDone
<1>n. ASSUME FileFailed PROVE GrantsTypeOK'
  <2>1. Filed(unit.req, unit.error) \in Filing
    BY <1>u, Records
  <2>2. unit' \in Working
    BY <1>n, <1>0, <1>s, UnitUpdates DEF FileFailed
  <2>3. failed' \in [Pairs -> Filing \union {NoFile}]
    BY <1>n, <2>1, <1>0, <1>u DEF FileFailed
  <2> QED BY <2>2, <2>3, <1>0, <1>n, WorkType DEF FileFailed
<1>o. ASSUME Unlink PROVE GrantsTypeOK'
  <2>1. pending' \in [Pairs -> Record \union {NoFile}]
    BY <1>o, <1>0, <1>u DEF Unlink
  <2> QED BY <2>1, <1>0, <1>o, AtRest, WorkType DEF Unlink
<1> QED
  BY <1>a, <1>b, <1>c, <1>d, <1>e, <1>f, <1>g, <1>h, <1>i, <1>j, <1>k, <1>l, <1>m, <1>n, <1>o
     DEF Apply

(* So do its faults, the orchestrator's retry and the operator's hand.     *)
LEMMA OtherType ==
  ASSUME GrantsTypeOK,
         \/ FileDoneFails \/ UnitDies \/ RetryQueues \/ RetryUnlinks
         \/ \E p \in Pairs : RetryReads(p) \/ LoseDone(p)
         \/ \E s \in Seats, g \in Groups : EditManifest(s, g)
  PROVE  GrantsTypeOK'
<1> USE DEF dirVars, seatVars, bounds
<1>0. /\ unit \in Working /\ retry \in Retrying
      /\ held \in [Seats -> SUBSET Groups] /\ receipts \subseteq Nat \X Seats
      /\ pending \in [Pairs -> Record \union {NoFile}]
      /\ done \in [Pairs -> Filing \union {NoFile}]
      /\ failed \in [Pairs -> Filing \union {NoFile}]
      /\ faults \in 0..MaxFaults /\ edits \in 0..MaxEdits
      /\ live \subseteq Pairs \X Seats \X Groups /\ cut \subseteq Pairs
  BY Parts
<1>u. unit.pair \in Pairs
  BY <1>0, UnitFields
<1>r. retry.pair \in Pairs /\ retry.req \in Record
  BY <1>0 DEF Retrying
<1>f. /\ faults < MaxFaults => faults + 1 \in 0..MaxFaults
      /\ edits < MaxEdits => edits + 1 \in 0..MaxEdits
  BY <1>0, GrantsAssumption
<1>a. ASSUME FileDoneFails PROVE GrantsTypeOK'
  <2>1. \A e \in Errors : [unit EXCEPT !.at = "fail", !.error = e] \in Working
    BY <1>0 DEF Working
  <2>2. unit' \in Working
    BY <1>a, <2>1 DEF FileDoneFails, Errors, Retryable
  <2> QED BY <2>2, <1>0, <1>u, <1>f, <1>a, WorkType DEF FileDoneFails
<1>b. ASSUME UnitDies PROVE GrantsTypeOK'
  BY <1>b, <1>0, <1>u, <1>f, AtRest, WorkType DEF UnitDies
<1>c. ASSUME NEW p \in Pairs, RetryReads(p) PROVE GrantsTypeOK'
  <2>1. failed[p] \in Filing
    BY <1>c, <1>0 DEF RetryReads
  <2>2. [cite |-> failed[p].cite, pre |-> failed[p].pre] \in Record
    BY <2>1, Records
  <2>3. retry' \in Retrying
    BY <1>c, <2>2 DEF RetryReads, Retrying
  <2> QED BY <2>3, <1>0, <1>c, WorkType DEF RetryReads
<1>d. ASSUME RetryQueues PROVE GrantsTypeOK'
  <2>1. retry' \in Retrying
    BY <1>d, <1>0, Records DEF RetryQueues, Retrying
  <2>2. pending' \in [Pairs -> Record \union {NoFile}]
    BY <1>d, <1>0, <1>r DEF RetryQueues
  <2> QED BY <2>1, <2>2, <1>0, <1>d, WorkType DEF RetryQueues
<1>e. ASSUME RetryUnlinks PROVE GrantsTypeOK'
  <2>1. retry' \in Retrying
    BY <1>e, AtRest, Records DEF RetryUnlinks, Retrying
  <2>2. failed' \in [Pairs -> Filing \union {NoFile}]
    BY <1>e, <1>0, <1>r DEF RetryUnlinks
  <2> QED BY <2>1, <2>2, <1>0, <1>e, WorkType DEF RetryUnlinks
<1>g. ASSUME NEW s \in Seats, NEW g \in Groups, EditManifest(s, g) PROVE GrantsTypeOK'
  <2>1. held' \in [Seats -> SUBSET Groups] /\ live' \subseteq live
    BY <1>g, <1>0 DEF EditManifest
  <2> QED BY <2>1, <1>0, <1>f, <1>g, WorkType DEF EditManifest
<1>h. ASSUME NEW p \in Pairs, LoseDone(p) PROVE GrantsTypeOK'
  <2>1. done' \in [Pairs -> Filing \union {NoFile}] /\ cut' \subseteq Pairs
    BY <1>h, <1>0 DEF LoseDone
  <2> QED BY <2>1, <1>0, <1>f, <1>h, WorkType DEF LoseDone
<1> QED
  BY <1>a, <1>b, <1>c, <1>d, <1>e, <1>g, <1>h

(* The first states have their types.                                      *)
LEMMA InitType ==
  GrantsInit => GrantsTypeOK /\ SeatAhead
<1> SUFFICES ASSUME GrantsInit PROVE GrantsTypeOK /\ SeatAhead
  OBVIOUS
<1>1. cites \in Seq(Pairs)
  BY DEF GrantsInit
<1>2. unit \in Working /\ retry \in Retrying
  BY AtRest, Records DEF GrantsInit, Retrying
<1>3. held \in [Seats -> SUBSET Groups]
  BY GrantsAssumption DEF GrantsInit
<1>4. faults \in 0..MaxFaults /\ edits \in 0..MaxEdits
  BY GrantsAssumption DEF GrantsInit
<1>5. draft \in [Callers -> Record]
  BY Records DEF GrantsInit
<1>6. SeatAhead
  BY AtRest DEF GrantsInit, SeatAhead
<1> QED
  BY <1>1, <1>2, <1>3, <1>4, <1>5, <1>6 DEF GrantsInit, GrantsTypeOK

(* While a group may be granted or undone, the citation is unspent.        *)
FreshWork ==
  unit.at \in {"seat", "grant", "undo"} => ~Spent(unit.req.cite)

(* A group in force is accounted for.                                      *)
LiveAccounted ==
  \A l \in live :
    \/ l[1] \in cut \/ done[l[1]] # NoFile
    \/ /\ unit.pair = l[1] /\ unit.at \in {"seat", "grant", "undo", "ink"}
       /\ <<l[2], l[3]>> \in ToSet(unit.granted)

(* What is kept besides the types.                                         *)
Kept == SeatAhead /\ FreshWork /\ LiveAccounted

(* The inductive invariant.                                                *)
GrantsInductive == GrantsTypeOK /\ Kept

(* A step that leaves the unit and the receipts alone, loses a done/ entry *)
(* only of a pair it cuts and puts no group in force keeps the strengthening. *)
LEMMA Elsewhere ==
  ASSUME GrantsTypeOK, Kept,
         UNCHANGED <<receipts, unit>>,
         \A p \in Pairs : done'[p] = done[p] \/ (done'[p] = NoFile /\ p \in cut'),
         live' \subseteq live, cut \subseteq cut'
  PROVE  Kept'
<1>1. SeatAhead'
  BY DEF Kept, SeatAhead
<1>2. FreshWork'
  BY DEF Kept, FreshWork, Spent
<1>3. LiveAccounted'
  <2>1. live \subseteq Pairs \X Seats \X Groups
    BY Parts
  <2> QED BY <2>1 DEF Kept, LiveAccounted
<1> QED BY <1>1, <1>2, <1>3 DEF Kept

(* Every step that is not the unit's is such a step.                       *)
LEMMA ElsewhereSteps ==
  ASSUME GrantsInductive,
         \/ \E c \in Callers : Request(c) \/ CallerDies(c)
         \/ RetryQueues \/ RetryUnlinks
         \/ \E p \in Pairs : RetryReads(p) \/ LoseDone(p)
         \/ \E s \in Seats, g \in Groups : EditManifest(s, g)
         \/ UNCHANGED grantVars
  PROVE  Kept'
<1> USE DEF dirVars, seatVars, bounds, askVars, GrantsInductive
<1>1. CASE UNCHANGED grantVars
  BY <1>1, Elsewhere DEF grantVars
<1>2. ASSUME NEW c \in Callers, Request(c) \/ CallerDies(c) PROVE Kept'
  <2>1. UNCHANGED <<receipts, unit, done, live, cut>>
    BY <1>2 DEF Request, CallerDies, Acquire, JudgeLock, Vacate, Vet, WriteFirst, CiteSecond,
                CiteRefused, SignLast, Unlock
  <2> QED BY <2>1, Elsewhere
<1>3. CASE RetryQueues \/ RetryUnlinks \/ \E p \in Pairs : RetryReads(p)
  <2>1. UNCHANGED <<receipts, unit, done, live, cut>>
    BY <1>3 DEF RetryQueues, RetryUnlinks, RetryReads
  <2> QED BY <2>1, Elsewhere
<1>4. ASSUME NEW p \in Pairs, LoseDone(p) PROVE Kept'
  <2>1. \A q \in Pairs : done'[q] = done[q] \/ (done'[q] = NoFile /\ q \in cut')
    BY <1>4, Parts DEF LoseDone
  <2>2. UNCHANGED <<receipts, unit>> /\ live' \subseteq live /\ cut \subseteq cut'
    BY <1>4 DEF LoseDone
  <2> QED BY <2>1, <2>2, Elsewhere
<1>5. ASSUME NEW s \in Seats, NEW g \in Groups, EditManifest(s, g)
      PROVE Kept'
  <2>1. UNCHANGED <<receipts, unit, done, cut>> /\ live' \subseteq live
    BY <1>5 DEF EditManifest
  <2> QED BY <2>1, Elsewhere
<1> QED BY <1>1, <1>2, <1>3, <1>4, <1>5

(* A step of the unit that stays with its record and its grants.           *)
Keeps ==
  unit'.pair = unit.pair /\ unit'.req = unit.req /\ unit'.granted = unit.granted

(* The unit's own steps keep the strengthening.                            *)
LEMMA UnitSteps ==
  ASSUME GrantsInductive, Apply \/ FileDoneFails \/ UnitDies
  PROVE  Kept'
<1> USE DEF dirVars, seatVars, bounds, GrantsInductive, SeatAhead, FreshWork, Spent, Keeps, Kept
<1>0. /\ live \subseteq Pairs \X Seats \X Groups /\ cut \subseteq Pairs
      /\ done \in [Pairs -> Filing \union {NoFile}]
  BY Parts
<1>u. /\ unit \in Working /\ unit.pair \in Pairs /\ unit.granted \in Seq(Seats \X Groups)
      /\ unit.seats \in Seq(Seats) /\ unit.groups \in Seq(Groups)
  BY Parts, UnitFields
<1>a. ASSUME NEW p \in Pairs, List(p) PROVE Kept'
  <2>1. unit.at = "rest" /\ unit'.at = "listed"
    BY <1>a, <1>u, AtRest DEF List, Working
  <2> QED BY <1>a, <2>1, <1>0, <1>u DEF List, LiveAccounted
<1>b. ASSUME Read PROVE Kept'
  <2>1. unit.at = "listed" /\ unit'.at \in {"fail", "judge"}
    BY <1>b, <1>u, AtRest DEF Read, Working
  <2> QED BY <1>b, <2>1, <1>0, <1>u DEF Read, LiveAccounted
<1>c. ASSUME Judge PROVE Kept'
  <2>1. unit.at = "judge" /\ \/ unit'.at = "fail"
                             \/ /\ unit'.at = "seat" /\ unit'.req = unit.req
                                /\ Verdict(unit.req, unit.pair) = ""
    BY <1>c, <1>u, AtRest DEF Judge, Working
  <2>2. Verdict(unit.req, unit.pair) = "" => ~Spent(unit.req.cite)
    BY DEF Verdict
  <2> QED BY <1>c, <2>1, <2>2, <1>0, <1>u DEF Judge, LiveAccounted
<1>d. ASSUME EnterSeat PROVE Kept'
  <2>1. unit.at = "seat" /\ unit'.at = "grant" /\ Keeps /\ unit'.seats = unit.seats
    BY <1>d, <1>u, AtRest DEF EnterSeat, Working
  <2> QED BY <1>d, <2>1, <1>0, <1>u DEF EnterSeat, LiveAccounted
<1>f. ASSUME PassGroup PROVE Kept'
  <2>1. unit.at = "grant" /\ unit'.at = "grant" /\ Keeps /\ unit'.seats = unit.seats
    BY <1>f, <1>u, AtRest DEF PassGroup, Working
  <2> QED BY <1>f, <2>1, <1>0, <1>u DEF PassGroup, LiveAccounted
<1>g. ASSUME LeaveSeat PROVE Kept'
  <2>1. unit.at = "grant" /\ unit'.at = "seat" /\ Keeps
    BY <1>g, <1>u, AtRest DEF LeaveSeat, Working
  <2> QED BY <1>g, <2>1, <1>0, <1>u DEF LeaveSeat, LiveAccounted
<1>h. ASSUME GrantFails PROVE Kept'
  <2>1. unit.at = "grant" /\ unit'.at = "undo" /\ Keeps
    BY <1>h, <1>u, AtRest DEF GrantFails, Working
  <2> QED BY <1>h, <2>1, <1>0, <1>u DEF GrantFails, LiveAccounted
<1>e. ASSUME GrantGroup PROVE Kept'
  <2>1. unit.at = "grant" /\ unit'.at = "grant" /\ unit'.seats = unit.seats
        /\ unit'.pair = unit.pair /\ unit'.req = unit.req
        /\ unit'.granted = Append(unit.granted, <<Head(unit.seats), Head(unit.groups)>>)
    BY <1>e, <1>u, AtRest DEF GrantGroup, Working
  <2>2. <<Head(unit.seats), Head(unit.groups)>> \in Seats \X Groups
    BY <1>e, <1>u, HeadTailProperties DEF GrantGroup
  <2>3. ToSet(unit'.granted) = ToSet(unit.granted) \union {<<Head(unit.seats), Head(unit.groups)>>}
    <3> DEFINE q == unit.granted  x == <<Head(unit.seats), Head(unit.groups)>>
    <3>1. q \in Seq(Seats \X Groups) /\ x \in Seats \X Groups
      BY <2>2, <1>u
    <3>2. ToSet(Append(q, x)) = ToSet(q) \union {x}
      <4> HIDE DEF q, x
      <4> QED BY <3>1, AppendFacts
    <3> QED BY <2>1, <3>2
  <2>4. LiveAccounted'
    <3>1. live' = live \union {<<unit.pair, Head(unit.seats), Head(unit.groups)>>}
      BY <1>e DEF GrantGroup
    <3>2. UNCHANGED <<cut, done>>
      BY <1>e DEF GrantGroup
    <3> SUFFICES ASSUME NEW l \in live'
                 PROVE  \/ l[1] \in cut' \/ done'[l[1]] # NoFile
                        \/ /\ unit'.pair = l[1] /\ unit'.at \in {"seat", "grant", "undo", "ink"}
                           /\ <<l[2], l[3]>> \in ToSet(unit'.granted)
      BY DEF LiveAccounted
    <3>3. CASE l \in live
      BY <2>1, <2>3, <3>2, <3>3 DEF LiveAccounted
    <3>4. CASE l = <<unit.pair, Head(unit.seats), Head(unit.groups)>>
      <4>1. l[1] = unit.pair /\ <<l[2], l[3]>> = <<Head(unit.seats), Head(unit.groups)>>
        BY <3>4
      <4> QED BY <4>1, <2>1, <2>3
    <3> QED BY <3>1, <3>3, <3>4
  <2> QED BY <1>e, <2>1, <2>4, <1>0, <1>u DEF GrantGroup
<1>i. ASSUME UndoGroup PROVE Kept'
  <2>1. unit.at = "undo" /\ unit'.at = "undo" /\ unit'.pair = unit.pair /\ unit'.req = unit.req
        /\ unit'.granted = Front(unit.granted) /\ unit.granted # <<>>
    BY <1>i, <1>u, AtRest DEF UndoGroup, Working
  <2>2. \A x \in ToSet(unit.granted) : x = Last(unit.granted) \/ x \in ToSet(unit'.granted)
    BY <2>1, <1>u, FrontFacts
  <2>3. LiveAccounted'
    <3>1. CASE live' = {l \in live : <<l[2], l[3]>> # Last(unit.granted)} /\ UNCHANGED cut
      BY <1>i, <3>1, <2>1, <2>2, <1>0, <1>u DEF UndoGroup, LiveAccounted
    <3>2. CASE cut' = cut \union {unit.pair} /\ UNCHANGED <<held, live>>
      BY <1>i, <3>2, <2>1, <1>0, <1>u DEF UndoGroup, LiveAccounted
    <3> QED BY <1>i, <3>1, <3>2 DEF UndoGroup
  <2> QED BY <1>i, <2>1, <2>3 DEF UndoGroup
<1>j. ASSUME Undone PROVE Kept'
  <2>1. unit.at = "undo" /\ unit'.at = "fail" /\ ToSet(unit.granted) = {}
    BY <1>j, <1>u, AtRest DEF Undone, Working, ToSet
  <2> QED BY <1>j, <2>1, <1>0, <1>u DEF Undone, LiveAccounted
<1>k. ASSUME AllGranted PROVE Kept'
  <2>1. unit.at = "seat" /\ unit'.at = "ink" /\ Keeps
    BY <1>k, <1>u, AtRest DEF AllGranted, Working
  <2> QED BY <1>k, <2>1, <1>0, <1>u DEF AllGranted, LiveAccounted
<1>l. ASSUME InkReceipt PROVE Kept'
  <2>1. unit.at = "ink" /\ unit'.at = "ink" /\ Keeps
    BY <1>l, <1>u, AtRest DEF InkReceipt, Working
  <2> QED BY <1>l, <2>1, <1>0, <1>u DEF InkReceipt, LiveAccounted
<1>m. ASSUME FileDone PROVE Kept'
  <2>1. unit.at = "ink" /\ unit'.at = "unlink"
    BY <1>m, <1>u, AtRest DEF FileDone, Working
  <2>2. Filed([Blank EXCEPT !.cite = unit.req.cite], "") # NoFile
    BY <1>u, UnitFields, Records, FileAssumption DEF Errors
  <2> QED BY <1>m, <2>1, <2>2, <1>0, <1>u DEF FileDone, LiveAccounted
<1>n. ASSUME FileFailed PROVE Kept'
  <2>1. unit.at = "fail" /\ unit'.at = "unlink"
    BY <1>n, <1>u, AtRest DEF FileFailed, Working
  <2> QED BY <1>n, <2>1, <1>0, <1>u DEF FileFailed, LiveAccounted
<1>o. ASSUME Unlink PROVE Kept'
  <2>1. unit.at = "unlink" /\ unit'.at = "rest"
    BY <1>o, <1>u, AtRest DEF Unlink, Working
  <2> QED BY <1>o, <2>1, <1>0, <1>u DEF Unlink, LiveAccounted
<1>p. ASSUME FileDoneFails PROVE Kept'
  <2>1. unit.at = "ink" /\ unit'.at = "fail"
    BY <1>p, <1>u, AtRest DEF FileDoneFails, Working
  <2> QED BY <1>p, <2>1, <1>0, <1>u DEF FileDoneFails, LiveAccounted
<1>q. ASSUME UnitDies PROVE Kept'
  <2>1. unit'.at = "rest"
    BY <1>q, <1>u, AtRest DEF UnitDies, Working
  <2>2. unit.granted = <<>> => ToSet(unit.granted) = {}
    BY DEF ToSet
  <2> QED BY <1>q, <2>1, <2>2, <1>0, <1>u DEF UnitDies, LiveAccounted
<1> QED
  BY <1>a, <1>b, <1>c, <1>d, <1>e, <1>f, <1>g, <1>h, <1>i, <1>j, <1>k, <1>l, <1>m, <1>n, <1>o,
     <1>p, <1>q DEF Apply

(* The invariant holds at first ...                                        *)
LEMMA InductiveInit == GrantsInit => GrantsInductive
<1> SUFFICES ASSUME GrantsInit PROVE GrantsInductive
  OBVIOUS
<1>1. GrantsTypeOK /\ SeatAhead
  BY InitType
<1>2. FreshWork
  BY AtRest DEF GrantsInit, FreshWork
<1>3. LiveAccounted
  BY DEF GrantsInit, LiveAccounted
<1> QED
  BY <1>1, <1>2, <1>3 DEF GrantsInductive, Kept

(* ... and every step keeps it.                                            *)
LEMMA InductiveStep ==
  GrantsInductive /\ [GrantsNext]_grantVars => GrantsInductive'
<1> SUFFICES ASSUME GrantsInductive, [GrantsNext]_grantVars PROVE GrantsInductive'
  OBVIOUS
<1> USE DEF GrantsInductive, Kept
<1>1. CASE UNCHANGED grantVars
  <2>1. GrantsTypeOK'
    BY <1>1, Parts, WorkType DEF grantVars, dirVars, seatVars, bounds
  <2> QED BY <1>1, <2>1, ElsewhereSteps
<1>2. CASE Apply
  BY <1>2, ApplyType, UnitSteps
<1>3. CASE FileDoneFails \/ UnitDies
  BY <1>3, OtherType, UnitSteps
<1>4. ASSUME NEW c \in Callers, Request(c) \/ CallerDies(c) PROVE GrantsInductive'
  BY <1>4, AskActions, ElsewhereSteps
<1>5. CASE \/ RetryQueues \/ RetryUnlinks
           \/ \E p \in Pairs : RetryReads(p) \/ LoseDone(p)
           \/ \E s \in Seats, g \in Groups : EditManifest(s, g)
  BY <1>5, OtherType, ElsewhereSteps
<1> QED
  BY <1>1, <1>2, <1>3, <1>4, <1>5 DEF GrantsNext

(* The inductive invariant holds of manifest.grant.                        *)
THEOREM GrantsInductiveCorrect == GrantsSpec => []GrantsInductive
  BY InductiveInit, InductiveStep, PTL DEF GrantsSpec

(* Type correctness of the request, the unit, the retry and the directories. *)
THEOREM GrantsTypeCorrect == GrantsSpec => []GrantsTypeOK
<1>1. GrantsInductive => GrantsTypeOK
  BY DEF GrantsInductive
<1> QED
  BY <1>1, GrantsInductiveCorrect, PTL

(* _apply_one is all or nothing: a pair reported failed, whose apply neither *)
(* died nor failed to undo, left no group in force on any seat.            *)
THEOREM GrantsAllOrNothing == GrantsSpec => []AllOrNothing
<1>1. GrantsInductive => AllOrNothing
  BY Parts DEF GrantsInductive, Kept, LiveAccounted, AllOrNothing, Status, Busy
<1> QED
  BY <1>1, GrantsInductiveCorrect, PTL

(* A citation that done/ or a manifest_granted event names never grants    *)
(* again (the REPLAY checks of _apply_one).                                *)
THEOREM OneGrantPerCitation == GrantsSpec => SpentNeverGrants
<1> DEFINE Fresh == GrantGroup => /\ \A p \in Pairs : done[p] # NoFile => done[p].cite # unit.req.cite
                                  /\ \A r \in receipts : r[1] # unit.req.cite
<1>1. GrantsInductive => Fresh
  BY DEF GrantsInductive, Kept, FreshWork, Spent, GrantGroup
<1>2. GrantsInductive /\ [GrantsNext]_grantVars => [Fresh]_grantVars
  BY <1>1
<1> QED
  BY <1>2, GrantsInductiveCorrect, PTL DEF GrantsSpec, SpentNeverGrants

(* No group is undone whose grant has a receipt: the receipts come after the *)
(* last step that can fail (_apply_one).                                   *)
THEOREM NoReceiptUndone == GrantsSpec => ReceiptsStand
<1> DEFINE Stands == UndoGroup => \A r \in receipts : r[1] # unit.req.cite
<1>1. GrantsInductive => Stands
  BY DEF GrantsInductive, Kept, FreshWork, Spent, UndoGroup
<1>2. GrantsInductive /\ [GrantsNext]_grantVars => [Stands]_grantVars
  BY <1>1
<1> QED
  BY <1>2, GrantsInductiveCorrect, PTL DEF GrantsSpec, ReceiptsStand
=============================================================================
