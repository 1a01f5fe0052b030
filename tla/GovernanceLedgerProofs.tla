----------------------- MODULE GovernanceLedgerProofs -----------------------
(***************************************************************************)
(* The governance ledger: lock and quota, the table and its anchor, and    *)
(* the refinement of CitationLog.                                          *)
(*                                                                         *)
(* The session that holds the lock holds it for the calls that are inside  *)
(* (LockOK), and an act spends a grant that was stored for it              *)
(* (GrantsCover), whatever calls share a session.  Where each call has a   *)
(* session of its own, the calls inside exclude each other, so the count a *)
(* call took under the lock stands at its INSERT (CountStands), whatever   *)
(* writers without the lock, relinkings and edits do to other rows.        *)
(***************************************************************************)
EXTENDS GovernanceLedger, FiniteSetTheorems, SequenceTheorems, WellFoundedInduction, TLAPS

Steps == {"idle", "lock", "count", "head", "insert", "scan", "relink", "mark", "unlock", "act"}

-----------------------------------------------------------------------------
(* Hashes and rows. *)

LEMMA PlainTyped == Plain \in Contents /\ Plain.outcome = "none" /\ NoHash \in Seq(Hashed)
BY DEF Plain, Contents, Outcomes, NoHash

LEMMA NoArgTyped ==
  NoArg \in Args /\ ~NoArg.stored /\ NoArg.content = Plain /\ NoArg.tries = 0
BY PlainTyped DEF NoArg, Args, MaxTries

LEMMA CitesTyped ==
  ASSUME NEW e \in Envelopes, NEW outcome \in Outcomes
  PROVE  /\ Cites(e, outcome) \in Contents
         /\ Cites(e, outcome).envelope = e /\ Cites(e, outcome).outcome = outcome
BY DEF Cites, Contents

LEMMA DigestTyped ==
  ASSUME NEW prev \in Seq(Hashed), NEW i \in Nat, NEW content \in Contents
  PROVE  Digest2(prev, i, content) \in Seq(Hashed)
<1>1. [id |-> i, content |-> content] \in Hashed
  BY DEF Hashed
<1> QED BY <1>1 DEF Digest2

LEMMA LegacyTyped == \A n \in Nat : LegacyHash(n) \in Seq(Hashed)
<1> TAKE n \in Nat
<1>1. [id |-> 0, content |-> Plain] \in Hashed
  BY PlainTyped DEF Hashed
<1>2. LegacyHash(n) \in [1..n -> Hashed]
  BY <1>1 DEF LegacyHash
<1> QED BY <1>2

LEMMA TipTyped ==
  ASSUME TypeOK
  PROVE  Tip \in Seq(Hashed)
<1>1. rows \in Seq(Rows)
  BY DEF TypeOK
<1>2. CASE rows = <<>>
  BY <1>2, PlainTyped DEF Tip
<1>3. CASE rows # <<>>
  <2>1. rows[Len(rows)] \in Rows
    BY <1>1, <1>3
  <2> QED BY <1>3, <2>1 DEF Tip, Rows
<1> QED BY <1>2, <1>3

\* What Store does to the table.
LEMMA StoreEffect ==
  ASSUME TypeOK, NEW content \in Contents, NEW prev \in Seq(Hashed), Store(content, prev)
  PROVE  /\ rows' \in Seq(Rows)
         /\ DOMAIN rows = 1..Len(rows) /\ Len(rows) \in Nat
         /\ DOMAIN rows' = 1..(Len(rows) + 1)
         /\ rows'[Len(rows) + 1].content = content
         /\ \A i \in 1..Len(rows) : rows'[i] = rows[i]
<1> DEFINE new == [content |-> content, prev |-> prev,
                   hash |-> Digest2(prev, Len(rows) + 1, content)]
<1>1. rows \in Seq(Rows) /\ Len(rows) \in Nat
  BY DEF TypeOK
<1>2. new \in Rows
  BY <1>1, DigestTyped DEF Rows
<1>3. rows' = Append(rows, new)
  BY DEF Store
<1>4. new.content = content
  OBVIOUS
<1> HIDE DEF new
<1> QED BY <1>1, <1>2, <1>3, <1>4

-----------------------------------------------------------------------------
(* Counting grants. *)

IsGrant(r, e) == r.content.envelope = e /\ r.content.outcome = "granted"

LEMMA GrantsFinite ==
  ASSUME TypeOK, NEW e
  PROVE  /\ IsFiniteSet({i \in DOMAIN rows : IsGrant(rows[i], e)})
         /\ Granted(e) = Cardinality({i \in DOMAIN rows : IsGrant(rows[i], e)})
         /\ Granted(e) \in Nat
<1>1. DOMAIN rows = 1..Len(rows) /\ Len(rows) \in Nat
  BY DEF TypeOK
<1>2. IsFiniteSet(1..Len(rows))
  BY <1>1, FS_Interval
<1>3. IsFiniteSet({i \in DOMAIN rows : IsGrant(rows[i], e)})
  BY <1>1, <1>2, FS_Subset
<1>4. Granted(e) = Cardinality({i \in DOMAIN rows : IsGrant(rows[i], e)})
  BY DEF Granted, IsGrant
<1> QED BY <1>3, <1>4, FS_CardinalityType

\* The rows say the same of the same envelopes.
SameGrants == /\ DOMAIN rows' = DOMAIN rows
              /\ \A i \in DOMAIN rows : /\ rows'[i].content.envelope = rows[i].content.envelope
                                        /\ rows'[i].content.outcome = rows[i].content.outcome

LEMMA SameGranted ==
  ASSUME SameGrants, NEW e
  PROVE  Granted(e)' = Granted(e)
<1>1. {i \in DOMAIN rows' : rows'[i].content.envelope = e /\ rows'[i].content.outcome = "granted"}
      = {i \in DOMAIN rows : rows[i].content.envelope = e /\ rows[i].content.outcome = "granted"}
  BY DEF SameGrants
<1> QED BY <1>1 DEF Granted

\* A row stored adds one to the grants of its envelope, if it is a grant.
LEMMA StoreGranted ==
  ASSUME TypeOK, NEW content \in Contents, NEW prev \in Seq(Hashed), Store(content, prev), NEW e
  PROVE  Granted(e)' = IF content.envelope = e /\ content.outcome = "granted"
                       THEN Granted(e) + 1 ELSE Granted(e)
<1> DEFINE old == {i \in DOMAIN rows : IsGrant(rows[i], e)}
           new == {i \in DOMAIN rows' : IsGrant(rows'[i], e)}
           n   == Len(rows)
<1>1. /\ DOMAIN rows = 1..n /\ n \in Nat /\ DOMAIN rows' = 1..(n + 1)
      /\ rows'[n + 1].content = content
      /\ \A i \in 1..n : rows'[i] = rows[i]
  BY StoreEffect
<1>2. IsFiniteSet(old) /\ Granted(e) = Cardinality(old) /\ Granted(e) \in Nat
  BY GrantsFinite
<1>3. Granted(e)' = Cardinality(new)
  BY DEF Granted, IsGrant
<1>4. 1..(n + 1) = (1..n) \cup {n + 1} /\ n + 1 \notin 1..n
  BY <1>1
<1>5. CASE content.envelope = e /\ content.outcome = "granted"
  <2>1. new = old \cup {n + 1} /\ n + 1 \notin old
    BY <1>1, <1>4, <1>5 DEF IsGrant
  <2>2. Cardinality(new) = Cardinality(old) + 1
    BY <1>2, <2>1, FS_AddElement
  <2> QED BY <1>2, <1>3, <1>5, <2>2
<1>6. CASE ~(content.envelope = e /\ content.outcome = "granted")
  <2>1. new = old
    BY <1>1, <1>4, <1>6 DEF IsGrant
  <2> QED BY <1>2, <1>3, <1>6, <2>1
<1> QED BY <1>5, <1>6

-----------------------------------------------------------------------------
(* Type correctness. *)

LEMMA TypeInit == Init => TypeOK
<1> SUFFICES ASSUME Init PROVE TypeOK
  OBVIOUS
<1>1. rows \in Seq(Rows)
  <2>1. \A i \in 1..Legacy : [content |-> Plain, prev |-> LegacyHash(i - 1),
                              hash |-> LegacyHash(i)] \in Rows
    <3> TAKE i \in 1..Legacy
    <3>1. i \in Nat /\ i - 1 \in Nat
      BY BoundsAssumption
    <3>2. LegacyHash(i) \in Seq(Hashed) /\ LegacyHash(i - 1) \in Seq(Hashed)
      BY <3>1, LegacyTyped
    <3> QED BY <3>2, PlainTyped DEF Rows
  <2>2. rows \in [1..Legacy -> Rows]
    BY <2>1 DEF Init
  <2> QED BY <2>2, BoundsAssumption
<1>2. arg \in [Writers -> Args]
  BY NoArgTyped DEF Init
<1>3. vouched \in Seq(Rows) /\ checked \in Seq(Rows)
  BY DEF Init
<1> QED BY <1>1, <1>2, <1>3 DEF Init, TypeOK

\* A hash recomputed over a row keeps it a row, and says the same.
LEMMA RelinkTyped ==
  ASSUME TypeOK, NEW c \in Writers, Relink(c), arg[c].at > 0
  PROVE  /\ rows' \in Seq(Rows)
         /\ SameGrants
         /\ arg' \in [Writers -> Args]
         /\ arg'[c].at > 0
         /\ arg'[c].content = arg[c].content /\ arg'[c].stored = arg[c].stored
         /\ arg'[c].tries = arg[c].tries
         /\ \A d \in Writers \ {c} : arg'[d] = arg[d]
<1> DEFINE i      == arg[c].at
           digest == Digest2(arg[c].prev, i, arg[c].seen[i].content)
           stale  == digest # arg[c].seen[i].hash
           migrated == arg[c].migrated \/ stale
<1>1. arg[c] \in Args /\ rows \in Seq(Rows)
  BY DEF TypeOK
<1>2. i \in Nat /\ arg[c].seen \in Seq(Rows) /\ arg[c].prev \in Seq(Hashed)
  BY <1>1 DEF Args
<1>3. i > 0 /\ i <= Len(arg[c].seen)
  BY DEF Relink
<1>4. arg[c].seen[i] \in Rows
  BY <1>2, <1>3
<1>5. digest \in Seq(Hashed)
  BY <1>2, <1>4, DigestTyped DEF Rows
<1>6. rows' = IF stale THEN [rows EXCEPT ![i] = [rows[i] EXCEPT !.prev = arg[c].prev, !.hash = digest]]
              ELSE rows
  BY DEF Relink
<1>7. arg' = [arg EXCEPT ![c] = [arg[c] EXCEPT !.at = i + 1, !.prev = digest,
                                               !.migrated = migrated]]
  BY DEF Relink
<1>a. migrated \in BOOLEAN
  BY <1>1 DEF Args
<1> HIDE DEF i, digest, stale, migrated
<1>8. rows' \in Seq(Rows) /\ SameGrants
  <2>1. CASE i \in DOMAIN rows /\ stale
    <3> DEFINE r == [rows[i] EXCEPT !.prev = arg[c].prev, !.hash = digest]
    <3>1. rows[i] \in Rows
      BY <1>1, <2>1
    <3>2. r \in Rows /\ r.content = rows[i].content
      BY <1>2, <1>5, <3>1 DEF Rows
    <3> HIDE DEF r
    <3>3. rows' = [rows EXCEPT ![i] = r]
      BY <1>6, <2>1 DEF r
    <3>4. rows' \in Seq(Rows) /\ DOMAIN rows' = DOMAIN rows
      BY <1>1, <2>1, <3>2, <3>3
    <3>5. rows'[i] = r /\ \A j \in DOMAIN rows : j # i => rows'[j] = rows[j]
      BY <1>1, <2>1, <3>3
    <3> QED BY <3>2, <3>4, <3>5 DEF SameGrants
  <2>2. CASE ~(i \in DOMAIN rows /\ stale)
    <3>1. rows' = rows
      BY <1>1, <1>6, <2>2
    <3> QED BY <1>1, <3>1 DEF SameGrants
  <2> QED BY <2>1, <2>2
<1>9. [arg[c] EXCEPT !.at = i + 1, !.prev = digest, !.migrated = migrated] \in Args
  <2>1. i + 1 \in Nat
    BY <1>2
  <2> DEFINE a1 == [arg[c] EXCEPT !.migrated = migrated]
             a2 == [a1 EXCEPT !.prev = digest]
             a3 == [a2 EXCEPT !.at = i + 1]
  <2>2. a1 \in Args
    BY Zenon, <1>1, <1>a DEF Args
  <2> HIDE DEF a1
  <2>3. a2 \in Args
    BY <2>2, <1>5 DEF Args
  <2>4. a3 \in Args
    BY <2>1, <2>3 DEF Args
  <2> QED BY <2>4 DEF a1
<1>10. arg' \in [Writers -> Args]
  BY <1>7, <1>9 DEF TypeOK
<1>11. arg'[c] = [arg[c] EXCEPT !.at = i + 1, !.prev = digest, !.migrated = migrated]
  BY <1>7 DEF TypeOK
<1>12. /\ arg'[c].at > 0
       /\ arg'[c].content = arg[c].content /\ arg'[c].stored = arg[c].stored
       /\ arg'[c].tries = arg[c].tries
  BY <1>1, <1>2, <1>11 DEF Args
<1>13. \A d \in Writers \ {c} : arg'[d] = arg[d]
  BY <1>7 DEF TypeOK
<1> QED BY <1>8, <1>10, <1>12, <1>13

LEMMA EditTyped ==
  ASSUME TypeOK, NEW i \in DOMAIN rows, Edit(i)
  PROVE  rows' \in Seq(Rows) /\ SameGrants
<1>1. rows \in Seq(Rows) /\ rows[i] \in Rows /\ edits \in Nat
  BY DEF TypeOK
<1>2. rows[i].content \in Contents /\ edits + 1 \in Nat
  BY <1>1 DEF Rows
<1> DEFINE content == [rows[i].content EXCEPT !.text = edits + 1]
           r       == [rows[i] EXCEPT !.content = content]
<1>3. /\ content \in Contents
      /\ content.envelope = rows[i].content.envelope
      /\ content.outcome = rows[i].content.outcome
  BY <1>2 DEF Contents
<1>4. rows' = [rows EXCEPT ![i] = r]
  BY <1>1, <1>2 DEF Edit, Rows, Contents
<1> HIDE DEF content
<1>5. r \in Rows /\ r.content = content
  BY <1>1, <1>3 DEF Rows
<1> HIDE DEF r
<1>6. rows' \in Seq(Rows) /\ DOMAIN rows' = DOMAIN rows
  BY <1>1, <1>4, <1>5
<1>7. rows'[i] = r /\ \A j \in DOMAIN rows : j # i => rows'[j] = rows[j]
  BY <1>1, <1>4
<1> QED BY <1>3, <1>5, <1>6, <1>7 DEF SameGrants

\* The fields of what a call carries that its steps change.
LEMMA ArgSet ==
  ASSUME NEW a \in Args, NEW content \in Contents, NEW prev \in Seq(Hashed), NEW n \in Nat,
         NEW b \in BOOLEAN, NEW tries \in 0..MaxTries, NEW seen \in Seq(Rows)
  PROVE  /\ [a EXCEPT !.content = content] \in Args
         /\ [a EXCEPT !.prev = prev] \in Args
         /\ [a EXCEPT !.at = n, !.force = b] \in Args
         /\ [a EXCEPT !.tries = tries] \in Args
         /\ [a EXCEPT !.content = content, !.stored = TRUE] \in Args
         /\ [a EXCEPT !.seen = seen, !.at = n, !.prev = prev] \in Args
BY DEF Args

\* The other writers are where they were, with what they carried.
Others(c) == \A d \in Writers \ {c} : pc'[d] = pc[d] /\ arg'[d] = arg[d]

LEMMA GoTyped ==
  ASSUME TypeOK, NEW c \in Writers, NEW step \in Steps, NEW a \in Args,
         Go(c, step), arg' = [arg EXCEPT ![c] = a] \/ (arg' = arg /\ a = arg[c])
  PROVE  /\ pc' \in [Writers -> Steps] /\ arg' \in [Writers -> Args]
         /\ pc'[c] = step /\ arg'[c] = a /\ Others(c)
<1>1. pc \in [Writers -> Steps] /\ arg \in [Writers -> Args]
  BY DEF TypeOK, Steps
<1> QED BY <1>1 DEF Go, Others

LEMMA ReturnTyped ==
  ASSUME TypeOK, NEW c \in Writers, Return(c)
  PROVE  /\ pc' \in [Writers -> Steps] /\ arg' \in [Writers -> Args]
         /\ pc'[c] = "idle" /\ arg'[c] = NoArg /\ Others(c)
<1>1. pc \in [Writers -> Steps] /\ arg \in [Writers -> Args]
  BY DEF TypeOK, Steps
<1> QED BY <1>1, NoArgTyped DEF Return, Others, Steps

\* What an append stores is a row.
LEMMA StoreTyped ==
  ASSUME TypeOK, NEW content \in Contents, NEW prev \in Seq(Hashed),
         Store(content, prev) \/ UNCHANGED rows
  PROVE  rows' \in Seq(Rows)
<1>1. CASE Store(content, prev)
  BY <1>1, StoreEffect
<1>2. CASE UNCHANGED rows
  BY <1>2 DEF TypeOK
<1> QED BY <1>1, <1>2

\* The lock is taken as often as there are calls inside, by their session.
LockSound == LockOK /\ IsFiniteSet(InsideCalls)

LEMMA InsideCounts ==
  ASSUME LockSound
  PROVE  depth \in Nat /\ \A c \in InsideCalls : depth > 0
<1>1. depth = Cardinality(InsideCalls) /\ depth \in Nat
  BY FS_CardinalityType DEF LockSound, LockOK
<1>2. InsideCalls # {} => depth # 0
  BY <1>1, FS_EmptySet DEF LockSound
<1> QED BY <1>1, <1>2

LEMMA TypeCall ==
  ASSUME TypeOK, LockSound, GrantsAreOfEnvelopes, ActsAreGranted, RelinkHasBegun,
         TriesAreLeft, NEW c \in Callers, Call(c)
  PROVE  TypeOK'
<1> DEFINE Kept == /\ holder \in Sessions \cup {NoSession} /\ depth \in Nat
                   /\ acts \in [Envelopes -> Nat] /\ anchor \in Seq(Hashed) \cup {NoAnchor}
                   /\ vouched \in Seq(Rows) /\ checked \in Seq(Rows)
                   /\ intact \in BOOLEAN /\ edits \in Nat
           Moved == pc' \in [Writers -> Steps] /\ arg' \in [Writers -> Args]
<1>1. /\ c \in Writers /\ arg[c] \in Args /\ rows \in Seq(Rows) /\ Kept
      /\ arg[c].content \in Contents /\ arg[c].prev \in Seq(Hashed) /\ SessionOf[c] \in Sessions
  BY SMTT(40), SessionsAssumption DEF TypeOK, Args, Writers
<1>2. ASSUME Kept', Moved, rows' \in Seq(Rows) PROVE TypeOK'
  <2>1. pc' \in [Writers -> Steps] /\ arg' \in [Writers -> Args]
    BY <1>2
  <2> QED BY Zenon, <1>2, <2>1 DEF TypeOK, Steps
<1>0. 0 \in 0..MaxTries /\ <<>> \in Seq(Rows)
  BY SMTT(40) DEF MaxTries
<1>3. ASSUME NEW content \in Contents, NEW prev \in Seq(Hashed), NEW n \in Nat, NEW b \in BOOLEAN
      PROVE  /\ [arg[c] EXCEPT !.content = content] \in Args
             /\ [arg[c] EXCEPT !.prev = prev] \in Args
             /\ [arg[c] EXCEPT !.at = n, !.force = b] \in Args
  BY <1>1, <1>0, ArgSet
<1>4. CASE Begin(c)
  <2>1. Moved
    BY <1>1, <1>4, GoTyped DEF Begin, Steps
  <2> QED BY <1>1, <1>2, <1>4, <2>1 DEF Begin, keeping
<1>5. CASE BeginRechain(c)
  <2>1. PICK b \in BOOLEAN : arg' = [arg EXCEPT ![c] = [arg[c] EXCEPT !.at = 0, !.force = b]]
    BY <1>5 DEF BeginRechain
  <2>2. Moved
    BY <1>1, <1>3, <1>5, <2>1, PlainTyped, GoTyped DEF BeginRechain, Steps
  <2> QED BY <1>1, <1>2, <1>5, <2>2 DEF BeginRechain, keeping
<1>6. ASSUME NEW e \in Envelopes, Cite(c, e) PROVE TypeOK'
  <2>1. PICK outcome \in Outcomes :
          arg' = [arg EXCEPT ![c] = [arg[c] EXCEPT !.content = Cites(e, outcome)]]
    BY <1>6 DEF Cite, Outcomes
  <2>2. [arg[c] EXCEPT !.content = Cites(e, outcome)] \in Args
    <3>1. Cites(e, outcome) \in Contents
      BY CitesTyped
    <3> QED BY <1>0, <1>3, <3>1, PlainTyped
  <2>3. Moved
    BY <1>1, <1>6, <2>1, <2>2, GoTyped DEF Cite, Steps
  <2> QED BY <1>1, <1>2, <1>6, <2>3 DEF Cite, keeping
<1>7. CASE Lock(c)
  <2>1. Moved
    BY <1>1, <1>7, GoTyped DEF Lock, Steps
  <2> QED BY <1>1, <1>2, <1>7, <2>1 DEF Lock, keeping
<1>8. CASE Count(c)
  <2>1. Moved
    <3>1. CASE Exhausted(arg[c].content.envelope)
      <4>1. Cites(arg[c].content.envelope, "EDQUOT") \in Contents
        BY <1>1 DEF Cites, Contents, Outcomes
      <4> QED BY <1>1, <1>3, <1>8, <3>1, <4>1, PlainTyped, GoTyped DEF Count, Steps
    <3>2. CASE ~Exhausted(arg[c].content.envelope)
      BY <1>1, <1>8, <3>2, GoTyped DEF Count, Steps
    <3> QED BY <3>1, <3>2
  <2> QED BY <1>1, <1>2, <1>8, <2>1 DEF Count, keeping
<1>9. CASE ReadHead(c)
  <2>1. Moved
    BY <1>1, <1>3, <1>9, TipTyped, PlainTyped, GoTyped DEF ReadHead, Steps
  <2> QED BY SMTT(40), <1>1, <1>2, <1>9, <2>1 DEF ReadHead, keeping
<1>10. CASE Insert(c)
  <2>1. rows' \in Seq(Rows)
    BY <1>1, <1>10, StoreTyped DEF Insert
  <2>2. Moved
    <3>1. CASE arg' = [arg EXCEPT ![c] = [NoArg EXCEPT !.content = arg[c].content, !.stored = TRUE]]
                 /\ Go(c, "unlock")
      <4>1. [NoArg EXCEPT !.content = arg[c].content, !.stored = TRUE] \in Args
        BY <1>1, NoArgTyped, <1>0, ArgSet
      <4> QED BY <1>1, <3>1, <4>1, GoTyped DEF Steps
    <3>2. CASE /\ arg' = [arg EXCEPT ![c] = [arg[c] EXCEPT !.tries = arg[c].tries + 1]]
               /\ Go(c, IF arg[c].tries + 1 = MaxTries THEN "unlock" ELSE "head")
      <4>1. [arg[c] EXCEPT !.tries = arg[c].tries + 1] \in Args
        <5>1. arg[c].tries + 1 \in 0..MaxTries
          <6>1. arg[c].tries \in 0..5
            BY <1>1 DEF Args, MaxTries
          <6>2. arg[c].tries < 5
            BY <1>10 DEF Insert, TriesAreLeft, MaxTries
          <6> QED BY <6>1, <6>2 DEF MaxTries
        <5> QED BY <1>0, <1>1, <5>1, ArgSet, PlainTyped
      <4> QED BY <1>1, <3>2, <4>1, GoTyped DEF Steps
    <3> QED BY <1>10, <3>1, <3>2 DEF Insert
  <2> QED BY <1>1, <1>2, <1>10, <2>1, <2>2 DEF Insert, keeping
<1>11. CASE Unlock(c)
  <2>1. Moved
    BY <1>1, <1>11, GoTyped, ReturnTyped DEF Unlock, Steps
  <2>2. depth' \in Nat
    <3>1. c \in InsideCalls
      BY <1>11 DEF Unlock, InsideCalls, Inside
    <3>2. depth > 0
      BY <3>1, InsideCounts
    <3> QED BY <1>1, <1>11, <3>2 DEF Unlock
  <2> QED BY <1>1, <1>2, <1>11, <2>1, <2>2 DEF Unlock, keeping
<1>12. CASE Act(c)
  <2>1. Moved
    BY <1>1, <1>12, ReturnTyped DEF Act
  <2>2. acts' \in [Envelopes -> Nat]
    <3>1. arg[c].content.envelope \in Envelopes
      BY <1>12 DEF Act, ActsAreGranted, GrantsAreOfEnvelopes
    <3> QED BY <1>1, <1>12, <3>1 DEF Act
  <2> QED BY <1>1, <1>2, <1>12, <2>1, <2>2 DEF Act
<1>13. CASE Scan(c)
  <2>1. Moved
    <3> DEFINE new == [arg[c] EXCEPT !.seen = rows, !.at = 1, !.prev = NoHash]
    <3>1. new \in Args
      <4>1. 1 \in Nat /\ NoHash \in Seq(Hashed) /\ rows \in Seq(Rows) /\ arg[c] \in Args
        BY <1>1, PlainTyped
      <4> QED BY Zenon, <4>1 DEF Args
    <3>2. \/ Go(c, "unlock") /\ arg' = [arg EXCEPT ![c] = NoArg]
          \/ Go(c, "relink") /\ arg' = [arg EXCEPT ![c] = new]
      BY <1>13 DEF Scan
    <3> HIDE DEF new
    <3>3. CASE Go(c, "unlock") /\ arg' = [arg EXCEPT ![c] = NoArg]
      BY <1>1, <3>3, NoArgTyped, GoTyped DEF Steps
    <3>4. CASE Go(c, "relink") /\ arg' = [arg EXCEPT ![c] = new]
      BY <1>1, <3>1, <3>4, GoTyped DEF Steps
    <3> QED BY <3>2, <3>3, <3>4
  <2> QED BY <1>1, <1>2, <1>13, <2>1 DEF Scan, keeping
<1>14. CASE Relink(c)
  <2>1. arg[c].at > 0
    BY <1>14 DEF Relink, RelinkHasBegun
  <2>2. rows' \in Seq(Rows) /\ arg' \in [Writers -> Args]
    BY <1>1, <1>14, <2>1, RelinkTyped
  <2>3. pc' \in [Writers -> Steps]
    BY <1>14 DEF Relink, TypeOK, Steps
  <2>4. intact' \in BOOLEAN
    BY <1>14 DEF Relink
  <2> QED BY <1>1, <1>2, <1>14, <2>2, <2>3, <2>4 DEF Relink, keeping
<1>15. CASE Mark(c)
  <2>1. rows' \in Seq(Rows)
    BY <1>1, <1>15, PlainTyped, StoreTyped DEF Mark
  <2>2. Moved
    BY <1>1, <1>15, NoArgTyped, GoTyped DEF Mark, Steps
  <2> QED BY <1>1, <1>2, <1>15, <2>1, <2>2 DEF Mark, keeping
<1> QED BY <1>4, <1>5, <1>6, <1>7, <1>8, <1>9, <1>10, <1>11, <1>12, <1>13, <1>14, <1>15 DEF Call

LEMMA TypeRest ==
  ASSUME TypeOK,
         \/ \E f \in Foreign : ForeignBegin(f) \/ ReadHead(f) \/ ForeignInsert(f)
         \/ CheckChain \/ WriteAnchor
         \/ \E i \in DOMAIN rows : Edit(i)
         \/ \E s \in Sessions : Die(s)
  PROVE  TypeOK'
<1>1. ASSUME NEW f \in Foreign, ForeignBegin(f) \/ ReadHead(f) \/ ForeignInsert(f)
      PROVE  TypeOK'
  <2>1. f \in Writers /\ arg[f] \in Args /\ arg[f].prev \in Seq(Hashed)
    BY DEF TypeOK, Args, Writers
  <2>2. CASE ForeignBegin(f)
    <3>1. pc' \in [Writers -> Steps] /\ arg' \in [Writers -> Args]
      BY <2>1, <2>2, GoTyped DEF ForeignBegin, Steps
    <3> QED BY <2>2, <3>1 DEF ForeignBegin, TypeOK, keeping, Steps
  <2>3. CASE ReadHead(f)
    <3>1. [arg[f] EXCEPT !.prev = Tip] \in Args
      BY <2>1, TipTyped DEF Args
    <3>2. pc' \in [Writers -> Steps] /\ arg' \in [Writers -> Args]
      BY <2>1, <2>3, <3>1, GoTyped DEF ReadHead, Steps
    <3> QED BY <2>3, <3>2 DEF ReadHead, TypeOK, keeping, Steps
  <2>4. CASE ForeignInsert(f)
    <3>1. rows' \in Seq(Rows)
      BY <2>1, <2>4, PlainTyped, StoreTyped DEF ForeignInsert
    <3>2. pc' \in [Writers -> Steps] /\ arg' \in [Writers -> Args]
      BY <2>1, <2>4, ReturnTyped DEF ForeignInsert
    <3> QED BY <2>4, <3>1, <3>2 DEF ForeignInsert, TypeOK, keeping, Steps
  <2> QED BY <1>1, <2>2, <2>3, <2>4
<1>2. CASE CheckChain
  BY <1>2 DEF CheckChain, TypeOK
<1>3. CASE WriteAnchor
  <2>1. checked \in Seq(Rows) /\ checked # <<>>
    BY <1>3 DEF WriteAnchor, TypeOK
  <2>2. checked[Len(checked)] \in Rows
    BY <2>1
  <2> QED BY <1>3, <2>1, <2>2 DEF WriteAnchor, TypeOK, Rows
<1>4. ASSUME NEW i \in DOMAIN rows, Edit(i) PROVE TypeOK'
  <2>1. rows' \in Seq(Rows)
    BY <1>4, EditTyped
  <2>2. UNCHANGED <<holder, depth, pc, arg, acts, anchor, vouched, checked>> /\ intact' \in BOOLEAN
    BY <1>4 DEF Edit
  <2>3. edits' \in Nat
    BY <1>4 DEF Edit, TypeOK
  <2> QED BY <2>1, <2>2, <2>3 DEF TypeOK
<1>5. ASSUME NEW s \in Sessions, Die(s) PROVE TypeOK'
  <2>1. pc' \in [Writers -> Steps]
    BY <1>5 DEF Die, TypeOK, Steps
  <2>2. arg' \in [Writers -> Args]
    BY <1>5, NoArgTyped DEF Die, TypeOK
  <2> QED BY <1>5, <2>1, <2>2 DEF Die, TypeOK, keeping, Steps
<1> QED BY <1>1, <1>2, <1>3, <1>4, <1>5

-----------------------------------------------------------------------------
(* What leaves the lock and the meter alone. *)

\* Nobody enters or leaves, the lock stays.
LEMMA LockQuiet ==
  ASSUME LockSound, UNCHANGED <<holder, depth>>,
         \A c \in Callers : pc'[c] \in Inside <=> pc[c] \in Inside
  PROVE  LockSound'
<1>1. InsideCalls' = InsideCalls
  BY DEF InsideCalls
<1> QED BY <1>1 DEF LockSound, LockOK

\* Two calls with sessions of their own are not inside at once.
LEMMA Exclusion ==
  ASSUME LockSound, OneCallEach, NEW c \in Callers, NEW d \in Callers,
         pc[c] \in Inside, pc[d] \in Inside
  PROVE  c = d
BY DEF LockSound, LockOK, InsideCalls, OneCallEach

Meter == /\ GrantsAreOfEnvelopes
         /\ StoredIsDone
         /\ ActsAreGranted
         /\ RelinkHasBegun
         /\ TriesAreLeft
         /\ GrantsCover
         /\ Metered

\* What a step may do to a call without a grant being stored or spent.
Quiet(c) ==
  /\ arg'[c].content.outcome = "granted" => arg'[c].content.envelope \in Envelopes
  /\ arg'[c].stored =>
       /\ pc'[c] \in {"unlock", "act"}
       /\ arg'[c].content.outcome = "granted" => arg[c].stored /\ arg'[c].content = arg[c].content
  /\ pc'[c] = "act" => arg'[c].stored /\ arg'[c].content.outcome = "granted"
  /\ pc'[c] = "relink" => arg'[c].at > 0
  /\ pc'[c] # "unlock" \/ arg'[c].stored => arg'[c].tries < MaxTries
  /\ \A e \in Envelopes :
       /\ OneCallEach
       /\ pc'[c] \in {"head", "insert"}
       /\ arg'[c].content.envelope = e /\ arg'[c].content.outcome = "granted"
       => Granted(e) < MaxCount[e]

LEMMA SameIsQuiet ==
  ASSUME Meter, NEW c \in Callers, pc'[c] = pc[c], arg'[c] = arg[c]
  PROVE  Quiet(c)
BY DEF Meter, Quiet, GrantsAreOfEnvelopes, StoredIsDone, ActsAreGranted, RelinkHasBegun,
       TriesAreLeft, Metered, CountStands

LEMMA IdleIsQuiet ==
  ASSUME NEW c \in Callers, pc'[c] = "idle", arg'[c] = NoArg
  PROVE  Quiet(c)
BY PlainTyped, NoArgTyped DEF Quiet, NoArg, MaxTries

LEMMA QuietParts ==
  ASSUME Meter, \A c \in Callers : Quiet(c), \A e \in Envelopes : Granted(e)' = Granted(e)
  PROVE  /\ GrantsAreOfEnvelopes' /\ StoredIsDone' /\ ActsAreGranted' /\ RelinkHasBegun'
         /\ TriesAreLeft' /\ Metered'
<1>1. GrantsAreOfEnvelopes' /\ StoredIsDone' /\ ActsAreGranted' /\ RelinkHasBegun' /\ TriesAreLeft'
  BY DEF Quiet, GrantsAreOfEnvelopes, StoredIsDone, ActsAreGranted, RelinkHasBegun, TriesAreLeft
<1>2. OneCallEach => CountStands'
  BY DEF Quiet, CountStands
<1>3. OneCallEach => WithinQuota'
  BY DEF Meter, Metered, WithinQuota
<1> QED BY <1>1, <1>2, <1>3 DEF Metered

LEMMA QuietMeter ==
  ASSUME Meter, \A c \in Callers : Quiet(c), UNCHANGED acts,
         \A e \in Envelopes : Granted(e)' = Granted(e) /\ Granted(e) \in Nat /\ acts[e] \in Nat
  PROVE  Meter'
<1>3. GrantsCover'
  <2> SUFFICES ASSUME NEW e \in Envelopes
               PROVE  IsFiniteSet(Pending(e)') /\ acts'[e] + Cardinality(Pending(e)') <= Granted(e)'
    BY DEF GrantsCover
  <2>1. Pending(e)' \subseteq Pending(e)
    BY DEF Pending, Quiet
  <2>2. IsFiniteSet(Pending(e)) /\ acts[e] + Cardinality(Pending(e)) <= Granted(e)
    BY DEF Meter, GrantsCover
  <2>3. IsFiniteSet(Pending(e)') /\ Cardinality(Pending(e)') <= Cardinality(Pending(e))
    BY <2>1, <2>2, FS_Subset
  <2>4. Cardinality(Pending(e)') \in Nat /\ Cardinality(Pending(e)) \in Nat
    BY <2>2, <2>3, FS_CardinalityType
  <2> QED BY <2>2, <2>3, <2>4
<1> QED BY <1>3, QuietParts DEF Meter

-----------------------------------------------------------------------------
(* The steps of a call. *)

LEMMA GoFacts ==
  ASSUME TypeOK, NEW c \in Callers, NEW step, Go(c, step)
  PROVE  pc'[c] = step /\ \A d \in Callers \ {c} : pc'[d] = pc[d]
BY DEF Go, TypeOK, Writers

LEMMA ArgFacts ==
  ASSUME TypeOK, NEW c \in Callers, NEW a, arg' = [arg EXCEPT ![c] = a]
  PROVE  arg'[c] = a /\ \A d \in Callers \ {c} : arg'[d] = arg[d]
BY DEF TypeOK, Writers

LEMMA ReturnFacts ==
  ASSUME TypeOK, NEW c \in Callers, Return(c)
  PROVE  /\ pc'[c] = "idle" /\ arg'[c] = NoArg
         /\ \A d \in Callers \ {c} : pc'[d] = pc[d] /\ arg'[d] = arg[d]
BY DEF Return, TypeOK, Writers

\* The fields of arg[c] that a step leaves alone.
LEMMA ArgFields ==
  ASSUME NEW a \in Args, NEW content, NEW prev, NEW n, NEW b, NEW tries, NEW seen
  PROVE  /\ LET new == [a EXCEPT !.content = content]
            IN  new.content = content /\ new.stored = a.stored /\ new.tries = a.tries
         /\ LET new == [a EXCEPT !.prev = prev]
            IN  new.content = a.content /\ new.stored = a.stored /\ new.tries = a.tries
         /\ LET new == [a EXCEPT !.at = n, !.force = b]
            IN  new.content = a.content /\ new.stored = a.stored /\ new.tries = a.tries
         /\ LET new == [a EXCEPT !.tries = tries]
            IN  new.content = a.content /\ new.stored = a.stored /\ new.tries = tries
         /\ LET new == [a EXCEPT !.content = content, !.stored = TRUE]
            IN  new.content = content /\ new.stored /\ new.tries = a.tries
         /\ LET new == [a EXCEPT !.seen = seen, !.at = n, !.prev = prev]
            IN  new.content = a.content /\ new.stored = a.stored /\ new.tries = a.tries
                /\ new.at = n
BY DEF Args

\* A step of c that stores and spends no grant.
LEMMA QuietCall ==
  ASSUME Inductive, NEW c \in Callers, Quiet(c), UNCHANGED acts,
         \A d \in Callers \ {c} : pc'[d] = pc[d] /\ arg'[d] = arg[d],
         \A e \in Envelopes : Granted(e)' = Granted(e)
  PROVE  Meter'
<1>1. Meter /\ TypeOK
  BY DEF Inductive, Meter
<1>2. \A d \in Callers : Quiet(d)
  <2> TAKE d \in Callers
  <2>1. CASE d = c
    BY <2>1
  <2>2. CASE d # c
    BY <1>1, <2>2, SameIsQuiet
  <2> QED BY <2>1, <2>2
<1>3. \A e \in Envelopes : Granted(e) \in Nat /\ acts[e] \in Nat
  BY <1>1, GrantsFinite DEF TypeOK
<1> QED BY <1>1, <1>2, <1>3, QuietMeter

\* A step of c that stays inside or outside.
LEMMA LockStays ==
  ASSUME Inductive, NEW c \in Callers, UNCHANGED <<holder, depth>>,
         \A d \in Callers \ {c} : pc'[d] = pc[d],
         pc'[c] \in Inside <=> pc[c] \in Inside
  PROVE  LockSound'
<1>1. \A d \in Callers : pc'[d] \in Inside <=> pc[d] \in Inside
  OBVIOUS
<1> QED BY <1>1, LockQuiet DEF Inductive, LockSound

LEMMA RowsKept ==
  ASSUME UNCHANGED rows
  PROVE  \A e \in Envelopes : Granted(e)' = Granted(e)
BY DEF Granted

\* Calls that begin, and the steps of a call before its INSERT.
LEMMA EarlySteps ==
  ASSUME Inductive, NEW c \in Callers,
         \/ Begin(c) \/ BeginRechain(c) \/ (\E e \in Envelopes : Cite(c, e))
         \/ Count(c) \/ ReadHead(c)
  PROVE  LockSound' /\ Meter'
<1>1. TypeOK /\ arg[c] \in Args
  BY DEF Inductive, TypeOK, Writers
<1>2. /\ UNCHANGED <<holder, depth, acts, rows>>
      /\ \A e \in Envelopes : Granted(e)' = Granted(e)
  BY RowsKept DEF Begin, BeginRechain, Cite, Count, ReadHead, keeping
<1>3. pc[c] # "unlock" /\ pc[c] # "act" /\ ~arg[c].stored /\ arg[c].tries < MaxTries
  BY DEF Begin, BeginRechain, Cite, Count, ReadHead, Inductive, StoredIsDone, TriesAreLeft
<1>4. arg[c].content.outcome = "granted" => arg[c].content.envelope \in Envelopes
  BY DEF Inductive, GrantsAreOfEnvelopes
<1>5. CASE Begin(c)
  <2>1. pc'[c] = "lock" /\ arg' = arg /\ pc[c] = "idle" /\ \A d \in Callers \ {c} : pc'[d] = pc[d]
    BY <1>1, <1>5, GoFacts DEF Begin
  <2>2. Quiet(c)
    BY <1>3, <1>4, <2>1 DEF Quiet
  <2> QED BY <1>2, <2>1, <2>2, QuietCall, LockStays DEF Inside
<1>6. CASE BeginRechain(c)
  <2>1. PICK b \in BOOLEAN : arg' = [arg EXCEPT ![c] = [arg[c] EXCEPT !.at = 0, !.force = b]]
    BY <1>6 DEF BeginRechain
  <2>2. /\ pc'[c] = "lock" /\ pc[c] = "idle"
        /\ arg'[c] = [arg[c] EXCEPT !.at = 0, !.force = b]
        /\ \A d \in Callers \ {c} : pc'[d] = pc[d] /\ arg'[d] = arg[d]
    BY <1>1, <1>6, <2>1, GoFacts, ArgFacts DEF BeginRechain
  <2>3. Quiet(c)
    BY <1>1, <1>3, <1>4, <2>2, ArgFields DEF Quiet
  <2> QED BY <1>2, <2>2, <2>3, QuietCall, LockStays DEF Inside
<1>7. ASSUME NEW e \in Envelopes, Cite(c, e) PROVE LockSound' /\ Meter'
  <2>1. PICK outcome \in Outcomes :
          arg' = [arg EXCEPT ![c] = [arg[c] EXCEPT !.content = Cites(e, outcome)]]
    BY <1>7 DEF Cite, Outcomes
  <2>2. /\ pc'[c] = "lock" /\ pc[c] = "idle"
        /\ arg'[c] = [arg[c] EXCEPT !.content = Cites(e, outcome)]
        /\ \A d \in Callers \ {c} : pc'[d] = pc[d] /\ arg'[d] = arg[d]
    BY <1>1, <1>7, <2>1, GoFacts, ArgFacts DEF Cite
  <2>3. Cites(e, outcome).envelope = e
    BY CitesTyped
  <2>4. Quiet(c)
    BY <1>1, <1>3, <2>2, <2>3, ArgFields DEF Quiet
  <2> QED BY <1>2, <2>2, <2>4, QuietCall, LockStays DEF Inside
<1>8. CASE Count(c)
  <2> DEFINE env == arg[c].content.envelope
  <2>1. pc'[c] = "head" /\ pc[c] = "count" /\ \A d \in Callers \ {c} : pc'[d] = pc[d]
    BY <1>1, <1>8, GoFacts DEF Count
  <2>2. CASE Exhausted(env)
    <3>1. arg' = [arg EXCEPT ![c] = [arg[c] EXCEPT !.content = Cites(env, "EDQUOT")]]
      BY <1>8, <2>2 DEF Count
    <3>2. /\ arg'[c] = [arg[c] EXCEPT !.content = Cites(env, "EDQUOT")]
          /\ \A d \in Callers \ {c} : arg'[d] = arg[d]
      BY <1>1, <3>1, ArgFacts
    <3>3. Cites(env, "EDQUOT").outcome = "EDQUOT"
      BY DEF Cites
    <3>4. Quiet(c)
      BY <1>1, <1>3, <2>1, <3>2, <3>3, ArgFields DEF Quiet
    <3> QED BY <1>2, <2>1, <3>2, <3>4, QuietCall, LockStays DEF Inside
  <2>3. CASE ~Exhausted(env)
    <3>1. arg' = arg
      BY <1>8, <2>3 DEF Count
    <3>2. \A e \in Envelopes : env = e => Granted(e) < MaxCount[e]
      <4> SUFFICES ASSUME NEW e \in Envelopes, env = e PROVE Granted(e) < MaxCount[e]
        OBVIOUS
      <4>1. env = e
        OBVIOUS
      <4>2. {i \in DOMAIN rows : rows[i].content.envelope = env /\ rows[i].content.outcome = "granted"}
            = {i \in DOMAIN rows : rows[i].content.envelope = e /\ rows[i].content.outcome = "granted"}
        BY <4>1
      <4>3. Granted(env) = Granted(e) /\ MaxCount[env] = MaxCount[e]
        BY <4>1, <4>2 DEF Granted
      <4>4. ~(Granted(env) >= MaxCount[env])
        BY <2>3 DEF Exhausted
      <4>5. Granted(e) \in Nat
        BY <1>1, GrantsFinite
      <4>6. MaxCount[e] \in Nat
        BY EnvelopesAssumption
      <4>7. ~(Granted(e) >= MaxCount[e])
        BY <4>3, <4>4
      <4> HIDE DEF env
      <4> QED BY <4>5, <4>6, <4>7
    <3>3. Quiet(c)
      BY <1>3, <1>4, <2>1, <3>1, <3>2 DEF Quiet
    <3> QED BY <1>2, <2>1, <3>1, <3>3, QuietCall, LockStays DEF Inside
  <2> QED BY <2>2, <2>3
<1>9. CASE ReadHead(c)
  <2>1. arg' = [arg EXCEPT ![c] = [arg[c] EXCEPT !.prev = Tip]]
    BY <1>9 DEF ReadHead
  <2>2. /\ pc'[c] = "insert" /\ pc[c] = "head"
        /\ arg'[c] = [arg[c] EXCEPT !.prev = Tip]
        /\ \A d \in Callers \ {c} : pc'[d] = pc[d] /\ arg'[d] = arg[d]
    BY <1>1, <1>9, <2>1, GoFacts, ArgFacts DEF ReadHead
  <2>3. arg'[c].content = arg[c].content /\ arg'[c].stored = arg[c].stored
        /\ arg'[c].tries = arg[c].tries
    BY <1>1, <2>2, ArgFields
  <2>4. Quiet(c)
    BY <1>3, <1>4, <2>2, <2>3 DEF Quiet, Inductive, Metered, CountStands
  <2> QED BY <1>2, <2>2, <2>4, QuietCall, LockStays DEF Inside
<1> QED BY <1>5, <1>6, <1>7, <1>8, <1>9
\* The end of a call and a rechain's steps.
LEMMA LateSteps ==
  ASSUME Inductive, NEW c \in Callers, Lock(c) \/ Unlock(c) \/ Scan(c) \/ Relink(c)
  PROVE  LockSound' /\ Meter'
<1>1. TypeOK /\ c \in Writers /\ arg[c] \in Args /\ SessionOf[c] \in Sessions /\ SessionOf[c] # NoSession
  BY SessionsAssumption DEF Inductive, TypeOK, Writers
<1>2. arg[c].content.outcome = "granted" => arg[c].content.envelope \in Envelopes
  BY DEF Inductive, GrantsAreOfEnvelopes
<1>3. LockSound
  BY DEF Inductive, LockSound
<1>4. pc[c] # "unlock" \/ arg[c].stored => arg[c].tries < MaxTries
  BY DEF Inductive, TriesAreLeft
<1>5. CASE Lock(c)
  <2> DEFINE step == IF arg[c].at = 0 THEN "scan"
                     ELSE IF arg[c].content.outcome = "granted" THEN "count" ELSE "head"
  <2>1. /\ pc'[c] = step /\ \A d \in Callers \ {c} : pc'[d] = pc[d]
        /\ arg' = arg /\ acts' = acts /\ rows' = rows /\ pc[c] = "lock"
        /\ holder' = SessionOf[c] /\ depth' = depth + 1 /\ Free(c)
    BY <1>1, <1>5, GoFacts DEF Lock, keeping
  <2>2. c \notin InsideCalls /\ c \in InsideCalls'
    BY <2>1 DEF InsideCalls, Inside
  <2>3. InsideCalls' = InsideCalls \cup {c}
    BY <2>1, <2>2 DEF InsideCalls
  <2>4. LockSound'
    <3>1. IsFiniteSet(InsideCalls') /\ Cardinality(InsideCalls') = Cardinality(InsideCalls) + 1
      BY <1>3, <2>2, <2>3, FS_AddElement DEF LockSound
    <3>2. depth = Cardinality(InsideCalls) /\ depth \in Nat
      BY <1>3, InsideCounts DEF LockSound, LockOK
    <3>3. \A d \in InsideCalls : SessionOf[d] = SessionOf[c]
      <4>1. \A d \in InsideCalls : holder = SessionOf[d] /\ SessionOf[d] # NoSession
        BY <1>3, SessionsAssumption DEF LockSound, LockOK, InsideCalls
      <4> QED BY <2>1, <4>1 DEF Free
    <3> QED BY <1>1, <2>1, <2>3, <3>1, <3>2, <3>3 DEF LockSound, LockOK
  <2>5. ~arg[c].stored
    BY <2>1 DEF Inductive, StoredIsDone
  <2>6. step \notin {"relink", "act", "insert", "unlock"} /\ (step = "head" => arg[c].content.outcome # "granted")
    OBVIOUS
  <2> HIDE DEF step
  <2>7. Quiet(c)
    BY <1>2, <1>4, <2>1, <2>5, <2>6 DEF Quiet
  <2> QED BY <2>1, <2>4, <2>7, QuietCall, RowsKept
<1>6. CASE Unlock(c)
  <2>1. /\ pc[c] = "unlock" /\ c \in InsideCalls
        /\ holder' = (IF depth = 1 THEN NoSession ELSE holder) /\ depth' = depth - 1
        /\ acts' = acts /\ rows' = rows
    BY <1>6 DEF Unlock, InsideCalls, Inside, keeping
  <2>2. /\ \A d \in Callers \ {c} : pc'[d] = pc[d] /\ arg'[d] = arg[d]
        /\ pc'[c] \in {"act", "idle"} /\ Quiet(c)
    <3>1. CASE arg[c].stored /\ arg[c].content.outcome = "granted"
      <4>1. pc'[c] = "act" /\ arg' = arg /\ \A d \in Callers \ {c} : pc'[d] = pc[d]
        BY <1>1, <1>6, <3>1, GoFacts DEF Unlock
      <4> QED BY <1>2, <1>4, <3>1, <4>1 DEF Quiet
    <3>2. CASE ~(arg[c].stored /\ arg[c].content.outcome = "granted")
      <4>1. Return(c)
        BY <1>6, <3>2 DEF Unlock
      <4> QED BY <1>1, <4>1, ReturnFacts, IdleIsQuiet
    <3> QED BY <3>1, <3>2
  <2>3. InsideCalls' = InsideCalls \ {c}
    BY <2>1, <2>2 DEF InsideCalls, Inside
  <2>4. /\ IsFiniteSet(InsideCalls') /\ Cardinality(InsideCalls') = Cardinality(InsideCalls) - 1
        /\ Cardinality(InsideCalls') \in Nat
    BY <1>3, <2>1, <2>3, FS_RemoveElement, FS_CardinalityType DEF LockSound
  <2>5. depth = Cardinality(InsideCalls) /\ depth \in Nat /\ depth > 0 /\ holder = SessionOf[c]
    BY <1>3, <2>1, InsideCounts DEF LockSound, LockOK
  <2>6. LockSound'
    <3>1. CASE depth = 1
      <4>1. Cardinality(InsideCalls') = 0
        BY <2>4, <2>5, <3>1
      <4>2. InsideCalls' = {}
        BY <2>4, <4>1, FS_EmptySet
      <4>3. holder' = NoSession /\ depth' = 0
        BY <2>1, <3>1
      <4>4. \A d \in InsideCalls' : holder' = SessionOf[d]
        BY <4>2
      <4> QED BY <2>4, <4>1, <4>3, <4>4 DEF LockSound, LockOK
    <3>2. CASE depth # 1
      <4>1. holder' # NoSession /\ holder' = SessionOf[c] /\ depth' # 0
        BY <1>1, <2>1, <2>5, <3>2
      <4>2. \A d \in InsideCalls' : holder' = SessionOf[d]
        BY <1>3, <2>3, <2>5, <4>1 DEF LockSound, LockOK
      <4> QED BY <2>1, <2>4, <2>5, <4>1, <4>2 DEF LockSound, LockOK
    <3> QED BY <3>1, <3>2
  <2> QED BY <2>1, <2>2, <2>6, QuietCall, RowsKept
<1>7. CASE Scan(c)
  <2>1. /\ pc[c] = "scan" /\ UNCHANGED <<holder, depth, acts, rows>>
    BY <1>7 DEF Scan, keeping
  <2>2. ~arg[c].stored
    BY <2>1 DEF Inductive, StoredIsDone
  <2>3. CASE Go(c, "unlock") /\ arg' = [arg EXCEPT ![c] = NoArg]
    <3>1. /\ pc'[c] = "unlock" /\ arg'[c] = NoArg
          /\ \A d \in Callers \ {c} : pc'[d] = pc[d] /\ arg'[d] = arg[d]
      BY <1>1, <2>3, GoFacts, ArgFacts
    <3>2. Quiet(c)
      BY <3>1, PlainTyped, NoArgTyped DEF Quiet
    <3> QED BY <2>1, <3>1, <3>2, QuietCall, LockStays, RowsKept DEF Inside
  <2>4. CASE Go(c, "relink")
             /\ arg' = [arg EXCEPT ![c] = [arg[c] EXCEPT !.seen = rows, !.at = 1, !.prev = NoHash]]
    <3> DEFINE new == [arg[c] EXCEPT !.seen = rows, !.at = 1, !.prev = NoHash]
    <3>0. /\ new.content = arg[c].content /\ new.stored = arg[c].stored
          /\ new.tries = arg[c].tries /\ new.at = 1
      BY <1>1, ArgFields
    <3>a. Go(c, "relink") /\ arg' = [arg EXCEPT ![c] = new]
      BY <2>4
    <3> HIDE DEF new
    <3>b. pc'[c] = "relink" /\ \A d \in Callers \ {c} : pc'[d] = pc[d]
      BY <1>1, <3>a, GoFacts
    <3>c. arg'[c] = new /\ \A d \in Callers \ {c} : arg'[d] = arg[d]
      BY <1>1, <3>a, ArgFacts
    <3>1. /\ pc'[c] = "relink"
          /\ \A d \in Callers \ {c} : pc'[d] = pc[d] /\ arg'[d] = arg[d]
      BY <3>b, <3>c
    <3>2. /\ arg'[c].content = arg[c].content /\ arg'[c].stored = arg[c].stored
          /\ arg'[c].tries = arg[c].tries /\ arg'[c].at = 1
      BY <3>0, <3>c
    <3>3. Quiet(c)
      BY <1>2, <1>4, <2>1, <2>2, <3>1, <3>2 DEF Quiet
    <3> QED BY <2>1, <3>1, <3>3, QuietCall, LockStays, RowsKept DEF Inside
  <2> QED BY <1>7, <2>3, <2>4 DEF Scan
<1>8. CASE Relink(c)
  <2>1. pc[c] = "relink" /\ pc' = pc /\ UNCHANGED <<holder, depth, acts>> /\ arg[c].at > 0
    BY <1>8 DEF Relink, keeping, Inductive, RelinkHasBegun
  <2>2. /\ SameGrants /\ arg'[c].at > 0
        /\ arg'[c].content = arg[c].content /\ arg'[c].stored = arg[c].stored
        /\ arg'[c].tries = arg[c].tries
        /\ \A d \in Callers \ {c} : arg'[d] = arg[d]
    BY <1>1, <1>8, <2>1, RelinkTyped DEF Writers
  <2>3. \A e \in Envelopes : Granted(e)' = Granted(e)
    BY <2>2, SameGranted
  <2>4. Quiet(c)
    BY <1>2, <1>4, <2>1, <2>2 DEF Quiet, Inductive, StoredIsDone
  <2> QED BY SMTT(40), <2>1, <2>2, <2>3, <2>4, QuietCall, LockStays DEF Inside
<1> QED BY <1>5, <1>6, <1>7, <1>8
\* A call's row is stored: a grant uses up what was counted, and is pending.
LEMMA StoreStep ==
  ASSUME Inductive, NEW c \in Callers, Insert(c)
  PROVE  LockSound' /\ Meter'
<1> DEFINE content == arg[c].content
           e0      == content.envelope
<1>1. /\ TypeOK /\ arg[c] \in Args /\ content \in Contents /\ arg[c].prev \in Seq(Hashed)
      /\ UNCHANGED <<holder, depth, acts>> /\ pc[c] = "insert"
  BY DEF Inductive, TypeOK, Writers, Args, Insert, keeping
<1>2. content.outcome = "granted" => e0 \in Envelopes
  BY DEF Inductive, GrantsAreOfEnvelopes
<1>3. ~arg[c].stored /\ arg[c].tries < MaxTries
  BY <1>1 DEF Inductive, StoredIsDone, TriesAreLeft
<1>4. \A e \in Envelopes :
        OneCallEach /\ e0 = e /\ content.outcome = "granted" => Granted(e) < MaxCount[e]
  BY <1>1 DEF Inductive, Metered, CountStands
<1>5. OneCallEach => \A d \in Callers \ {c} : pc[d] \notin Inside
  <2>1. LockSound /\ pc[c] \in Inside
    BY <1>1 DEF Inductive, LockSound, Inside
  <2> QED BY <2>1, Exclusion
<1>6. CASE /\ ~Conflict(arg[c].prev) /\ Store(content, arg[c].prev) /\ Go(c, "unlock")
           /\ arg' = [arg EXCEPT ![c] = [NoArg EXCEPT !.content = content, !.stored = TRUE]]
  <2> DEFINE new == [NoArg EXCEPT !.content = content, !.stored = TRUE]
  <2>0. new.content = content /\ new.stored /\ new.tries = 0
    BY NoArgTyped, ArgFields
  <2>a. arg' = [arg EXCEPT ![c] = new]
    BY <1>6
  <2> HIDE DEF new
  <2>1. /\ pc'[c] = "unlock" /\ arg'[c] = new
        /\ \A d \in Callers \ {c} : pc'[d] = pc[d] /\ arg'[d] = arg[d]
    BY <1>1, <1>6, <2>a, GoFacts, ArgFacts
  <2>2. arg'[c].content = content /\ arg'[c].stored /\ arg'[c].tries = 0
    BY <2>0, <2>1
  <2>3. \A e \in Envelopes :
          Granted(e)' = IF e0 = e /\ content.outcome = "granted" THEN Granted(e) + 1 ELSE Granted(e)
    BY <1>1, <1>6, StoreGranted
  <2>4. LockSound'
    BY <1>1, <2>1, LockStays DEF Inside
  <2>5. CASE content.outcome # "granted"
    <3>1. Quiet(c)
      BY <2>1, <2>2, <2>5 DEF Quiet, MaxTries
    <3> QED BY <1>1, <2>1, <2>3, <2>4, <2>5, <3>1, QuietCall
  <2>6. CASE content.outcome = "granted"
    <3> HIDE DEF content, e0
    <3>1. /\ GrantsAreOfEnvelopes' /\ StoredIsDone' /\ ActsAreGranted' /\ RelinkHasBegun'
          /\ TriesAreLeft'
      <4>1. arg'[c].content.outcome = "granted" => arg'[c].content.envelope \in Envelopes
        BY <1>2, <2>2 DEF content, e0
      <4>2. GrantsAreOfEnvelopes'
        BY <2>1, <4>1 DEF Inductive, GrantsAreOfEnvelopes
      <4>3. StoredIsDone'
        BY <2>1 DEF Inductive, StoredIsDone
      <4>4. ActsAreGranted'
        BY <2>1 DEF Inductive, ActsAreGranted
      <4>5. RelinkHasBegun'
        BY <2>1 DEF Inductive, RelinkHasBegun
      <4>6. TriesAreLeft'
        <5>1. arg'[c].tries < MaxTries
          BY <2>2 DEF MaxTries
        <5> QED BY <2>1, <5>1 DEF Inductive, TriesAreLeft
      <4> QED BY <4>2, <4>3, <4>4, <4>5, <4>6
    <3>2. OneCallEach => CountStands'
      <4>1. OneCallEach => \A d \in Callers : pc'[d] \notin {"head", "insert"}
        BY <1>5, <2>1 DEF Inside
      <4> QED BY <4>1 DEF CountStands
    <3>3. \A e \in Envelopes : Granted(e) \in Nat /\ MaxCount[e] \in Nat /\ acts[e] \in Nat
      BY <1>1, GrantsFinite, EnvelopesAssumption DEF TypeOK
    <3>4. OneCallEach => WithinQuota'
      BY <1>4, <2>3, <3>3 DEF Inductive, Metered, WithinQuota
    <3>5. GrantsCover'
      <4> SUFFICES ASSUME NEW e \in Envelopes
                   PROVE  /\ IsFiniteSet(Pending(e)')
                          /\ acts[e] + Cardinality(Pending(e)') <= Granted(e)'
        BY <1>1 DEF GrantsCover
      <4>1. IsFiniteSet(Pending(e)) /\ acts[e] + Cardinality(Pending(e)) <= Granted(e)
        BY DEF Inductive, GrantsCover
      <4>2. Cardinality(Pending(e)) \in Nat
        BY <4>1, FS_CardinalityType
      <4>3. CASE e = e0
        <5>1. c \notin Pending(e)
          BY <1>3 DEF Pending
        <5>2. Pending(e)' = Pending(e) \cup {c}
          BY <2>1, <2>2, <2>6, <4>3 DEF Pending, content, e0
        <5>3. /\ IsFiniteSet(Pending(e) \cup {c})
              /\ Cardinality(Pending(e) \cup {c}) = Cardinality(Pending(e)) + 1
          BY <4>1, <5>1, FS_AddElement
        <5> QED BY <2>3, <2>6, <3>3, <4>1, <4>2, <4>3, <5>2, <5>3
      <4>4. CASE e # e0
        <5>1. Pending(e)' = Pending(e)
          BY <1>3, <2>1, <2>2, <4>4 DEF Pending, content, e0
        <5> QED BY <2>3, <4>1, <4>4, <5>1
      <4> QED BY <4>3, <4>4
    <3> QED BY <2>4, <3>1, <3>2, <3>4, <3>5 DEF Meter, Metered
  <2> QED BY <2>5, <2>6
<1>7. CASE /\ UNCHANGED rows
           /\ Go(c, IF arg[c].tries + 1 = MaxTries THEN "unlock" ELSE "head")
           /\ arg' = [arg EXCEPT ![c] = [arg[c] EXCEPT !.tries = arg[c].tries + 1]]
  <2>1. /\ pc'[c] = IF arg[c].tries + 1 = MaxTries THEN "unlock" ELSE "head"
        /\ arg'[c] = [arg[c] EXCEPT !.tries = arg[c].tries + 1]
        /\ \A d \in Callers \ {c} : pc'[d] = pc[d] /\ arg'[d] = arg[d]
    BY <1>1, <1>7, GoFacts, ArgFacts
  <2>2. /\ arg'[c].content = content /\ arg'[c].stored = arg[c].stored
        /\ arg'[c].tries = arg[c].tries + 1
    BY <1>1, <2>1, ArgFields
  <2>3. arg[c].tries \in 0..MaxTries
    BY <1>1 DEF Args
  <2>4. pc'[c] # "unlock" => arg'[c].tries < MaxTries
    BY <1>3, <2>1, <2>2, <2>3 DEF MaxTries
  <2>5. Quiet(c)
    BY <1>2, <1>3, <1>4, <2>1, <2>2, <2>4 DEF Quiet
  <2> QED BY <1>1, <1>7, <2>1, <2>5, QuietCall, RowsKept, LockStays DEF Inside
<1> QED BY <1>6, <1>7 DEF Insert

\* An act spends the grant that was stored for it.
LEMMA ActStep ==
  ASSUME Inductive, NEW c \in Callers, Act(c)
  PROVE  LockSound' /\ Meter'
<1> DEFINE e0 == arg[c].content.envelope
<1>1. /\ TypeOK /\ Meter /\ UNCHANGED <<holder, depth, rows>> /\ pc[c] = "act"
      /\ pc'[c] = "idle" /\ arg'[c] = NoArg
      /\ \A d \in Callers \ {c} : pc'[d] = pc[d] /\ arg'[d] = arg[d]
  BY ReturnFacts DEF Inductive, Meter, Act
<1>2. arg[c].stored /\ arg[c].content.outcome = "granted" /\ e0 \in Envelopes
  BY <1>1 DEF Inductive, ActsAreGranted, GrantsAreOfEnvelopes
<1>3. acts' = [acts EXCEPT ![e0] = acts[e0] + 1] /\ acts \in [Envelopes -> Nat]
  BY DEF Act, Inductive, TypeOK
<1>4. \A d \in Callers : Quiet(d)
  <2> TAKE d \in Callers
  <2>1. CASE d = c
    BY <1>1, <2>1, IdleIsQuiet
  <2>2. CASE d # c
    BY <1>1, <2>2, SameIsQuiet
  <2> QED BY <2>1, <2>2
<1>5. \A e \in Envelopes : Granted(e)' = Granted(e) /\ Granted(e) \in Nat
  BY <1>1, RowsKept, GrantsFinite
<1>6. GrantsCover'
  <2> HIDE DEF e0
  <2> SUFFICES ASSUME NEW e \in Envelopes
               PROVE  IsFiniteSet(Pending(e)') /\ acts'[e] + Cardinality(Pending(e)') <= Granted(e)'
    BY DEF GrantsCover
  <2>1. IsFiniteSet(Pending(e)) /\ acts[e] + Cardinality(Pending(e)) <= Granted(e)
    BY DEF Inductive, GrantsCover
  <2>2. Cardinality(Pending(e)) \in Nat /\ acts[e] \in Nat
    BY <1>3, <2>1, FS_CardinalityType
  <2>3. CASE e = e0
    <3>1. c \in Pending(e)
      BY <1>2, <2>3 DEF Pending, e0
    <3>2. Pending(e)' = Pending(e) \ {c}
      BY <1>1, NoArgTyped DEF Pending
    <3>3. /\ IsFiniteSet(Pending(e) \ {c})
          /\ Cardinality(Pending(e) \ {c}) = Cardinality(Pending(e)) - 1
      BY <2>1, <3>1, FS_RemoveElement
    <3>4. acts'[e] = acts[e] + 1
      BY <1>3, <2>3
    <3> QED BY <1>5, <2>1, <2>2, <3>2, <3>3, <3>4
  <2>4. CASE e # e0
    <3>1. Pending(e)' = Pending(e)
      <4>1. c \notin Pending(e)
        BY <2>4 DEF Pending, e0
      <4> QED BY <1>1, <4>1, NoArgTyped DEF Pending
    <3>2. acts'[e] = acts[e]
      BY <1>3, <2>4
    <3> QED BY <1>5, <2>1, <3>1, <3>2
  <2> QED BY <2>3, <2>4
<1>7. Meter'
  BY <1>1, <1>4, <1>5, <1>6, QuietParts DEF Meter
<1> QED BY <1>1, <1>7, LockStays DEF Inside

\* A rechain's row cites nothing.
LEMMA MarkStep ==
  ASSUME Inductive, NEW c \in Callers, Mark(c)
  PROVE  LockSound' /\ Meter'
<1>1. /\ TypeOK /\ arg[c].prev \in Seq(Hashed)
      /\ UNCHANGED <<holder, depth, acts>> /\ pc[c] = "relink"
  BY DEF Inductive, TypeOK, Writers, Args, Mark, keeping
<1>2. /\ pc'[c] = "unlock" /\ arg'[c] = NoArg
      /\ \A d \in Callers \ {c} : pc'[d] = pc[d] /\ arg'[d] = arg[d]
  BY <1>1, GoFacts, ArgFacts DEF Mark
<1>3. \A e \in Envelopes : Granted(e)' = Granted(e)
  <2>1. CASE Store(Plain, arg[c].prev)
    BY <1>1, <2>1, PlainTyped, StoreGranted
  <2>2. CASE UNCHANGED rows
    BY <2>2, RowsKept
  <2> QED BY <2>1, <2>2 DEF Mark
<1>4. Quiet(c)
  BY <1>2, PlainTyped, NoArgTyped DEF Quiet
<1> QED BY <1>1, <1>2, <1>3, <1>4, QuietCall, LockStays DEF Inside
-----------------------------------------------------------------------------
(* Writers without the lock, the operator and death. *)

\* A step of somebody else, after which the grants of an envelope are as many.
LEMMA OthersStep ==
  ASSUME Inductive, UNCHANGED <<holder, depth, acts>>,
         \A d \in Callers : pc'[d] = pc[d] /\ arg'[d] = arg[d],
         \A e \in Envelopes : Granted(e)' = Granted(e)
  PROVE  LockSound' /\ Meter'
<1>1. Meter /\ TypeOK
  BY DEF Inductive, Meter
<1>2. \A d \in Callers : Quiet(d)
  BY <1>1, SameIsQuiet
<1>3. \A e \in Envelopes : Granted(e) \in Nat /\ acts[e] \in Nat
  BY <1>1, GrantsFinite DEF TypeOK
<1>4. LockSound'
  BY LockQuiet DEF Inductive, LockSound
<1> QED BY <1>1, <1>2, <1>3, <1>4, QuietMeter

LEMMA ForeignSteps ==
  ASSUME Inductive, NEW f \in Foreign, ForeignBegin(f) \/ ReadHead(f) \/ ForeignInsert(f)
  PROVE  LockSound' /\ Meter'
<1>1. TypeOK /\ arg[f].prev \in Seq(Hashed) /\ \A d \in Callers : d # f
  BY SessionsAssumption DEF Inductive, TypeOK, Writers, Args
<1>2. UNCHANGED <<holder, depth, acts>>
  BY DEF ForeignBegin, ReadHead, ForeignInsert, keeping
<1>3. \A d \in Callers : pc'[d] = pc[d] /\ arg'[d] = arg[d]
  BY <1>1 DEF ForeignBegin, ReadHead, ForeignInsert, Go, Return, TypeOK, Writers
<1>4. \A e \in Envelopes : Granted(e)' = Granted(e)
  <2>1. CASE Store(Plain, arg[f].prev)
    BY <1>1, <2>1, PlainTyped, StoreGranted
  <2>2. CASE UNCHANGED rows
    BY <2>2, RowsKept
  <2> QED BY <2>1, <2>2 DEF ForeignBegin, ReadHead, ForeignInsert
<1> QED BY <1>2, <1>3, <1>4, OthersStep

LEMMA OperatorSteps ==
  ASSUME Inductive, CheckChain \/ WriteAnchor \/ \E i \in DOMAIN rows : Edit(i)
  PROVE  LockSound' /\ Meter'
<1>1. UNCHANGED <<holder, depth, acts>> /\ \A d \in Callers : pc'[d] = pc[d] /\ arg'[d] = arg[d]
  BY DEF CheckChain, WriteAnchor, Edit
<1>2. \A e \in Envelopes : Granted(e)' = Granted(e)
  <2>1. CASE UNCHANGED rows
    BY <2>1, RowsKept
  <2>2. ASSUME NEW i \in DOMAIN rows, Edit(i)
        PROVE  \A e \in Envelopes : Granted(e)' = Granted(e)
    BY <2>2, EditTyped, SameGranted DEF Inductive
  <2> QED BY <2>1, <2>2 DEF CheckChain, WriteAnchor
<1> QED BY <1>1, <1>2, OthersStep

\* The lock of a process that dies goes with it, and so do its calls.
LEMMA DieStep ==
  ASSUME Inductive, NEW s \in Sessions, Die(s)
  PROVE  LockSound' /\ Meter'
<1>1. TypeOK /\ Meter /\ LockSound /\ UNCHANGED <<rows, acts>>
  BY DEF Inductive, Meter, LockSound, Die, keeping
<1>2. \A d \in Callers : /\ SessionOf[d] = s => pc'[d] = "idle" /\ arg'[d] = NoArg
                         /\ SessionOf[d] # s => pc'[d] = pc[d] /\ arg'[d] = arg[d]
  BY DEF Die, Writers
<1>3. holder' = (IF holder = s THEN NoSession ELSE holder)
      /\ depth' = (IF holder = s THEN 0 ELSE depth)
  BY DEF Die
<1>4. LockSound'
  <2>1. CASE holder = s
    <3>1. InsideCalls' = {}
      BY <1>1, <1>2, <2>1 DEF LockSound, LockOK, InsideCalls, Inside
    <3>2. holder' = NoSession /\ depth' = 0
      BY <1>3, <2>1
    <3> QED BY <3>1, <3>2, FS_EmptySet DEF LockSound, LockOK
  <2>2. CASE holder # s
    <3>1. InsideCalls' = InsideCalls
      BY <1>1, <1>2, <2>2 DEF LockSound, LockOK, InsideCalls, Inside
    <3> QED BY <1>1, <1>3, <2>2, <3>1 DEF LockSound, LockOK
  <2> QED BY <2>1, <2>2
<1>5. \A d \in Callers : Quiet(d)
  BY <1>1, <1>2, IdleIsQuiet, SameIsQuiet
<1>6. \A e \in Envelopes : Granted(e)' = Granted(e) /\ Granted(e) \in Nat /\ acts[e] \in Nat
  BY <1>1, RowsKept, GrantsFinite DEF TypeOK
<1> QED BY <1>1, <1>4, <1>5, <1>6, QuietMeter

-----------------------------------------------------------------------------
(* The inductive invariant and what it says. *)

LEMMA InductiveInit == Init => Inductive
<1> SUFFICES ASSUME Init PROVE Inductive
  OBVIOUS
<1>1. TypeOK
  BY TypeInit
<1>2. \A c \in Callers : pc[c] = "idle" /\ arg[c] = NoArg
  BY DEF Init, Writers
<1>3. LockSound
  <2>1. InsideCalls = {}
    BY <1>2 DEF InsideCalls, Inside
  <2> QED BY <2>1, FS_EmptySet DEF Init, LockSound, LockOK
<1>4. /\ GrantsAreOfEnvelopes /\ StoredIsDone /\ ActsAreGranted /\ RelinkHasBegun
      /\ TriesAreLeft /\ CountStands
  BY <1>2, PlainTyped, NoArgTyped
     DEF GrantsAreOfEnvelopes, StoredIsDone, ActsAreGranted, RelinkHasBegun, TriesAreLeft,
         CountStands, MaxTries
<1>5. \A e \in Envelopes : Granted(e) = 0 /\ Pending(e) = {} /\ acts[e] = 0
  <2> TAKE e \in Envelopes
  <2>1. {i \in DOMAIN rows : rows[i].content.envelope = e /\ rows[i].content.outcome = "granted"} = {}
    BY PlainTyped DEF Init
  <2>2. Pending(e) = {}
    BY <1>2, NoArgTyped DEF Pending
  <2> QED BY <2>1, <2>2, FS_EmptySet DEF Granted, Init
<1>6. GrantsCover
  BY <1>5, FS_EmptySet DEF GrantsCover
<1>7. WithinQuota
  BY <1>5, EnvelopesAssumption DEF WithinQuota
<1> QED BY <1>1, <1>3, <1>4, <1>6, <1>7 DEF Inductive, Metered, LockSound

LEMMA InductiveStep == Inductive /\ [Next]_vars => Inductive'
<1> SUFFICES ASSUME Inductive, [Next]_vars PROVE Inductive'
  OBVIOUS
<1>1. ASSUME TypeOK', LockSound', Meter' PROVE Inductive'
  BY <1>1 DEF Inductive, Meter, LockSound
<1>2. CASE UNCHANGED vars
  <2>1. \A e \in Envelopes : Granted(e)' = Granted(e)
    BY <1>2, RowsKept DEF vars
  <2>2. TypeOK'
    BY <1>2 DEF vars, Inductive, TypeOK
  <2> QED BY <1>1, <1>2, <2>1, <2>2, OthersStep DEF vars
<1>3. ASSUME NEW c \in Callers, Call(c) PROVE Inductive'
  <2>1. TypeOK'
    BY <1>3, TypeCall DEF Inductive, LockSound
  <2> QED BY <1>1, <1>3, <2>1, EarlySteps, LateSteps, StoreStep, ActStep, MarkStep DEF Call
<1>4. CASE \/ \E f \in Foreign : ForeignBegin(f) \/ ReadHead(f) \/ ForeignInsert(f)
           \/ CheckChain \/ WriteAnchor
           \/ \E i \in DOMAIN rows : Edit(i)
           \/ \E s \in Sessions : Die(s)
  <2>1. TypeOK'
    BY <1>4, TypeRest DEF Inductive
  <2> QED BY <1>1, <1>4, <2>1, ForeignSteps, OperatorSteps, DieStep
<1> QED BY <1>2, <1>3, <1>4 DEF Next

LEMMA CoverCounts ==
  ASSUME Inductive, NEW e \in Envelopes
  PROVE  acts[e] <= Granted(e)
<1>1. IsFiniteSet(Pending(e)) /\ acts[e] + Cardinality(Pending(e)) <= Granted(e)
  BY DEF Inductive, GrantsCover
<1>2. Cardinality(Pending(e)) \in Nat /\ Granted(e) \in Nat /\ acts[e] \in Nat
  BY <1>1, FS_CardinalityType, GrantsFinite DEF Inductive, TypeOK
<1> QED BY <1>1, <1>2

\* The inductive invariant, whichever calls share a session, whoever writes without
\* the lock, relinks the table, edits a row or dies.
THEOREM LedgerInductive == Spec => []Inductive
  BY InductiveInit, InductiveStep, PTL DEF Spec

\* Type correctness.
THEOREM LedgerTypeCorrect == Spec => []TypeOK
<1>1. Inductive => TypeOK
  BY DEF Inductive
<1> QED BY <1>1, LedgerInductive, PTL

\* The advisory lock is held by the session of the calls that are inside, once for
\* each, and by nobody when no call is: no death, refusal or failed INSERT keeps it.
THEOREM LockIsSound == Spec => []LockOK
<1>1. Inductive => LockOK
  BY DEF Inductive
<1> QED BY <1>1, LedgerInductive, PTL

\* No act goes without a granted citation of its own, even where two threads share
\* a session and the quota itself is not kept.
THEOREM ActsAreCited == Spec => [](\A e \in Envelopes : acts[e] <= Granted(e))
<1>1. Inductive => \A e \in Envelopes : acts[e] <= Granted(e)
  BY CoverCounts
<1> QED BY <1>1, LedgerInductive, PTL

\* No envelope is cited as granted more often than its max_count, and no act goes
\* without a citation of its own.
THEOREM QuotaKept == ASSUME OneCallEach PROVE Spec => []QuotaRespected
<1>1. Inductive => QuotaRespected
  BY CoverCounts DEF Inductive, Metered, WithinQuota, QuotaRespected
<1> QED BY <1>1, LedgerInductive, PTL

-----------------------------------------------------------------------------
(* What a hash says of the table before it. *)

\* A set of numbers has a least one: the argument of each proof over the table.
LEMMA LeastNumber ==
  ASSUME NEW S \in SUBSET Nat, S # {}
  PROVE  \E n \in S : \A m \in S : n <= m
<1>1. \E n \in S : \A m \in S : ~(<<m, n>> \in OpToRel(<, Nat))
  BY NatLessThanWellFounded, WFMin
<1>2. \A n, m \in S : ~(<<m, n>> \in OpToRel(<, Nat)) => n <= m
  BY DEF OpToRel
<1> QED BY <1>1, <1>2

\* verify() of a table t, as Walks has it of rows.
LinkedIn(t, i) == t[i].prev = IF i = 1 THEN NoHash ELSE t[i - 1].hash
DigestOf(r, i) == r.hash \in {Digest1(r.prev, r.content), Digest2(r.prev, i, r.content)}
WalksIn(t) == \A i \in DOMAIN t : LinkedIn(t, i) /\ DigestOf(t[i], i)

LEMMA WalksIsWalksIn == Walks <=> WalksIn(rows)
BY DEF Walks, WalksIn, Linked, LinkedIn, Digested, DigestOf

LEMMA AppendSame ==
  ASSUME NEW s \in Seq(Hashed), NEW t \in Seq(Hashed), NEW x \in Hashed, NEW y \in Hashed,
         Append(s, x) = Append(t, y)
  PROVE  s = t /\ x = y
<1>1. Len(s) + 1 = Len(t) + 1 /\ Len(s) \in Nat /\ Len(t) \in Nat
  BY LenProperties, AppendProperties
<1>2. Len(s) = Len(t)
  BY <1>1
<1>3. \A i \in 1..Len(s) : s[i] = t[i]
  <2> TAKE i \in 1..Len(s)
  <2>1. Append(s, x)[i] = s[i] /\ Append(t, y)[i] = t[i]
    BY <1>2, AppendProperties
  <2> QED BY <2>1
<1>4. Append(s, x)[Len(s) + 1] = x /\ Append(t, y)[Len(t) + 1] = y
  BY AppendProperties
<1> QED BY <1>2, <1>3, <1>4, SeqEqual

\* The hash of a row covers the hash before it and the content.
LEMMA DigestFacts ==
  ASSUME NEW r \in Rows, NEW i \in Nat, DigestOf(r, i)
  PROVE  /\ Len(r.hash) = Len(r.prev) + 1
         /\ \E n \in Nat : /\ [id |-> n, content |-> r.content] \in Hashed
                           /\ r.hash = Append(r.prev, [id |-> n, content |-> r.content])
<1>1. r.prev \in Seq(Hashed) /\ r.content \in Contents
  BY DEF Rows
<1>2. PICK n \in Nat : r.hash = Append(r.prev, [id |-> n, content |-> r.content])
  BY DEF DigestOf, Digest1, Digest2
<1>3. [id |-> n, content |-> r.content] \in Hashed
  BY <1>1 DEF Hashed
<1> QED BY <1>1, <1>2, <1>3, AppendProperties

LEMMA SameHashSameRow ==
  ASSUME NEW r \in Rows, NEW q \in Rows, NEW i \in Nat, NEW j \in Nat,
         DigestOf(r, i), DigestOf(q, j), r.hash = q.hash
  PROVE  r = q
<1> DEFINE entry(n, content) == [id |-> n, content |-> content]
<1>1. PICK n \in Nat : /\ entry(n, r.content) \in Hashed
                       /\ r.hash = Append(r.prev, entry(n, r.content))
  BY DigestFacts
<1>2. PICK m \in Nat : /\ entry(m, q.content) \in Hashed
                       /\ q.hash = Append(q.prev, entry(m, q.content))
  BY DigestFacts
<1>3. r.prev \in Seq(Hashed) /\ q.prev \in Seq(Hashed)
  BY DEF Rows
<1>4. r.prev = q.prev /\ entry(n, r.content) = entry(m, q.content)
  <2> HIDE DEF entry
  <2>1. Append(r.prev, entry(n, r.content)) = Append(q.prev, entry(m, q.content))
    BY <1>1, <1>2
  <2>2. entry(n, r.content) \in Hashed /\ entry(m, q.content) \in Hashed
    BY <1>1, <1>2
  <2> DEFINE s == r.prev  t == q.prev  x == entry(n, r.content)  y == entry(m, q.content)
  <2>3. s \in Seq(Hashed) /\ t \in Seq(Hashed) /\ x \in Hashed /\ y \in Hashed
    BY <1>3, <2>2
  <2>4. Append(s, x) = Append(t, y)
    BY <2>1
  <2> HIDE DEF s, t, x, y
  <2>5. s = t /\ x = y
    BY <2>3, <2>4, AppendSame
  <2> QED BY <2>5 DEF s, t, x, y
<1>5. r.content = q.content
  BY <1>4
<1> QED BY <1>4, <1>5 DEF Rows

\* In a table that verifies, the hash of a row tells its place.
LEMMA HashLength ==
  ASSUME NEW t \in Seq(Rows), WalksIn(t)
  PROVE  \A i \in DOMAIN t : Len(t[i].hash) = i
<1> DEFINE S == {i \in DOMAIN t : Len(t[i].hash) # i}
<1>1. SUFFICES ASSUME S # {} PROVE FALSE
  OBVIOUS
<1>2. DOMAIN t = 1..Len(t) /\ Len(t) \in Nat
  OBVIOUS
<1>3. S \in SUBSET Nat
  BY <1>2
<1>4. PICK n \in S : \A m \in S : n <= m
  BY <1>1, <1>3, LeastNumber
<1>5. n \in 1..Len(t) /\ n \in Nat /\ Len(t[n].hash) # n
  BY <1>2, <1>4
<1>6. t[n] \in Rows /\ LinkedIn(t, n) /\ DigestOf(t[n], n)
  BY <1>2, <1>5 DEF WalksIn
<1>7. Len(t[n].hash) = Len(t[n].prev) + 1
  BY <1>5, <1>6, DigestFacts
<1>8. CASE n = 1
  <2>1. Len(t[n].prev) = 0
    BY <1>6, <1>8 DEF LinkedIn, NoHash
  <2> QED BY <1>5, <1>7, <1>8, <2>1
<1>9. CASE n # 1
  <2>1. n - 1 \in 1..Len(t) /\ n - 1 \notin S
    BY <1>2, <1>3, <1>4, <1>5, <1>9
  <2>2. Len(t[n - 1].hash) = n - 1
    BY <1>2, <2>1
  <2>3. t[n].prev = t[n - 1].hash
    BY <1>6, <1>9 DEF LinkedIn
  <2> QED BY <1>5, <1>7, <2>2, <2>3
<1> QED BY <1>8, <1>9

\* Two tables that verify and have a hash in common have it at the same place, and
\* the same rows up to there.
LEMMA HashPins ==
  ASSUME NEW t \in Seq(Rows), NEW u \in Seq(Rows), WalksIn(t), WalksIn(u),
         NEW n \in DOMAIN t, NEW i \in DOMAIN u, t[n].hash = u[i].hash
  PROVE  i = n /\ \A k \in 1..n : k \in DOMAIN u /\ k \in DOMAIN t /\ u[k] = t[k]
<1>1. /\ DOMAIN t = 1..Len(t) /\ Len(t) \in Nat
      /\ DOMAIN u = 1..Len(u) /\ Len(u) \in Nat
  OBVIOUS
<1>2. i = n
  BY HashLength
<1>3. n \in Nat /\ n > 0 /\ \A k \in 1..n : k \in DOMAIN u /\ k \in DOMAIN t
  BY <1>1, <1>2
<1> DEFINE S == {k \in 0..(n - 1) : u[n - k] # t[n - k]}
<1>4. ASSUME NEW k \in 0..(n - 1), k \notin S
      PROVE  u[n - k] = t[n - k]
  BY <1>4
<1>5. S = {}
  <2>1. SUFFICES ASSUME S # {} PROVE FALSE
    OBVIOUS
  <2>2. S \in SUBSET Nat
    BY <1>3
  <2>3. PICK k \in S : \A m \in S : k <= m
    BY <2>1, <2>2, LeastNumber
  <2>4. k \in 0..(n - 1) /\ u[n - k] # t[n - k]
    BY <2>3
  <2> DEFINE j == n - k
  <2>5. j \in 1..n /\ j \in Nat
    BY <1>3, <2>4
  <2>6. /\ t[j] \in Rows /\ u[j] \in Rows
        /\ DigestOf(t[j], j) /\ DigestOf(u[j], j)
    BY <1>3, <2>5 DEF WalksIn
  <2>7. t[j].hash = u[j].hash
    <3>1. CASE k = 0
      BY <1>2, <1>3, <3>1
    <3>2. CASE k # 0
      <4>1. k - 1 \in 0..(n - 1) /\ k - 1 \notin S
        BY <1>3, <2>2, <2>3, <2>4, <3>2
      <4>2. n - (k - 1) = j + 1 /\ j + 1 \in 1..n /\ j + 1 # 1 /\ (j + 1) - 1 = j
        BY <1>3, <2>4, <3>2
      <4>3. u[j + 1] = t[j + 1]
        BY <1>4, <4>1, <4>2
      <4>4. LinkedIn(t, j + 1) /\ LinkedIn(u, j + 1)
        BY <1>3, <4>2 DEF WalksIn
      <4>5. t[j + 1].prev = t[j].hash /\ u[j + 1].prev = u[j].hash
        BY <4>2, <4>4 DEF LinkedIn
      <4> QED BY <4>3, <4>5
    <3> QED BY <3>1, <3>2
  <2>8. t[j] = u[j]
    BY <2>5, <2>6, <2>7, SameHashSameRow
  <2> QED BY <2>4, <2>8
<1>6. \A k \in 1..n : u[k] = t[k]
  <2> TAKE k \in 1..n
  <2>1. n - k \in 0..(n - 1) /\ n - (n - k) = k
    BY <1>3
  <2> QED BY <1>4, <1>5, <2>1
<1> QED BY <1>2, <1>3, <1>6

-----------------------------------------------------------------------------
(* The table and its anchor. *)

StartsWith(t) == \A i \in DOMAIN t : i \in DOMAIN rows /\ rows[i] = t[i]

\* The anchor is the head of a table that verified; as long as no row was edited or
\* relinked, that table and the one being checked are the start of this one.
TableInv ==
  /\ rows # <<>>
  /\ anchor # NoAnchor => vouched # <<>> /\ anchor = vouched[Len(vouched)].hash /\ WalksIn(vouched)
  /\ checked # <<>> => WalksIn(checked)
  /\ intact => WalksIn(rows) /\ StartsWith(vouched) /\ StartsWith(checked)

\* The head a writer has read is that of some row still, and no rechain has changed one.
HeadSeen(d) == intact => /\ ~arg[d].migrated
                         /\ pc[d] = "insert" => \E i \in DOMAIN rows : rows[i].hash = arg[d].prev

TableRight == TableInv /\ \A d \in Writers : HeadSeen(d)

\* While nobody tampers, a row that is there stays there as it is.
Grows == intact' => intact /\ \A i \in DOMAIN rows : i \in DOMAIN rows' /\ rows'[i] = rows[i]

LEMMA StoreRow ==
  ASSUME TypeOK, NEW content \in Contents, NEW prev \in Seq(Hashed), Store(content, prev)
  PROVE  LET new == Len(rows) + 1 IN
         /\ DOMAIN rows = 1..Len(rows) /\ DOMAIN rows' = 1..new
         /\ rows'[new].content = content /\ rows'[new].prev = prev
         /\ rows'[new].hash = Digest2(prev, new, content)
         /\ \A i \in 1..Len(rows) : rows'[i] = rows[i]
<1> DEFINE r == [content |-> content, prev |-> prev,
                 hash |-> Digest2(prev, Len(rows) + 1, content)]
<1>1. rows \in Seq(Rows) /\ Len(rows) \in Nat
  BY DEF TypeOK
<1>2. r \in Rows
  BY <1>1, DigestTyped DEF Rows
<1>3. rows' = Append(rows, r)
  BY DEF Store
<1>4. r.content = content /\ r.prev = prev /\ r.hash = Digest2(prev, Len(rows) + 1, content)
  OBVIOUS
<1> HIDE DEF r
<1> QED BY <1>1, <1>2, <1>3, <1>4

\* The index keeps a row from following any but the last.
LEMMA FreeIsTip ==
  ASSUME TypeOK, WalksIn(rows), NEW j \in DOMAIN rows, ~Conflict(rows[j].hash)
  PROVE  j = Len(rows)
<1>1. DOMAIN rows = 1..Len(rows) /\ Len(rows) \in Nat /\ rows \in Seq(Rows) /\ j \in Nat
  BY DEF TypeOK
<1>2. rows[j].hash # NoHash
  <2>1. Len(rows[j].hash) = j /\ j > 0
    BY <1>1, HashLength
  <2>2. Len(NoHash) = 0
    BY DEF NoHash
  <2> QED BY <2>1, <2>2
<1>3. SUFFICES ASSUME j # Len(rows) PROVE FALSE
  OBVIOUS
<1>4. j + 1 \in DOMAIN rows /\ j + 1 # 1 /\ (j + 1) - 1 = j
  BY <1>1, <1>3
<1>5. rows[j + 1].prev = rows[j].hash
  BY <1>4 DEF WalksIn, LinkedIn
<1> QED BY <1>2, <1>4, <1>5 DEF Conflict

LEMMA StoreWalks ==
  ASSUME TypeOK, WalksIn(rows), NEW content \in Contents, NEW prev \in Seq(Hashed),
         NEW j \in DOMAIN rows, rows[j].hash = prev, ~Conflict(prev), Store(content, prev)
  PROVE  WalksIn(rows')
<1> DEFINE n == Len(rows)
<1>1. j = n /\ n \in Nat /\ n > 0
  BY FreeIsTip DEF TypeOK
<1>2. /\ DOMAIN rows = 1..n /\ DOMAIN rows' = 1..(n + 1)
      /\ rows'[n + 1].content = content /\ rows'[n + 1].prev = prev
      /\ rows'[n + 1].hash = Digest2(prev, n + 1, content)
      /\ \A i \in 1..n : rows'[i] = rows[i]
  BY StoreRow
<1> HIDE DEF n
<1>3. ASSUME NEW i \in 1..n PROVE LinkedIn(rows', i) /\ DigestOf(rows'[i], i)
  <2>1. LinkedIn(rows, i) /\ DigestOf(rows[i], i) /\ rows'[i] = rows[i]
    BY <1>2 DEF WalksIn
  <2>2. i # 1 => rows'[i - 1] = rows[i - 1]
    BY <1>1, <1>2
  <2> QED BY <2>1, <2>2 DEF LinkedIn
<1>4. LinkedIn(rows', n + 1)
  <2>1. rows'[(n + 1) - 1] = rows[n] /\ n + 1 # 1
    BY <1>1, <1>2
  <2> QED BY <1>1, <1>2, <2>1 DEF LinkedIn
<1>5. DigestOf(rows'[n + 1], n + 1)
  BY <1>2 DEF DigestOf
<1> QED BY <1>1, <1>2, <1>3, <1>4, <1>5 DEF WalksIn

LEMMA TableKept ==
  ASSUME TableInv, UNCHANGED <<rows, anchor, vouched, checked>>, intact' => intact
  PROVE  TableInv' /\ Grows
BY DEF TableInv, Grows, StartsWith

LEMMA TableTampered ==
  ASSUME TableInv, ~intact', rows' # <<>>, UNCHANGED <<anchor, vouched, checked>>
  PROVE  TableInv' /\ Grows
BY DEF TableInv, Grows

LEMMA TableGrows ==
  ASSUME TypeOK, TableInv, UNCHANGED <<anchor, vouched, checked>>, intact' => intact,
         NEW content \in Contents, NEW prev \in Seq(Hashed), Store(content, prev),
         intact => ~Conflict(prev) /\ \E i \in DOMAIN rows : rows[i].hash = prev
  PROVE  TableInv' /\ Grows
<1>1. /\ DOMAIN rows = 1..Len(rows) /\ Len(rows) \in Nat /\ DOMAIN rows' = 1..(Len(rows) + 1)
      /\ \A i \in 1..Len(rows) : rows'[i] = rows[i]
  BY StoreEffect
<1>2. \A i \in DOMAIN rows : i \in DOMAIN rows' /\ rows'[i] = rows[i]
  BY <1>1
<1>3. rows' # <<>>
  BY <1>1
<1>4. ASSUME intact PROVE WalksIn(rows')
  <2>1. PICK j \in DOMAIN rows : rows[j].hash = prev
    BY <1>4
  <2> QED BY <1>4, <2>1, StoreWalks DEF TableInv
<1>5. intact => StartsWith(vouched)' /\ StartsWith(checked)'
  BY <1>2 DEF TableInv, StartsWith
<1> QED BY <1>2, <1>3, <1>4, <1>5 DEF TableInv, Grows

LEMMA HeadStays ==
  ASSUME Grows, NEW d, HeadSeen(d), intact' /\ arg'[d].migrated => arg[d].migrated,
         pc'[d] = "insert" => pc[d] = "insert" /\ arg'[d].prev = arg[d].prev
  PROVE  HeadSeen(d)'
<1>1. SUFFICES ASSUME intact'
               PROVE  /\ ~arg'[d].migrated
                      /\ pc'[d] = "insert" => \E i \in DOMAIN rows' : rows'[i].hash = arg'[d].prev
  BY DEF HeadSeen
<1>2. intact /\ \A i \in DOMAIN rows : i \in DOMAIN rows' /\ rows'[i] = rows[i]
  BY <1>1 DEF Grows
<1> QED BY <1>1, <1>2 DEF HeadSeen

\* A step of one writer.
LEMMA WriterStep ==
  ASSUME TableRight, TableInv', Grows, NEW c \in Writers, Others(c), HeadSeen(c)'
  PROVE  TableRight'
<1>1. \A d \in Writers : HeadSeen(d)'
  <2> TAKE d \in Writers
  <2>1. CASE d = c
    BY <2>1
  <2>2. CASE d # c
    BY <2>2, HeadStays DEF TableRight, Others
  <2> QED BY <2>1, <2>2
<1> QED BY <1>1 DEF TableRight

\* The writer may have begun anew, but is not at its INSERT.
LEMMA WriterMoves ==
  ASSUME TableRight, TableInv', Grows, NEW c \in Writers, Others(c),
         intact' /\ arg'[c].migrated => arg[c].migrated, pc'[c] # "insert"
  PROVE  TableRight'
<1>1. HeadSeen(c)'
  BY HeadStays DEF TableRight
<1> QED BY <1>1, WriterStep

\* The fields of arg[c] that bear on the table.
LEMMA MigratedFields ==
  ASSUME NEW a \in Args, NEW content, NEW prev, NEW n, NEW b, NEW tries, NEW seen
  PROVE  /\ [a EXCEPT !.content = content].migrated = a.migrated
         /\ [a EXCEPT !.prev = prev].migrated = a.migrated /\ [a EXCEPT !.prev = prev].prev = prev
         /\ [a EXCEPT !.at = n, !.force = b].migrated = a.migrated
         /\ [a EXCEPT !.tries = tries].migrated = a.migrated
         /\ ~[NoArg EXCEPT !.content = content, !.stored = TRUE].migrated
         /\ [a EXCEPT !.seen = seen, !.at = n, !.prev = prev].migrated = a.migrated
         /\ [a EXCEPT !.at = n, !.prev = prev, !.migrated = b].migrated = b
         /\ ~NoArg.migrated
BY DEF Args, NoArg

LEMMA WriterGo ==
  ASSUME TypeOK, NEW c \in Writers, NEW step, Go(c, step),
         NEW a, arg' = [arg EXCEPT ![c] = a] \/ (arg' = arg /\ a = arg[c])
  PROVE  pc'[c] = step /\ arg'[c] = a /\ Others(c)
BY DEF Go, TypeOK, Others

LEMMA WriterReturn ==
  ASSUME TypeOK, NEW c \in Writers, Return(c)
  PROVE  pc'[c] = "idle" /\ arg'[c] = NoArg /\ Others(c)
BY DEF Return, TypeOK, Others

\* Steps that leave the table alone.
LEMMA TableEarly ==
  ASSUME TypeOK, TableRight, NEW c \in Writers,
         \/ Begin(c) \/ BeginRechain(c) \/ (\E e \in Envelopes : Cite(c, e)) \/ ForeignBegin(c)
         \/ Lock(c) \/ Unlock(c) \/ Count(c) \/ Scan(c) \/ Act(c)
  PROVE  TableRight'
<1>1. arg[c] \in Args
  BY DEF TypeOK
<1>2. UNCHANGED <<rows, anchor, vouched, checked, intact>>
  BY DEF Begin, BeginRechain, Cite, ForeignBegin, Lock, Unlock, Count, Scan, Act, keeping
<1>3. TableInv' /\ Grows
  BY <1>2, TableKept DEF TableRight
<1>4. ASSUME NEW step, step # "insert", Go(c, step), NEW a,
             arg' = [arg EXCEPT ![c] = a] \/ (arg' = arg /\ a = arg[c]),
             a.migrated => arg[c].migrated
      PROVE  TableRight'
  <2>1. pc'[c] = step /\ arg'[c] = a /\ Others(c)
    BY <1>4, WriterGo
  <2> QED BY <1>3, <1>4, <2>1, WriterMoves
<1>5. ASSUME Return(c) PROVE TableRight'
  <2>1. pc'[c] = "idle" /\ arg'[c] = NoArg /\ Others(c)
    BY <1>5, WriterReturn
  <2>2. ~arg'[c].migrated
    BY <1>1, <2>1, MigratedFields
  <2> QED BY <1>3, <2>1, <2>2, WriterMoves
<1>6. CASE Begin(c) \/ ForeignBegin(c)
  BY <1>4, <1>6 DEF Begin, ForeignBegin
<1>7. CASE BeginRechain(c)
  <2>1. PICK b \in BOOLEAN : arg' = [arg EXCEPT ![c] = [arg[c] EXCEPT !.at = 0, !.force = b]]
    BY <1>7 DEF BeginRechain
  <2> DEFINE new == [arg[c] EXCEPT !.at = 0, !.force = b]
  <2>2. new.migrated = arg[c].migrated
    BY <1>1, MigratedFields
  <2>3. Go(c, "lock")
    BY <1>7 DEF BeginRechain
  <2> HIDE DEF new
  <2> QED BY <1>4, <2>1, <2>2, <2>3 DEF new
<1>8. ASSUME NEW e \in Envelopes, Cite(c, e) PROVE TableRight'
  <2>1. PICK outcome \in Outcomes :
          arg' = [arg EXCEPT ![c] = [arg[c] EXCEPT !.content = Cites(e, outcome)]]
    BY <1>8 DEF Cite, Outcomes
  <2> DEFINE new == [arg[c] EXCEPT !.content = Cites(e, outcome)]
  <2>2. new.migrated = arg[c].migrated
    BY <1>1, MigratedFields
  <2>3. Go(c, "lock")
    BY <1>8 DEF Cite
  <2>4. arg' = [arg EXCEPT ![c] = new]
    BY <2>1
  <2> HIDE DEF new
  <2> QED BY <1>4, <2>2, <2>3, <2>4
<1>9. CASE Lock(c)
  <2> DEFINE step == IF arg[c].at = 0 THEN "scan"
                     ELSE IF arg[c].content.outcome = "granted" THEN "count" ELSE "head"
  <2>1. Go(c, step) /\ arg' = arg /\ step # "insert"
    BY <1>9 DEF Lock
  <2> HIDE DEF step
  <2> QED BY <1>4, <2>1
<1>10. CASE Unlock(c)
  <2>1. Return(c) \/ (Go(c, "act") /\ arg' = arg)
    BY <1>10 DEF Unlock
  <2> QED BY <1>4, <1>5, <2>1
<1>11. CASE Count(c)
  <2>1. Go(c, "head")
    BY <1>11 DEF Count
  <2> DEFINE new == [arg[c] EXCEPT !.content = Cites(arg[c].content.envelope, "EDQUOT")]
  <2>2. new.migrated = arg[c].migrated
    BY <1>1, MigratedFields
  <2>3. arg' = arg \/ arg' = [arg EXCEPT ![c] = new]
    BY <1>11 DEF Count
  <2> HIDE DEF new
  <2> QED BY <1>4, <2>1, <2>2, <2>3
<1>12. CASE Scan(c)
  <2> DEFINE new == [arg[c] EXCEPT !.seen = rows, !.at = 1, !.prev = NoHash]
  <2>1. new.migrated = arg[c].migrated /\ ~NoArg.migrated
    BY <1>1, MigratedFields
  <2>2. \/ Go(c, "unlock") /\ arg' = [arg EXCEPT ![c] = NoArg]
        \/ Go(c, "relink") /\ arg' = [arg EXCEPT ![c] = new]
    BY <1>12 DEF Scan
  <2> HIDE DEF new
  <2> QED BY <1>4, <2>1, <2>2
<1>13. CASE Act(c)
  BY <1>5, <1>13 DEF Act
<1> QED BY <1>6, <1>7, <1>8, <1>9, <1>10, <1>11, <1>12, <1>13

\* The head is read.
LEMMA TableRead ==
  ASSUME TypeOK, TableRight, NEW c \in Writers, ReadHead(c)
  PROVE  TableRight'
<1>1. arg[c] \in Args /\ rows \in Seq(Rows) /\ rows # <<>>
  BY DEF TypeOK, TableRight, TableInv
<1>2. UNCHANGED <<rows, anchor, vouched, checked, intact>>
  BY DEF ReadHead, keeping
<1>3. TableInv' /\ Grows
  BY <1>2, TableKept DEF TableRight
<1> DEFINE new == [arg[c] EXCEPT !.prev = Tip]
<1>4. new.migrated = arg[c].migrated /\ new.prev = Tip
  BY <1>1, MigratedFields
<1>5. Go(c, "insert") /\ arg' = [arg EXCEPT ![c] = new]
  BY DEF ReadHead
<1> HIDE DEF new
<1>6. pc'[c] = "insert" /\ arg'[c] = new /\ Others(c)
  BY <1>5, WriterGo
<1>7. Len(rows) \in DOMAIN rows /\ rows[Len(rows)].hash = Tip
  BY <1>1 DEF Tip
<1>8. HeadSeen(c)'
  <2>1. HeadSeen(c)
    BY DEF TableRight
  <2> QED BY <1>2, <1>4, <1>6, <1>7, <2>1 DEF HeadSeen
<1> QED BY <1>3, <1>6, <1>8, WriterStep

\* A row is inserted: after the head that was read, or not at all.
LEMMA TableStore ==
  ASSUME TypeOK, TableRight, NEW c \in Writers, Insert(c) \/ ForeignInsert(c)
  PROVE  TableRight'
<1>1. /\ arg[c] \in Args /\ arg[c].content \in Contents /\ arg[c].prev \in Seq(Hashed)
      /\ pc[c] = "insert" /\ UNCHANGED <<anchor, vouched, checked, intact>>
  BY DEF TypeOK, Args, Insert, ForeignInsert, keeping
<1>2. intact => \E i \in DOMAIN rows : rows[i].hash = arg[c].prev
  BY <1>1 DEF TableRight, HeadSeen
<1>3. TableInv' /\ Grows
  <2>1. ASSUME NEW content \in Contents, Store(content, arg[c].prev), ~Conflict(arg[c].prev)
        PROVE  TableInv' /\ Grows
    BY <1>1, <1>2, <2>1, TableGrows DEF TableRight
  <2>2. CASE UNCHANGED rows
    BY <1>1, <2>2, TableKept DEF TableRight
  <2> QED BY <1>1, <2>1, <2>2, PlainTyped DEF Insert, ForeignInsert
<1>4. CASE ForeignInsert(c)
  <2>1. pc'[c] = "idle" /\ arg'[c] = NoArg /\ Others(c)
    BY <1>4, WriterReturn DEF ForeignInsert
  <2>2. ~arg'[c].migrated
    BY <1>1, <2>1, MigratedFields
  <2> QED BY <1>3, <2>1, <2>2, WriterMoves
<1>5. CASE Insert(c)
  <2> DEFINE new == [NoArg EXCEPT !.content = arg[c].content, !.stored = TRUE]
             again == [arg[c] EXCEPT !.tries = arg[c].tries + 1]
             step == IF arg[c].tries + 1 = MaxTries THEN "unlock" ELSE "head"
  <2>1. ~new.migrated /\ again.migrated = arg[c].migrated /\ step # "insert"
    BY <1>1, MigratedFields
  <2>2. \/ Go(c, "unlock") /\ arg' = [arg EXCEPT ![c] = new]
        \/ Go(c, step) /\ arg' = [arg EXCEPT ![c] = again]
    BY <1>5 DEF Insert
  <2> HIDE DEF new, again, step
  <2>3. /\ Others(c) /\ pc'[c] # "insert"
        /\ arg'[c] = new \/ arg'[c] = again
    <3>1. CASE Go(c, "unlock") /\ arg' = [arg EXCEPT ![c] = new]
      <4>1. pc'[c] = "unlock" /\ arg'[c] = new /\ Others(c)
        BY <3>1, WriterGo
      <4> QED BY <4>1
    <3>2. CASE Go(c, step) /\ arg' = [arg EXCEPT ![c] = again]
      BY <2>1, <3>2, WriterGo
    <3> QED BY <2>2, <3>1, <3>2
  <2>4. arg'[c].migrated => arg[c].migrated
    BY <2>1, <2>3
  <2> QED BY <1>3, <2>3, <2>4, WriterMoves
<1> QED BY <1>4, <1>5

\* A rechain's steps: a row that it changes is tampered with.
LEMMA TableRelink ==
  ASSUME TypeOK, TableRight, NEW c \in Writers, arg[c].at > 0, Relink(c)
  PROVE  TableRight'
<1> DEFINE i      == arg[c].at
           digest == Digest2(arg[c].prev, i, arg[c].seen[i].content)
           stale  == digest # arg[c].seen[i].hash
           migrated == arg[c].migrated \/ stale
           new    == [arg[c] EXCEPT !.at = i + 1, !.prev = digest, !.migrated = migrated]
<1>1. arg[c] \in Args /\ rows # <<>> /\ rows' \in Seq(Rows) /\ rows \in Seq(Rows)
  BY RelinkTyped DEF TypeOK, TableRight, TableInv
<1>2. /\ pc' = pc /\ pc[c] = "relink" /\ arg' = [arg EXCEPT ![c] = new]
      /\ intact' = (intact /\ ~stale) /\ UNCHANGED <<anchor, vouched, checked>>
      /\ ~stale => rows' = rows
  BY DEF Relink, keeping
<1>3. new.migrated = migrated
  BY <1>1, MigratedFields
<1>4. DOMAIN rows' = DOMAIN rows
  BY RelinkTyped DEF SameGrants
<1>5. rows' # <<>>
  BY <1>1, <1>4
<1> HIDE DEF i, digest, stale, new
<1>6. TableInv' /\ Grows
  <2>1. CASE stale
    BY <1>2, <1>5, <2>1, TableTampered DEF TableRight
  <2>2. CASE ~stale
    BY <1>2, <2>2, TableKept DEF TableRight
  <2> QED BY <2>1, <2>2
<1>7. Others(c) /\ arg'[c] = new
  BY <1>2 DEF Others, TypeOK
<1>8. intact' /\ arg'[c].migrated => arg[c].migrated
  BY <1>2, <1>3, <1>7
<1> QED BY <1>2, <1>6, <1>7, <1>8, WriterMoves

LEMMA TableMark ==
  ASSUME TypeOK, TableRight, NEW c \in Writers, Mark(c)
  PROVE  TableRight'
<1>1. /\ arg[c] \in Args /\ arg[c].prev \in Seq(Hashed)
      /\ UNCHANGED <<anchor, vouched, checked, intact>>
  BY DEF TypeOK, Args, Mark, keeping
<1>2. intact => ~arg[c].migrated
  BY DEF TableRight, HeadSeen
<1>3. TableInv' /\ Grows
  <2>1. CASE arg[c].migrated /\ Store(Plain, arg[c].prev)
    <3>1. ~intact /\ ~intact' /\ rows' # <<>>
      BY <1>1, <1>2, <2>1, PlainTyped, StoreEffect
    <3> QED BY <1>1, <3>1, TableTampered DEF TableRight
  <2>2. CASE UNCHANGED rows
    BY <1>1, <2>2, TableKept DEF TableRight
  <2> QED BY <2>1, <2>2 DEF Mark
<1>4. pc'[c] = "unlock" /\ arg'[c] = NoArg /\ Others(c)
  BY WriterGo DEF Mark
<1>5. ~arg'[c].migrated
  BY <1>1, <1>4, MigratedFields
<1> QED BY <1>3, <1>4, <1>5, WriterMoves

\* Edits, the anchor and death.
LEMMA TableRest ==
  ASSUME TypeOK, TableRight,
         \/ CheckChain \/ WriteAnchor
         \/ (\E i \in DOMAIN rows : Edit(i))
         \/ (\E s \in Sessions : Die(s))
  PROVE  TableRight'
<1>1. ASSUME TableInv', Grows, UNCHANGED <<pc, arg>> PROVE TableRight'
  <2>1. \A d \in Writers : HeadSeen(d)'
    BY <1>1, HeadStays DEF TableRight
  <2> QED BY <1>1, <2>1 DEF TableRight
<1>2. CASE CheckChain
  <2>1. WalksIn(rows) /\ checked' = rows /\ UNCHANGED <<rows, anchor, vouched, intact, pc, arg>>
    BY <1>2, WalksIsWalksIn DEF CheckChain
  <2>2. TableInv' /\ Grows
    BY <2>1 DEF TableRight, TableInv, StartsWith, Grows
  <2> QED BY <1>1, <2>1, <2>2
<1>3. CASE WriteAnchor
  <2>1. /\ checked # <<>> /\ anchor' = checked[Len(checked)].hash /\ vouched' = checked
        /\ checked' = <<>> /\ UNCHANGED <<rows, intact, pc, arg>>
    BY <1>3 DEF WriteAnchor
  <2>2. TableInv'
    <3>1. StartsWith(checked)' \/ ~intact
      BY <2>1 DEF StartsWith
    <3>2. intact => WalksIn(rows) /\ StartsWith(checked)
      BY DEF TableRight, TableInv
    <3>3. WalksIn(checked) /\ rows # <<>>
      BY <2>1 DEF TableRight, TableInv
    <3> QED BY <2>1, <3>1, <3>2, <3>3 DEF TableInv, StartsWith
  <2>3. Grows
    BY <2>1 DEF Grows
  <2> QED BY <1>1, <2>1, <2>2, <2>3
<1>4. ASSUME NEW i \in DOMAIN rows, Edit(i) PROVE TableRight'
  <2>1. rows' \in Seq(Rows) /\ DOMAIN rows' = DOMAIN rows
    BY <1>4, EditTyped DEF SameGrants
  <2>2. rows' # <<>>
    BY <2>1
  <2>3. ~intact' /\ UNCHANGED <<anchor, vouched, checked, pc, arg>>
    BY <1>4 DEF Edit
  <2>4. TableInv' /\ Grows
    BY <2>2, <2>3, TableTampered DEF TableRight
  <2> QED BY <1>1, <2>3, <2>4
<1>5. ASSUME NEW s \in Sessions, Die(s) PROVE TableRight'
  <2>1. UNCHANGED <<rows, anchor, vouched, checked, intact>>
    BY <1>5 DEF Die, keeping
  <2>2. TableInv' /\ Grows
    BY <2>1, TableKept DEF TableRight
  <2>3. ASSUME NEW d \in Writers PROVE HeadSeen(d)'
    <3>1. \/ pc'[d] = pc[d] /\ arg'[d] = arg[d]
          \/ pc'[d] = "idle" /\ arg'[d] = NoArg
      BY <1>5 DEF Die
    <3>2. arg'[d].migrated => arg[d].migrated
      BY <3>1 DEF NoArg
    <3> QED BY <2>2, <3>1, <3>2, HeadStays DEF TableRight
  <2> QED BY <2>2, <2>3 DEF TableRight
<1> QED BY <1>2, <1>3, <1>4, <1>5

LEMMA LegacyWalks ==
  ASSUME Init
  PROVE  WalksIn(rows)
<1>1. \A n \in Nat : LegacyHash(n) \in Seq(Hashed) /\ Len(LegacyHash(n)) = n
  BY LegacyTyped DEF LegacyHash
<1>2. SUFFICES ASSUME NEW i \in 1..Legacy
               PROVE  LinkedIn(rows, i) /\ DigestOf(rows[i], i)
  BY DEF Init, WalksIn
<1>3. rows[i].prev = LegacyHash(i - 1) /\ rows[i].hash = LegacyHash(i) /\ rows[i].content = Plain
  BY <1>2 DEF Init
<1>4. i \in Nat /\ i > 0 /\ i - 1 \in Nat
  BY <1>2, BoundsAssumption
<1>5. LinkedIn(rows, i)
  <2>1. CASE i = 1
    <3>1. LegacyHash(0) = <<>>
      BY <1>1
    <3> QED BY <1>3, <2>1, <3>1 DEF LinkedIn, NoHash
  <2>2. CASE i # 1
    <3>1. i - 1 \in 1..Legacy
      BY <1>2, <1>4, <2>2, BoundsAssumption
    <3>2. rows[i - 1].hash = LegacyHash(i - 1)
      BY <3>1 DEF Init
    <3> QED BY <1>3, <2>2, <3>2 DEF LinkedIn
  <2> QED BY <2>1, <2>2
<1>6. LegacyHash(i) = Append(LegacyHash(i - 1), [id |-> 0, content |-> Plain])
  <2> DEFINE x == [id |-> 0, content |-> Plain]
             s == Append(LegacyHash(i - 1), x)
  <2>1. x \in Hashed
    BY PlainTyped DEF Hashed
  <2>2. \A n \in Nat : \A j \in 1..n : LegacyHash(n)[j] = x
    BY DEF LegacyHash
  <2> HIDE DEF x
  <2>3. s \in Seq(Hashed) /\ Len(s) = i
    BY <1>1, <1>4, <2>1
  <2>4. \A j \in 1..i : s[j] = x
    BY <1>1, <1>4, <2>1, <2>2
  <2>5. \A j \in 1..i : LegacyHash(i)[j] = s[j]
    BY <1>4, <2>2, <2>4
  <2> HIDE DEF s
  <2>6. LegacyHash(i) = s
    BY <1>1, <1>4, <2>3, <2>5, SeqEqual
  <2> QED BY <2>6 DEF s, x
<1> QED BY <1>3, <1>5, <1>6 DEF DigestOf, Digest1

LEMMA TableInit ==
  ASSUME Init, Legacy > 0
  PROVE  TableRight
<1>1. rows # <<>>
  <2>1. 1 \in DOMAIN rows
    BY BoundsAssumption DEF Init
  <2>2. DOMAIN <<>> = {}
    OBVIOUS
  <2> QED BY <2>1, <2>2
<1>2. WalksIn(rows)
  BY LegacyWalks
<1>3. TableInv
  BY <1>1, <1>2 DEF Init, TableInv, StartsWith
<1>4. \A d \in Writers : HeadSeen(d)
  BY DEF Init, HeadSeen, NoArg
<1> QED BY <1>3, <1>4 DEF TableRight

LEMMA TableStep == Inductive /\ TableRight /\ [Next]_vars => TableRight'
<1> SUFFICES ASSUME Inductive, TableRight, [Next]_vars PROVE TableRight'
  OBVIOUS
<1>1. TypeOK
  BY DEF Inductive
<1>2. CASE UNCHANGED vars
  <2>1. TableInv' /\ Grows
    BY <1>2, TableKept DEF TableRight, vars
  <2>2. \A d \in Writers : HeadSeen(d)'
    BY <1>2, <2>1, HeadStays DEF TableRight, vars
  <2> QED BY <2>1, <2>2 DEF TableRight
<1>3. ASSUME NEW c \in Callers, Call(c) PROVE TableRight'
  <2>1. c \in Writers
    BY DEF Writers
  <2>2. Relink(c) => arg[c].at > 0
    BY DEF Relink, Inductive, RelinkHasBegun
  <2> QED BY <1>1, <1>3, <2>1, <2>2, TableEarly, TableRead, TableStore, TableRelink, TableMark
          DEF Call
<1>4. ASSUME NEW f \in Foreign, ForeignBegin(f) \/ ReadHead(f) \/ ForeignInsert(f)
      PROVE  TableRight'
  <2>1. f \in Writers
    BY DEF Writers
  <2> QED BY <1>1, <1>4, <2>1, TableEarly, TableRead, TableStore
<1>5. CASE \/ CheckChain \/ WriteAnchor
           \/ \E i \in DOMAIN rows : Edit(i)
           \/ \E s \in Sessions : Die(s)
  BY <1>1, <1>5, TableRest
<1> QED BY <1>2, <1>3, <1>4, <1>5 DEF Next

\* What the anchor says of a table that verifies and has its head.
LEMMA AnchorPins ==
  ASSUME TypeOK, TableInv, anchor # NoAnchor, Extends(anchor)
  PROVE  SubSeq(rows, 1, Len(vouched)) = vouched
<1> DEFINE n == Len(vouched)
<1>1. /\ rows \in Seq(Rows) /\ vouched \in Seq(Rows) /\ n \in Nat /\ n > 0 /\ n \in DOMAIN vouched
      /\ anchor = vouched[n].hash /\ WalksIn(vouched)
  BY DEF TypeOK, TableInv
<1>2. WalksIn(rows) /\ \E i \in DOMAIN rows : rows[i].hash = anchor
  BY WalksIsWalksIn DEF Extends
<1>3. PICK i \in DOMAIN rows : vouched[n].hash = rows[i].hash
  BY <1>1, <1>2
<1> HIDE DEF n
<1>4. \A k \in 1..n : k \in DOMAIN rows /\ rows[k] = vouched[k]
  BY <1>1, <1>2, <1>3, HashPins
<1>5. n <= Len(rows)
  BY <1>1, <1>4
<1>6. /\ SubSeq(rows, 1, n) \in Seq(Rows) /\ Len(SubSeq(rows, 1, n)) = n
      /\ \A k \in 1..n : SubSeq(rows, 1, n)[k] = rows[k]
  BY <1>1, <1>5
<1>7. SubSeq(rows, 1, n) = vouched
  BY <1>1, <1>4, <1>6, SeqEqual DEF n
<1> QED BY <1>7 DEF n

LEMMA IntactVerifies ==
  ASSUME TypeOK, TableInv, intact
  PROVE  Walks /\ (anchor # NoAnchor => Extends(anchor))
<1>1. Walks
  BY WalksIsWalksIn DEF TableInv
<1>2. ASSUME anchor # NoAnchor PROVE \E i \in DOMAIN rows : rows[i].hash = anchor
  <2>1. Len(vouched) \in DOMAIN vouched /\ anchor = vouched[Len(vouched)].hash /\ StartsWith(vouched)
    BY <1>2 DEF TypeOK, TableInv
  <2> QED BY <2>1 DEF StartsWith
<1> QED BY <1>1, <1>2 DEF Extends

\* What verify() says is right.  A chain that verifies and has the anchored head in
\* it starts with the very rows the anchor was taken of; and a chain no row of which
\* was edited or relinked verifies and has the anchored head in it, whoever wrote
\* with or without the lock, and whoever died.  An empty table is not covered: its
\* first rows have no prev_hash, so the index does not keep them apart.
THEOREM VerifySaysRight == ASSUME Legacy > 0 PROVE Spec => []VerifyIsRight
<1>1. Init => Inductive /\ TableRight
  BY InductiveInit, TableInit
<1>2. Inductive /\ TableRight /\ [Next]_vars => (Inductive /\ TableRight)'
  BY InductiveStep, TableStep
<1>3. Inductive /\ TableRight => VerifyIsRight
  BY AnchorPins, IntactVerifies DEF Inductive, TableRight, VerifyIsRight
<1> QED BY <1>1, <1>2, <1>3, PTL DEF Spec

-----------------------------------------------------------------------------
(* The ledger is the log of CitationLog. *)

Verdicts == {"granted", "refused", "EDQUOT"}

\* What a call is about to store: no citation, or the verdict on an envelope; the
\* verdict EDQUOT is passed when the quota is used up, and what is used up stays so.
IsCitation(content) == \/ content = Plain
                       \/ \E e \in Envelopes, v \in Verdicts : content = Cites(e, v)
Said(c) == /\ IsCitation(arg[c].content)
           /\ arg[c].content.outcome = "EDQUOT" =>
                Granted(arg[c].content.envelope) >= MaxCount[arg[c].content.envelope]
           /\ pc[c] = "count" => arg[c].content.outcome = "granted"
SaidRight == \A c \in Callers : Said(c)

LEMMA CitationFacts ==
  ASSUME NEW content, IsCitation(content)
  PROVE  /\ content.outcome \in Verdicts => content.envelope \in Envelopes
         /\ content.outcome \notin Verdicts => content = Plain
BY DEF IsCitation, Cites, Plain, Verdicts

\* What a step does to the table, as the log sees it.
LEMMA RowSteps ==
  ASSUME Inductive, [Next]_vars
  PROVE  \/ SameGrants /\ UNCHANGED acts
         \/ \E c \in Callers : Store(arg[c].content, arg[c].prev) /\ Insert(c) /\ UNCHANGED acts
         \/ \E prev \in Seq(Hashed) : Store(Plain, prev) /\ UNCHANGED acts
         \/ \E c \in Callers : Act(c) /\ UNCHANGED rows
<1>1. TypeOK /\ (UNCHANGED rows => SameGrants)
  BY DEF Inductive, SameGrants
<1>2. CASE UNCHANGED vars
  BY <1>1, <1>2 DEF vars
<1>3. ASSUME NEW c \in Callers, Call(c),
             ~Insert(c), ~Act(c), ~Relink(c), ~Mark(c)
      PROVE  UNCHANGED <<rows, acts>>
  BY <1>3 DEF Call, Begin, BeginRechain, Cite, Lock, Count, ReadHead, Unlock, Scan, keeping
<1>4. ASSUME NEW c \in Callers, Insert(c) PROVE UNCHANGED acts /\ (Store(arg[c].content, arg[c].prev) \/ UNCHANGED rows)
  BY <1>4 DEF Insert, keeping
<1>5. ASSUME NEW c \in Callers, Relink(c) PROVE SameGrants /\ UNCHANGED acts
  <2>1. arg[c].at > 0 /\ c \in Writers /\ UNCHANGED acts
    BY <1>5 DEF Relink, keeping, Inductive, RelinkHasBegun, Writers
  <2> QED BY <1>1, <1>5, <2>1, RelinkTyped
<1>6. ASSUME NEW c \in Callers, Mark(c)
      PROVE  UNCHANGED acts /\ (UNCHANGED rows \/ \E prev \in Seq(Hashed) : Store(Plain, prev))
  <2>1. arg[c].prev \in Seq(Hashed)
    BY <1>1 DEF TypeOK, Args, Writers
  <2> QED BY <1>6, <2>1 DEF Mark, keeping
<1>7. ASSUME NEW f \in Foreign, ForeignBegin(f) \/ ReadHead(f) \/ ForeignInsert(f)
      PROVE  UNCHANGED acts /\ (UNCHANGED rows \/ \E prev \in Seq(Hashed) : Store(Plain, prev))
  <2>1. arg[f].prev \in Seq(Hashed)
    BY <1>1 DEF TypeOK, Args, Writers
  <2> QED BY <1>7, <2>1 DEF ForeignBegin, ReadHead, ForeignInsert, keeping
<1>8. ASSUME NEW i \in DOMAIN rows, Edit(i) PROVE SameGrants /\ UNCHANGED acts
  <2>1. UNCHANGED acts
    BY <1>8 DEF Edit
  <2> QED BY <1>1, <1>8, <2>1, EditTyped
<1>9. CASE CheckChain \/ WriteAnchor \/ \E s \in Sessions : Die(s)
  BY <1>1, <1>9 DEF CheckChain, WriteAnchor, Die, keeping
<1>10. ASSUME NEW c \in Callers, Act(c) PROVE UNCHANGED rows
  BY <1>10 DEF Act
<1>11. CASE \E c \in Callers : Call(c)
  <2>1. PICK c \in Callers : Call(c)
    BY <1>11
  <2>2. CASE Insert(c)
    BY <1>1, <1>4, <2>2
  <2>3. CASE Act(c)
    BY <1>10, <2>3
  <2>4. CASE Relink(c)
    BY <1>5, <2>4
  <2>5. CASE Mark(c)
    BY <1>1, <1>6, <2>5
  <2>6. CASE ~Insert(c) /\ ~Act(c) /\ ~Relink(c) /\ ~Mark(c)
    BY <1>1, <1>3, <2>1, <2>6
  <2> QED BY <2>2, <2>3, <2>4, <2>5, <2>6
<1>12. CASE \E f \in Foreign : ForeignBegin(f) \/ ReadHead(f) \/ ForeignInsert(f)
  BY <1>1, <1>7, <1>12
<1> QED BY <1>2, <1>8, <1>9, <1>11, <1>12 DEF Next

LEMMA GrantedGrows ==
  ASSUME Inductive, [Next]_vars, NEW e
  PROVE  Granted(e)' \in Nat /\ Granted(e) \in Nat /\ Granted(e)' >= Granted(e)
<1>1. TypeOK /\ Granted(e) \in Nat
  BY GrantsFinite DEF Inductive
<1>2. CASE SameGrants \/ UNCHANGED rows
  BY <1>1, <1>2, SameGranted DEF SameGrants
<1>3. ASSUME NEW content \in Contents, NEW prev \in Seq(Hashed), Store(content, prev)
      PROVE  Granted(e)' \in Nat /\ Granted(e)' >= Granted(e)
  BY <1>1, <1>3, StoreGranted
<1>4. \A c \in Callers : arg[c].content \in Contents /\ arg[c].prev \in Seq(Hashed)
  BY <1>1 DEF TypeOK, Args, Writers
<1> QED BY <1>1, <1>2, <1>3, <1>4, PlainTyped, RowSteps

\* What one call is about to store, after a step.
LEMMA SaidKept ==
  ASSUME Inductive, [Next]_vars, NEW d \in Callers, Said(d),
         arg'[d].content = arg[d].content,
         pc'[d] = "count" => pc[d] = "count" \/ arg[d].content.outcome = "granted"
  PROVE  Said(d)'
<1>1. IsCitation(arg[d].content) /\ IsCitation(arg[d].content)'
  BY DEF Said, IsCitation
<1>2. ASSUME arg[d].content.outcome = "EDQUOT"
      PROVE  Granted(arg[d].content.envelope)' >= MaxCount[arg'[d].content.envelope]
  <2>1. arg[d].content.envelope \in Envelopes
    BY <1>1, <1>2, CitationFacts DEF Verdicts
  <2>2. PICK e \in Envelopes : e = arg[d].content.envelope
    BY <2>1
  <2>3. Granted(arg[d].content.envelope) = Granted(e) /\ Granted(arg[d].content.envelope)' = Granted(e)'
    BY <2>2 DEF Granted
  <2>4. Granted(e) >= MaxCount[e] /\ MaxCount[e] \in Nat
    BY <1>2, <2>2, <2>3, EnvelopesAssumption DEF Said
  <2>5. Granted(e)' \in Nat /\ Granted(e) \in Nat /\ Granted(e)' >= Granted(e)
    BY GrantedGrows
  <2>6. Granted(e)' >= MaxCount[e]
    BY <2>4, <2>5
  <2> QED BY <2>2, <2>3, <2>6
<1> QED BY <1>1, <1>2 DEF Said

LEMMA SaidNothing ==
  ASSUME NEW d \in Callers, arg'[d].content = Plain, pc'[d] # "count"
  PROVE  Said(d)'
BY DEF Said, IsCitation, Plain

LEMMA SaidVerdict ==
  ASSUME Inductive, [Next]_vars, NEW d \in Callers, NEW e \in Envelopes, NEW v \in Verdicts,
         arg'[d].content = Cites(e, v), pc'[d] # "count",
         v = "EDQUOT" => Granted(e) >= MaxCount[e]
  PROVE  Said(d)'
<1>1. IsCitation(arg[d].content)'
  BY DEF IsCitation
<1>2. Cites(e, v).envelope = e /\ Cites(e, v).outcome = v
  BY DEF Cites
<1>3. Granted(e)' >= Granted(e) /\ Granted(e)' \in Nat /\ Granted(e) \in Nat /\ MaxCount[e] \in Nat
  BY GrantedGrows, EnvelopesAssumption
<1>4. Granted(arg[d].content.envelope)' = Granted(e)'
  BY <1>2 DEF Granted
<1>5. v = "EDQUOT" => Granted(e)' >= MaxCount[e]
  BY <1>3
<1> QED BY <1>1, <1>2, <1>4, <1>5 DEF Said

LEMMA SaidCall ==
  ASSUME Inductive, SaidRight, [Next]_vars, NEW c \in Callers, Call(c)
  PROVE  Said(c)' /\ Others(c)
<1>1. TypeOK /\ c \in Writers /\ arg[c] \in Args /\ Said(c)
  BY DEF Inductive, TypeOK, Writers, SaidRight
<1>2. ASSUME NEW step, step # "count", Go(c, step), NEW a,
             arg' = [arg EXCEPT ![c] = a] \/ (arg' = arg /\ a = arg[c]),
             a.content \in {arg[c].content, Plain}
      PROVE  Said(c)' /\ Others(c)
  <2>1. pc'[c] = step /\ arg'[c] = a /\ Others(c)
    BY <1>1, <1>2, WriterGo
  <2> QED BY <1>1, <1>2, <2>1, SaidKept, SaidNothing
<1>3. ASSUME Return(c) PROVE Said(c)' /\ Others(c)
  <2>1. pc'[c] = "idle" /\ arg'[c] = NoArg /\ Others(c)
    BY <1>1, <1>3, WriterReturn
  <2> QED BY <2>1, NoArgTyped, SaidNothing
<1>4. CASE Begin(c)
  BY <1>2, <1>4 DEF Begin
<1>5. CASE BeginRechain(c)
  <2>1. PICK b \in BOOLEAN : arg' = [arg EXCEPT ![c] = [arg[c] EXCEPT !.at = 0, !.force = b]]
    BY <1>5 DEF BeginRechain
  <2> DEFINE new == [arg[c] EXCEPT !.at = 0, !.force = b]
  <2>2. new.content = arg[c].content
    BY <1>1, ArgFields
  <2>3. Go(c, "lock") /\ arg' = [arg EXCEPT ![c] = new]
    BY <1>5, <2>1 DEF BeginRechain
  <2> HIDE DEF new
  <2> QED BY <1>2, <2>2, <2>3
<1>6. ASSUME NEW e \in Envelopes, Cite(c, e) PROVE Said(c)' /\ Others(c)
  <2>1. PICK v \in {"refused", IF Granted(e) >= MaxCount[e] THEN "EDQUOT" ELSE "granted"} :
          arg' = [arg EXCEPT ![c] = [arg[c] EXCEPT !.content = Cites(e, v)]]
    BY <1>6 DEF Cite
  <2> DEFINE new == [arg[c] EXCEPT !.content = Cites(e, v)]
  <2>2. new.content = Cites(e, v)
    BY <1>1, ArgFields
  <2>a. Go(c, "lock") /\ arg' = [arg EXCEPT ![c] = new]
    BY <1>6, <2>1 DEF Cite
  <2> HIDE DEF new
  <2>3. pc'[c] = "lock" /\ arg'[c] = new /\ Others(c)
    BY <1>1, <2>a, WriterGo
  <2>4. v \in Verdicts /\ (v = "EDQUOT" => Granted(e) >= MaxCount[e])
    BY <2>1 DEF Verdicts
  <2> QED BY <2>2, <2>3, <2>4, SaidVerdict
<1>7. CASE Lock(c)
  <2> DEFINE step == IF arg[c].at = 0 THEN "scan"
                     ELSE IF arg[c].content.outcome = "granted" THEN "count" ELSE "head"
  <2>1. Go(c, step) /\ arg' = arg /\ (step = "count" => arg[c].content.outcome = "granted")
    BY <1>7 DEF Lock
  <2> HIDE DEF step
  <2>2. pc'[c] = step /\ arg'[c] = arg[c] /\ Others(c)
    BY <1>1, <2>1, WriterGo
  <2> QED BY <1>1, <2>1, <2>2, SaidKept
<1>8. CASE Count(c)
  <2> DEFINE env == arg[c].content.envelope
  <2>1. Go(c, "head") /\ pc[c] = "count"
    BY <1>8 DEF Count
  <2>2. CASE Exhausted(env)
    <3>1. PICK e \in Envelopes : e = arg[c].content.envelope
      BY <1>1, <2>1 DEF Said, Inductive, GrantsAreOfEnvelopes
    <3>2. Granted(e) >= MaxCount[e]
      BY <2>2, <3>1 DEF Exhausted, Granted
    <3> DEFINE new == [arg[c] EXCEPT !.content = Cites(e, "EDQUOT")]
    <3>3. new.content = Cites(e, "EDQUOT") /\ arg' = [arg EXCEPT ![c] = new]
      BY <1>1, <1>8, <2>2, <3>1, ArgFields DEF Count
    <3> HIDE DEF new
    <3>4. pc'[c] = "head" /\ arg'[c] = new /\ Others(c)
      BY <1>1, <2>1, <3>3, WriterGo
    <3> QED BY <3>2, <3>3, <3>4, SaidVerdict DEF Verdicts
  <2>3. CASE ~Exhausted(env)
    BY <1>2, <1>8, <2>1, <2>3 DEF Count
  <2> QED BY <2>2, <2>3
<1>9. CASE ReadHead(c)
  <2> DEFINE new == [arg[c] EXCEPT !.prev = Tip]
  <2>1. new.content = arg[c].content /\ Go(c, "insert") /\ arg' = [arg EXCEPT ![c] = new]
    BY <1>1, <1>9, ArgFields DEF ReadHead
  <2> HIDE DEF new
  <2> QED BY <1>2, <2>1
<1>10. CASE Insert(c)
  <2> DEFINE new   == [NoArg EXCEPT !.content = arg[c].content, !.stored = TRUE]
             again == [arg[c] EXCEPT !.tries = arg[c].tries + 1]
             step  == IF arg[c].tries + 1 = MaxTries THEN "unlock" ELSE "head"
  <2>1. new.content = arg[c].content /\ again.content = arg[c].content /\ step # "count"
    BY <1>1, NoArgTyped, ArgFields
  <2>2. \/ Go(c, "unlock") /\ arg' = [arg EXCEPT ![c] = new]
        \/ Go(c, step) /\ arg' = [arg EXCEPT ![c] = again]
    BY <1>10 DEF Insert
  <2> HIDE DEF new, again, step
  <2>3. CASE Go(c, "unlock") /\ arg' = [arg EXCEPT ![c] = new]
    BY <1>2, <2>1, <2>3
  <2>4. CASE Go(c, step) /\ arg' = [arg EXCEPT ![c] = again]
    BY <1>2, <2>1, <2>4
  <2> QED BY <2>2, <2>3, <2>4
<1>11. CASE Unlock(c)
  <2>1. Return(c) \/ (Go(c, "act") /\ arg' = arg)
    BY <1>11 DEF Unlock
  <2> QED BY <1>2, <1>3, <2>1
<1>12. CASE Act(c)
  BY <1>3, <1>12 DEF Act
<1>13. CASE Scan(c)
  <2> DEFINE new == [arg[c] EXCEPT !.seen = rows, !.at = 1, !.prev = NoHash]
  <2>1. new.content = arg[c].content /\ NoArg.content = Plain
    BY <1>1, NoArgTyped, ArgFields
  <2>2. \/ Go(c, "unlock") /\ arg' = [arg EXCEPT ![c] = NoArg]
        \/ Go(c, "relink") /\ arg' = [arg EXCEPT ![c] = new]
    BY <1>13 DEF Scan
  <2> HIDE DEF new
  <2> QED BY <1>2, <2>1, <2>2
<1>14. CASE Relink(c)
  <2>1. arg[c].at > 0 /\ pc' = pc /\ pc[c] = "relink"
    BY <1>14 DEF Relink, Inductive, RelinkHasBegun
  <2>2. arg'[c].content = arg[c].content /\ \A d \in Writers \ {c} : arg'[d] = arg[d]
    BY <1>1, <1>14, <2>1, RelinkTyped
  <2> QED BY <1>1, <2>1, <2>2, SaidKept DEF Others
<1>15. CASE Mark(c)
  <2>1. Go(c, "unlock") /\ arg' = [arg EXCEPT ![c] = NoArg]
    BY <1>15 DEF Mark
  <2> QED BY <1>2, <2>1, NoArgTyped
<1> QED BY <1>4, <1>5, <1>6, <1>7, <1>8, <1>9, <1>10, <1>11, <1>12, <1>13, <1>14, <1>15 DEF Call

LEMMA SaidStep == Inductive /\ SaidRight /\ [Next]_vars => SaidRight'
<1> SUFFICES ASSUME Inductive, SaidRight, [Next]_vars PROVE SaidRight'
  OBVIOUS
<1>1. ASSUME NEW d \in Callers, pc'[d] = pc[d], arg'[d] = arg[d] PROVE Said(d)'
  BY <1>1, SaidKept DEF SaidRight
<1>2. CASE UNCHANGED vars
  BY <1>1, <1>2 DEF vars, SaidRight
<1>3. ASSUME NEW c \in Callers, Call(c) PROVE SaidRight'
  <2>1. Said(c)' /\ Others(c)
    BY <1>3, SaidCall
  <2>2. \A d \in Callers \ {c} : Said(d)'
    BY <1>1, <2>1 DEF Others, Writers
  <2> QED BY <2>1, <2>2 DEF SaidRight
<1>4. ASSUME NEW f \in Foreign, ForeignBegin(f) \/ ReadHead(f) \/ ForeignInsert(f)
      PROVE  SaidRight'
  <2>1. \A d \in Callers : d # f
    BY SessionsAssumption
  <2>2. \A d \in Callers : pc'[d] = pc[d] /\ arg'[d] = arg[d]
    BY <1>4, <2>1 DEF ForeignBegin, ReadHead, ForeignInsert, Go, Return, Inductive, TypeOK, Writers
  <2> QED BY <1>1, <2>2 DEF SaidRight
<1>5. CASE CheckChain \/ WriteAnchor \/ \E i \in DOMAIN rows : Edit(i)
  BY <1>1, <1>5 DEF CheckChain, WriteAnchor, Edit, SaidRight
<1>6. ASSUME NEW s \in Sessions, Die(s) PROVE SaidRight'
  <2>1. ASSUME NEW d \in Callers PROVE Said(d)'
    <3>1. \/ pc'[d] = pc[d] /\ arg'[d] = arg[d]
          \/ pc'[d] = "idle" /\ arg'[d] = NoArg
      BY <1>6 DEF Die, Writers
    <3> QED BY <1>1, <3>1, NoArgTyped, SaidNothing
  <2> QED BY <2>1 DEF SaidRight
<1> QED BY <1>2, <1>3, <1>4, <1>5, <1>6 DEF Next

\* The log's own count is the ledger's.
LEMMA LogGranted ==
  ASSUME TypeOK, NEW e
  PROVE  Log!Granted(e) = Granted(e)
<1>1. \A i \in DOMAIN rows :
        Entries[i] = [envelope |-> e, outcome |-> "granted"]
          <=> rows[i].content.envelope = e /\ rows[i].content.outcome = "granted"
  BY DEF Entries
<1>2. DOMAIN Entries = DOMAIN rows
  BY DEF Entries
<1>3. {i \in DOMAIN Entries : Entries[i] = [envelope |-> e, outcome |-> "granted"]}
      = {i \in DOMAIN rows : rows[i].content.envelope = e /\ rows[i].content.outcome = "granted"}
  BY <1>1, <1>2
<1>4. \A S : Log!Cardinality(S) = Cardinality(S)
  BY DEF Cardinality, Log!Cardinality
<1> QED BY <1>3, <1>4 DEF Granted, Log!Granted

LEMMA StoreAdds ==
  ASSUME TypeOK, NEW content \in Contents, NEW prev \in Seq(Hashed), Store(content, prev)
  PROVE  Log!Add(content.envelope, content.outcome)
<1> DEFINE n == Len(rows)
           entry == [envelope |-> content.envelope, outcome |-> content.outcome]
           All == {[envelope |-> r.content.envelope, outcome |-> r.content.outcome] : r \in Rows}
                  \cup {entry}
<1>1. /\ DOMAIN rows = 1..n /\ n \in Nat /\ DOMAIN rows' = 1..(n + 1)
      /\ rows'[n + 1].content = content
      /\ \A i \in 1..n : rows'[i] = rows[i] /\ rows[i] \in Rows
  BY StoreEffect DEF TypeOK
<1>2. /\ Entries = [i \in 1..n |-> [envelope |-> rows[i].content.envelope,
                                    outcome |-> rows[i].content.outcome]]
      /\ Entries' = [i \in 1..(n + 1) |-> [envelope |-> rows'[i].content.envelope,
                                           outcome |-> rows'[i].content.outcome]]
  BY <1>1 DEF Entries
<1> HIDE DEF n
<1>3. \A i \in 1..n : Entries'[i] = Entries[i] /\ Entries[i] \in All
  BY <1>1, <1>2
<1>4. Entries'[n + 1] = entry /\ entry \in All
  BY <1>1, <1>2
<1> HIDE DEF entry, All
<1>5. Entries \in Seq(All) /\ Len(Entries) = n
  <2>1. Entries \in [1..n -> All]
    BY <1>2, <1>3
  <2> QED BY <1>1, <2>1
<1>6. Entries' \in Seq(All) /\ Len(Entries') = n + 1
  <2>1. \A i \in 1..(n + 1) : Entries'[i] \in All
    BY <1>1, <1>3, <1>4
  <2>2. Entries' \in [1..(n + 1) -> All]
    BY <1>2, <2>1
  <2> QED BY <1>1, <2>2
<1>7. Append(Entries, entry) \in Seq(All) /\ Len(Append(Entries, entry)) = n + 1
  BY <1>4, <1>5
<1>8. \A i \in 1..(n + 1) : Append(Entries, entry)[i] = Entries'[i]
  BY <1>1, <1>3, <1>4, <1>5
<1>9. Entries' = Append(Entries, entry)
  BY <1>6, <1>7, <1>8, SeqEqual
<1> QED BY <1>9 DEF Log!Add, entry

LEMMA LogStep ==
  ASSUME OneCallEach, Inductive, SaidRight, [Next]_vars
  PROVE  [Log!Next]_<<Entries, acts>>
<1>1. TypeOK
  BY DEF Inductive
<1>2. \A e \in Envelopes : /\ Granted(e) \in Nat /\ MaxCount[e] \in Nat /\ acts[e] \in Nat
                           /\ Granted(e) <= MaxCount[e]
                           /\ Log!Granted(e) = Granted(e)
  BY <1>1, LogGranted, GrantsFinite, EnvelopesAssumption
     DEF Inductive, Metered, WithinQuota, TypeOK
<1>3. CASE SameGrants /\ UNCHANGED acts
  <2>1. Entries' = Entries
    BY <1>3 DEF Entries, SameGrants
  <2> QED BY <1>3, <2>1
<1>4. ASSUME NEW prev \in Seq(Hashed), Store(Plain, prev), UNCHANGED acts
      PROVE  Log!Next
  <2>1. Log!Add(Plain.envelope, Plain.outcome)
    BY <1>1, <1>4, PlainTyped, StoreAdds
  <2>2. Log!Note
    BY <1>4, <2>1 DEF Log!Note, Plain
  <2> QED BY <2>2 DEF Log!Next
<1>5. ASSUME NEW c \in Callers, Insert(c), Store(arg[c].content, arg[c].prev), UNCHANGED acts
      PROVE  Log!Next
  <2>1. arg[c].content \in Contents /\ arg[c].prev \in Seq(Hashed) /\ pc[c] = "insert"
    BY <1>1, <1>5 DEF TypeOK, Args, Writers, Insert
  <2>2. Log!Add(arg[c].content.envelope, arg[c].content.outcome)
    BY <1>1, <1>5, <2>1, StoreAdds
  <2>3. Said(c)
    BY DEF SaidRight
  <2>4. CASE arg[c].content = Plain
    BY <1>4, <1>5, <2>1, <2>4
  <2>5. ASSUME NEW e \in Envelopes, NEW v \in Verdicts, arg[c].content = Cites(e, v)
        PROVE  Log!Next
    <3>1. arg[c].content.envelope = e /\ arg[c].content.outcome = v
      BY <2>5 DEF Cites
    <3>2. Log!Add(e, v)
      BY <2>2, <3>1
    <3>3. CASE v = "granted"
      <4>1. Granted(e) < MaxCount[e]
        BY <2>1, <3>1, <3>3 DEF Inductive, Metered, CountStands
      <4>2. Log!Grant(e)
        BY <1>2, <1>5, <3>2, <3>3, <4>1 DEF Log!Grant
      <4> QED BY <4>2 DEF Log!Next
    <3>4. CASE v = "refused"
      <4>1. Log!Refuse(e)
        BY <1>5, <3>2, <3>4 DEF Log!Refuse
      <4> QED BY <4>1 DEF Log!Next
    <3>5. CASE v = "EDQUOT"
      <4>1. Granted(e) >= MaxCount[e]
        BY <2>3, <3>1, <3>5 DEF Said, Granted
      <4>2. Log!Granted(e) = MaxCount[e]
        BY <1>2, <4>1
      <4>3. Log!Refuse(e)
        BY <1>5, <3>2, <3>5, <4>2 DEF Log!Refuse
      <4> QED BY <4>3 DEF Log!Next
    <3> QED BY <3>3, <3>4, <3>5 DEF Verdicts
  <2> QED BY <2>3, <2>4, <2>5 DEF Said, IsCitation
<1>6. ASSUME NEW c \in Callers, Act(c), UNCHANGED rows
      PROVE  Log!Next
  <2>1. /\ pc[c] = "act" /\ acts' = [acts EXCEPT ![arg[c].content.envelope] = @ + 1]
        /\ arg[c].stored /\ arg[c].content.outcome = "granted"
        /\ arg[c].content.envelope \in Envelopes
    BY <1>6 DEF Act, Inductive, ActsAreGranted, GrantsAreOfEnvelopes
  <2>2. PICK e \in Envelopes : e = arg[c].content.envelope
    BY <2>1
  <2>3. acts[e] < Granted(e)
    <3>1. c \in Pending(e)
      BY <2>1, <2>2 DEF Pending
    <3>2. IsFiniteSet(Pending(e)) /\ acts[e] + Cardinality(Pending(e)) <= Granted(e)
      BY DEF Inductive, GrantsCover
    <3>3. Cardinality(Pending(e)) \in Nat /\ Cardinality(Pending(e)) # 0
      BY <3>1, <3>2, FS_CardinalityType, FS_EmptySet
    <3> QED BY <1>2, <3>2, <3>3
  <2>4. Entries' = Entries
    BY <1>6 DEF Entries
  <2>5. Log!Act(e)
    BY <1>2, <2>1, <2>2, <2>3, <2>4 DEF Log!Act
  <2> QED BY <2>5 DEF Log!Next
<1> QED BY <1>3, <1>4, <1>5, <1>6, RowSteps

LEMMA LogInit ==
  ASSUME Init
  PROVE  Log!Init /\ SaidRight
<1>1. \A i \in DOMAIN rows : rows[i].content = Plain
  BY DEF Init
<1>2. \A i \in DOMAIN Entries : Entries[i].outcome # "granted"
  BY <1>1, PlainTyped DEF Entries
<1>3. Log!Init
  BY <1>2 DEF Init, Log!Init
<1>4. \A c \in Callers : pc[c] = "idle" /\ arg[c].content = Plain
  BY DEF Init, Writers, NoArg
<1>5. SaidRight
  BY <1>4 DEF SaidRight, Said, IsCitation, Plain
<1> QED BY <1>3, <1>5

\* The ledger implements the citation log: entries are only appended, a citation is
\* granted only while the quota lasts and refused for quota only when it is used up,
\* and each act spends a granted citation of its own; whatever is relinked, edited
\* or written without the lock, and whoever dies.
THEOREM LedgerImplementsLog == ASSUME OneCallEach PROVE Spec => Implements
<1>1. Init => Inductive /\ SaidRight /\ Log!Init
  BY InductiveInit, LogInit
<1>2. Inductive /\ SaidRight /\ [Next]_vars => (Inductive /\ SaidRight)'
  BY InductiveStep, SaidStep
<1>3. Inductive /\ SaidRight /\ [Next]_vars => [Log!Next]_<<Entries, acts>>
  BY LogStep
<1> QED BY <1>1, <1>2, <1>3, PTL DEF Spec, Implements, Log!Spec

\* The check that rechain does not make.  A relinking that is not forced and finds a
\* table that verifies relinks the anchored rows as they were: what
\* EditsStayVisible asks for fails only where the walk is not verified first.
THEOREM VerifiedRelinkIsAnchored ==
  ASSUME Legacy > 0
  PROVE  Spec => [][\A c \in Callers :
                      Scan(c) /\ pc'[c] = "relink" /\ ~arg[c].force /\ anchor # NoAnchor /\ Walks
                        => SubSeq(rows, 1, Len(vouched)) = vouched]_vars
<1> DEFINE Anchored == \A c \in Callers :
             Scan(c) /\ pc'[c] = "relink" /\ ~arg[c].force /\ anchor # NoAnchor /\ Walks
               => SubSeq(rows, 1, Len(vouched)) = vouched
<1>1. Init => Inductive /\ TableRight
  BY InductiveInit, TableInit
<1>2. Inductive /\ TableRight /\ [Next]_vars => (Inductive /\ TableRight)'
  BY InductiveStep, TableStep
<1>3. Inductive /\ TableRight => Anchored
  <2> SUFFICES ASSUME Inductive, TableRight, NEW c \in Callers,
                      Scan(c), pc'[c] = "relink", ~arg[c].force, anchor # NoAnchor, Walks
               PROVE  SubSeq(rows, 1, Len(vouched)) = vouched
    OBVIOUS
  <2>1. TypeOK /\ TableInv /\ rows # <<>>
    BY DEF Inductive, TableRight, TableInv
  <2>2. ~Refused(c)
    <3>1. Go(c, "unlock") => pc'[c] = "unlock"
      BY <2>1, GoFacts
    <3> QED BY <3>1 DEF Scan
  <2>3. anchor = Tip
    BY <2>2 DEF Refused
  <2>4. Len(rows) \in DOMAIN rows /\ rows[Len(rows)].hash = anchor
    BY <2>1, <2>3 DEF TypeOK, Tip
  <2>5. Extends(anchor)
    BY <2>4 DEF Extends
  <2> QED BY <2>1, <2>5, AnchorPins
<1> QED BY <1>1, <1>2, <1>3, PTL DEF Spec
=============================================================================
