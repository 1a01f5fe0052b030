-------------------------- MODULE GovernanceLedger --------------------------
(***************************************************************************)
(* The FRANK chain (governance_ledger.py, envelopes.py,                    *)
(* frank_head_anchor.py): the table frank_ledger of a shared database, the *)
(* calls that append to it, count envelope citations in it and relink it,  *)
(* and the head anchor the operator keeps outside.                         *)
(*                                                                         *)
(* The connection is in autocommit, so a step is one statement.  Callers   *)
(* serialise with pg_advisory_lock, which belongs to the database session: *)
(* a process has one session (db.get_pg), whose tool calls run in threads. *)
(* Writers of other programs share the table and take no lock; the UNIQUE  *)
(* index on prev_hash (frank-ledger-prevent-fork.sql) stands against them. *)
(*                                                                         *)
(* A hash is the sequence of what was hashed into it, so it is injective.  *)
(* The table is kept in the order of created_at.                           *)
(***************************************************************************)
EXTENDS Naturals, Sequences, FiniteSets

CONSTANTS
  Callers,     \* threads that run tool calls
  Sessions,    \* database sessions, one per process
  SessionOf,   \* the session of each caller
  Relinkers,   \* those of them that may run rechain
  Foreign,     \* writers that take no lock
  Envelopes,
  MaxCount,    \* max_count of each
  Legacy,      \* how many rows of the first, v1, format there are at the start
  NoSession, NoEnvelope, NoAnchor,
  MaxRows,     \* bound: no append begins in a table of that length
  MaxEdits     \* bound: edits of a row behind the code's back

ASSUME SessionsAssumption ==
  /\ SessionOf \in [Callers -> Sessions]
  /\ NoSession \notin Sessions
  /\ Relinkers \subseteq Callers
  /\ Callers \cap Foreign = {}
ASSUME EnvelopesAssumption ==
  /\ NoEnvelope \notin Envelopes
  /\ MaxCount \in [Envelopes -> Nat]
ASSUME BoundsAssumption ==
  /\ Legacy \in Nat /\ MaxRows \in Nat /\ MaxEdits \in Nat

Writers == Callers \cup Foreign
Outcomes == {"none", "granted", "refused", "EDQUOT"}
\* What a row says: the citation in it, if any, and its text, which can be edited.
Contents == [envelope : Envelopes \cup {NoEnvelope}, outcome : Outcomes, text : Nat]
Plain == [envelope |-> NoEnvelope, outcome |-> "none", text |-> 0]

NoHash == <<>>
Hashed == [id : Nat, content : Contents]
\* entry_hash leaves the id of the row out, entry_hash_v2 covers it.
Digest1(prev, content)    == Append(prev, [id |-> 0, content |-> content])
Digest2(prev, i, content) == Append(prev, [id |-> i, content |-> content])

Rows == [content : Contents, prev : Seq(Hashed), hash : Seq(Hashed)]

VARIABLES
  rows,     \* the table; the id of a row is its place in it
  holder,   \* the session that holds the advisory lock
  depth,    \* how often it took it
  pc,       \* of each writer, the statement it is at
  arg,      \* what its call carries
  acts,     \* acts under each envelope
  anchor,   \* frank_head_anchor.json
  \* history variables of the model
  vouched,  \* the table the anchor was taken of
  checked,  \* the table frank-anchor has verified, until it writes the anchor
  intact,   \* no row was ever edited or relinked
  edits

vars == <<rows, holder, depth, pc, arg, acts, anchor, vouched, checked, intact, edits>>
keeping == <<acts, anchor, vouched, checked, edits>>

MaxTries == 5

Args == [content : Contents, prev : Seq(Hashed), tries : 0..MaxTries, stored : BOOLEAN,
         force : BOOLEAN, seen : Seq(Rows), at : Nat, migrated : BOOLEAN]
NoArg == [content |-> Plain, prev |-> NoHash, tries |-> 0, stored |-> FALSE,
          force |-> FALSE, seen |-> <<>>, at |-> 1, migrated |-> FALSE]

TypeOK ==
  /\ rows \in Seq(Rows)
  /\ holder \in Sessions \cup {NoSession}
  /\ depth \in Nat
  /\ pc \in [Writers -> {"idle", "lock", "count", "head", "insert", "scan", "relink",
                         "mark", "unlock", "act"}]
  /\ arg \in [Writers -> Args]
  /\ acts \in [Envelopes -> Nat]
  /\ anchor \in Seq(Hashed) \cup {NoAnchor}
  /\ vouched \in Seq(Rows)
  /\ checked \in Seq(Rows)
  /\ intact \in BOOLEAN
  /\ edits \in Nat

\* Between the lock and the unlock.
Inside == {"count", "head", "insert", "scan", "relink", "unlock"}

LegacyHash(n) == [j \in 1..n |-> [id |-> 0, content |-> Plain]]

Init ==
  /\ rows = [i \in 1..Legacy |-> [content |-> Plain, prev |-> LegacyHash(i - 1),
                                  hash |-> LegacyHash(i)]]
  /\ holder = NoSession
  /\ depth = 0
  /\ pc = [c \in Writers |-> "idle"]
  /\ arg = [c \in Writers |-> NoArg]
  /\ acts = [e \in Envelopes |-> 0]
  /\ anchor = NoAnchor
  /\ vouched = <<>>
  /\ checked = <<>>
  /\ intact = TRUE
  /\ edits = 0

-----------------------------------------------------------------------------
(* The table.                                                              *)

Tip == IF rows = <<>> THEN NoHash ELSE rows[Len(rows)].hash

\* Mutated: the outcome is lost and reads as EAMBIG.
CitesUnknown(e, outcome) == [envelope |-> e, outcome |-> "EAMBIG", text |-> 0]
Cites(e, outcome) == [envelope |-> e, outcome |-> outcome, text |-> 0]
\* citation_count: the granted citations of e.
Granted(e) == Cardinality({i \in DOMAIN rows :
                rows[i].content.envelope = e /\ rows[i].content.outcome = "granted"})

\* Mutated: the index was never created.
ConflictNever(prev) == FALSE
\* The index frank_ledger_no_fork; a NULL prev_hash is not in it.
Conflict(prev) == prev # NoHash /\ \E i \in DOMAIN rows : rows[i].prev = prev

Store(content, prev) ==
  rows' = Append(rows, [content |-> content, prev |-> prev,
                        hash |-> Digest2(prev, Len(rows) + 1, content)])

\* verify(): the walk from the first row.
Linked(i) == rows[i].prev = IF i = 1 THEN NoHash ELSE rows[i - 1].hash
Digested(i) == rows[i].hash \in {Digest1(rows[i].prev, rows[i].content),
                                 Digest2(rows[i].prev, i, rows[i].content)}
Walks == \A i \in DOMAIN rows : Linked(i) /\ Digested(i)
\* anchor_in_chain: the anchored head is that of an earlier row.
Extends(expected) == Walks /\ \E i \in DOMAIN rows : rows[i].hash = expected

-----------------------------------------------------------------------------
(* Calls.                                                                  *)

Go(c, step) == pc' = [pc EXCEPT ![c] = step]
Return(c)   == pc' = [pc EXCEPT ![c] = "idle"] /\ arg' = [arg EXCEPT ![c] = NoArg]

\* The bound on the table: rows that calls under way may still add count too.
Room == Len(rows) + Cardinality({c \in Writers : pc[c] # "idle"}) < MaxRows

\* append (frank_append and the executors' receipts); a row that frank_append
\* is told to call a citation is left out.
Begin(c) == /\ pc[c] = "idle"
            /\ Room
            /\ Go(c, "lock")
            /\ UNCHANGED arg
            /\ UNCHANGED keeping /\ UNCHANGED <<rows, holder, depth, intact>>

\* authorize_and_cite: check() reads the register (which may refuse for many
\* reasons) and the count, without the lock; the outcome is cited in any case.
Cite(c, e) ==
  /\ pc[c] = "idle"
  /\ Room
  /\ Go(c, "lock")
  /\ \E outcome \in {"refused", IF Granted(e) >= MaxCount[e] THEN "EDQUOT" ELSE "granted"} :
       arg' = [arg EXCEPT ![c] = [@ EXCEPT !.content = Cites(e, outcome)]]
  /\ UNCHANGED keeping /\ UNCHANGED <<rows, holder, depth, intact>>

\* rechain, run by the operator on a session of its own.
BeginRechain(c) ==
  /\ c \in Relinkers
  /\ pc[c] = "idle"
  /\ Go(c, "lock")
  /\ \E force \in BOOLEAN : arg' = [arg EXCEPT ![c] = [@ EXCEPT !.at = 0, !.force = force]]
  /\ UNCHANGED keeping /\ UNCHANGED <<rows, holder, depth, intact>>

\* Mutated: pg_try_advisory_lock, its answer unread.
FreeAlways(c) == TRUE
\* The session lock is re-entrant.
Free(c) == holder \in {NoSession, SessionOf[c]}

\* A rechain is at row 0 until it has read the table.
Lock(c) ==
  /\ pc[c] = "lock"
  /\ Free(c)
  /\ holder' = SessionOf[c]
  /\ depth' = depth + 1
  /\ Go(c, IF arg[c].at = 0 THEN "scan"
           ELSE IF arg[c].content.outcome = "granted" THEN "count" ELSE "head")
  /\ UNCHANGED keeping /\ UNCHANGED <<rows, arg, intact>>

Unlock(c) ==
  /\ pc[c] = "unlock"
  /\ depth' = depth - 1
  /\ holder' = IF depth = 1 THEN NoSession ELSE holder
  /\ IF arg[c].stored /\ arg[c].content.outcome = "granted"
     THEN Go(c, "act") /\ UNCHANGED arg
     ELSE Return(c)
  /\ UNCHANGED keeping /\ UNCHANGED <<rows, intact>>

\* Mutated: one citation too many.
ExhaustedLate(e) == Granted(e) > MaxCount[e]
Exhausted(e) == Granted(e) >= MaxCount[e]

\* append_citation meters again under the lock.
Count(c) ==
  /\ pc[c] = "count"
  /\ Go(c, "head")
  /\ arg' = IF Exhausted(arg[c].content.envelope)
            THEN [arg EXCEPT ![c] = [@ EXCEPT !.content = Cites(arg[c].content.envelope, "EDQUOT")]]
            ELSE arg
  /\ UNCHANGED keeping /\ UNCHANGED <<rows, holder, depth, intact>>

\* _chain_insert: the head is read, then a row that follows it is inserted.
ReadHead(c) ==
  /\ pc[c] = "head"
  /\ Go(c, "insert")
  /\ arg' = [arg EXCEPT ![c] = [@ EXCEPT !.prev = Tip]]
  /\ UNCHANGED keeping /\ UNCHANGED <<rows, holder, depth, intact>>

\* After an IntegrityError the head is read again, five times at most; then the
\* call fails.
Insert(c) ==
  /\ pc[c] = "insert" /\ c \in Callers
  /\ \/ /\ ~Conflict(arg[c].prev)
        /\ Store(arg[c].content, arg[c].prev)
        /\ Go(c, "unlock")
        /\ arg' = [arg EXCEPT ![c] = [NoArg EXCEPT !.content = arg[c].content, !.stored = TRUE]]
     \/ /\ Conflict(arg[c].prev)
        /\ Go(c, IF arg[c].tries + 1 = MaxTries THEN "unlock" ELSE "head")
        /\ arg' = [arg EXCEPT ![c] = [@ EXCEPT !.tries = arg[c].tries + 1]]
        /\ UNCHANGED rows
  /\ UNCHANGED keeping /\ UNCHANGED <<holder, depth, intact>>

\* What an executor does once its citation is granted.
Act(c) ==
  /\ pc[c] = "act"
  /\ acts' = [acts EXCEPT ![arg[c].content.envelope] = @ + 1]
  /\ Return(c)
  /\ UNCHANGED <<rows, holder, depth, anchor, vouched, checked, intact, edits>>

\* Another program (willow-2.0): no lock, the same columns.
ForeignBegin(f) == /\ pc[f] = "idle"
                   /\ Room
                   /\ Go(f, "head")
                   /\ UNCHANGED keeping
                   /\ UNCHANGED <<rows, holder, depth, arg, intact>>
ForeignInsert(f) ==
  /\ pc[f] = "insert" /\ f \in Foreign
  /\ IF Conflict(arg[f].prev) THEN UNCHANGED rows ELSE Store(Plain, arg[f].prev)
  /\ Return(f)
  /\ UNCHANGED keeping /\ UNCHANGED <<holder, depth, intact>>

-----------------------------------------------------------------------------
(* rechain.                                                                *)

\* The anchor says another head; force overrides it.
Refused(c) == ~arg[c].force /\ anchor # NoAnchor /\ anchor # Tip

\* The whole table is read; an anchor file that is there but cannot be trusted
\* refuses as well.
Scan(c) ==
  /\ pc[c] = "scan"
  /\ \/ /\ Refused(c) \/ (~arg[c].force /\ anchor # NoAnchor)
        /\ Go(c, "unlock")
        /\ arg' = [arg EXCEPT ![c] = NoArg]
     \/ /\ ~Refused(c)
        /\ Go(c, "relink")
        /\ arg' = [arg EXCEPT ![c] = [@ EXCEPT !.seen = rows, !.at = 1, !.prev = NoHash]]
  /\ UNCHANGED keeping /\ UNCHANGED <<rows, holder, depth, intact>>

\* One row of the walk; prev_hash and hash are updated where the digest differs.
Relink(c) == LET i      == arg[c].at
                 digest == Digest2(arg[c].prev, i, arg[c].seen[i].content)
                 stale  == digest # arg[c].seen[i].hash IN
  /\ pc[c] = "relink"
  /\ i <= Len(arg[c].seen)
  /\ rows' = IF stale THEN [rows EXCEPT ![i] = [@ EXCEPT !.prev = arg[c].prev, !.hash = digest]]
             ELSE rows
  /\ intact' = (intact /\ ~stale)
  /\ arg' = [arg EXCEPT ![c] = [@ EXCEPT !.at = i + 1, !.prev = digest,
                                         !.migrated = arg[c].migrated \/ stale]]
  /\ UNCHANGED keeping /\ UNCHANGED <<holder, depth, pc>>

\* The governance.rechain row, on the walk's own head; none if nothing migrated,
\* or if a writer without the lock has followed that head before (the INSERT
\* raises and is not retried).
Mark(c) ==
  /\ pc[c] = "relink"
  /\ arg[c].at > Len(arg[c].seen)
  /\ IF arg[c].migrated /\ ~Conflict(arg[c].prev) THEN Store(Plain, arg[c].prev)
     ELSE UNCHANGED rows
  /\ Go(c, "unlock")
  /\ arg' = [arg EXCEPT ![c] = NoArg]
  /\ UNCHANGED keeping /\ UNCHANGED <<holder, depth, intact>>

-----------------------------------------------------------------------------
(* The operator, the database and death.                                   *)

\* frank-anchor write: verify() must call the chain valid; then its head is
\* written to the file.
CheckChain ==
  /\ checked = <<>>
  /\ Walks
  /\ checked' = rows
  /\ UNCHANGED <<rows, holder, depth, pc, arg, acts, anchor, vouched, intact, edits>>

WriteAnchor ==
  /\ checked # <<>>
  /\ anchor' = checked[Len(checked)].hash
  /\ vouched' = checked
  /\ checked' = <<>>
  /\ UNCHANGED <<rows, holder, depth, pc, arg, acts, intact, edits>>

\* Somebody edits a row in the database.
Edit(i) ==
  /\ edits < MaxEdits
  /\ edits' = edits + 1
  /\ rows' = [rows EXCEPT ![i].content.text = edits + 1]
  /\ intact' = FALSE
  /\ UNCHANGED <<holder, depth, pc, arg, acts, anchor, vouched, checked>>

\* A process dies or loses its connection: its calls end, its session lock goes.
Die(s) ==
  /\ \E c \in Callers : SessionOf[c] = s /\ pc[c] # "idle"
  /\ pc' = [c \in Writers |-> IF c \in Callers /\ SessionOf[c] = s THEN "idle" ELSE pc[c]]
  /\ arg' = [c \in Writers |-> IF c \in Callers /\ SessionOf[c] = s THEN NoArg ELSE arg[c]]
  /\ holder' = IF holder = s THEN NoSession ELSE holder
  /\ depth' = IF holder = s THEN 0 ELSE depth
  /\ UNCHANGED keeping /\ UNCHANGED <<rows, intact>>

-----------------------------------------------------------------------------
Call(c) == \/ Begin(c) \/ BeginRechain(c) \/ \E e \in Envelopes : Cite(c, e)
           \/ Lock(c) \/ Count(c) \/ ReadHead(c) \/ Insert(c) \/ Unlock(c) \/ Act(c)
           \/ Scan(c) \/ Relink(c) \/ Mark(c)

Next == \/ \E c \in Callers : Call(c)
        \/ \E f \in Foreign : ForeignBegin(f) \/ ReadHead(f) \/ ForeignInsert(f)
        \/ CheckChain \/ WriteAnchor
        \/ \E i \in DOMAIN rows : Edit(i)
        \/ \E s \in Sessions : Die(s)

Spec == Init /\ [][Next]_vars

-----------------------------------------------------------------------------
(* Properties.                                                             *)

\* Whoever is between lock and unlock has the lock, and has it as often as it has
\* calls there: no death, refusal or failed INSERT keeps it or gives it away.
InsideCalls == {c \in Callers : pc[c] \in Inside}
LockOK ==
  /\ \A c \in InsideCalls : holder = SessionOf[c]
  /\ depth = Cardinality(InsideCalls)
  /\ holder = NoSession <=> depth = 0

\* An envelope is cited as granted at most max_count times, and every act under
\* it spends one of those citations (append_citation: "Atomically meter and
\* append a citation under the shared chain lock").
QuotaRespected == \A e \in Envelopes : acts[e] <= Granted(e) /\ Granted(e) <= MaxCount[e]

\* A process has one call under way (db.get_pg hands every thread the same session).
OneCallEach == \A c, d \in Callers : SessionOf[c] = SessionOf[d] => c = d

\* A grant is of an envelope; it is stored before it is acted on.
GrantsAreOfEnvelopes ==
  \A c \in Callers : arg[c].content.outcome = "granted" => arg[c].content.envelope \in Envelopes
StoredIsDone == \A c \in Callers : arg[c].stored => pc[c] \in {"unlock", "act"}
ActsAreGranted == \A c \in Callers : pc[c] = "act" => arg[c].stored /\ arg[c].content.outcome = "granted"
RelinkHasBegun == \A c \in Callers : pc[c] = "relink" => arg[c].at > 0
TriesAreLeft ==
  \A c \in Callers : pc[c] # "unlock" \/ arg[c].stored => arg[c].tries < MaxTries
\* What was counted under the lock is still so at the INSERT.
CountStands ==
  \A c \in Callers, e \in Envelopes :
    /\ pc[c] \in {"head", "insert"}
    /\ arg[c].content.envelope = e /\ arg[c].content.outcome = "granted"
    => Granted(e) < MaxCount[e]
\* The calls with a grant of e that is stored and not acted on yet.
Pending(e) == {c \in Callers : arg[c].stored /\ arg[c].content.outcome = "granted"
                                             /\ arg[c].content.envelope = e}
GrantsCover == \A e \in Envelopes : /\ IsFiniteSet(Pending(e))
                                   /\ acts[e] + Cardinality(Pending(e)) <= Granted(e)
WithinQuota == \A e \in Envelopes : Granted(e) <= MaxCount[e]

\* What the count under the lock is worth: with two calls on one session the lock
\* excludes nobody (GovernanceThreads).
Metered == OneCallEach => CountStands /\ WithinQuota

\* The inductive invariant: what holds of any calls, and, of processes with one
\* call each, why the lock and the count under it are enough for the quota.
Inductive == /\ TypeOK
             /\ LockOK /\ IsFiniteSet(InsideCalls)
             /\ GrantsAreOfEnvelopes
             /\ StoredIsDone
             /\ ActsAreGranted
             /\ RelinkHasBegun
             /\ TriesAreLeft
             /\ GrantsCover
             /\ Metered

\* What verify() says is right.  If it finds the anchored head, the rows it was
\* taken of are still there as they were; and if no row was edited or relinked,
\* it finds the chain unbroken and the anchored head in it, whoever appended
\* and whoever died (_chain_insert: "the chain stays single-headed no matter
\* which writer wins").
VerifyIsRight ==
  /\ anchor # NoAnchor /\ Extends(anchor) => SubSeq(rows, 1, Len(vouched)) = vouched
  /\ intact => Walks /\ (anchor # NoAnchor => Extends(anchor))

\* A rechain without force does not relink rows that are not what they were when
\* they were anchored ("It must not silently re-hash the tampered row and move
\* on", tests/test_governance_head_anchor.py:112).
EditsStayVisible ==
  [][\A c \in Callers :
       Scan(c) /\ pc'[c] = "relink" /\ ~arg[c].force /\ anchor # NoAnchor
         => SubSeq(rows, 1, Len(vouched)) = vouched]_vars

\* The ledger is the log of CitationLog: entries are only appended, a citation is
\* granted or refused for quota as the count at that moment demands.
Entries == [i \in DOMAIN rows |-> [envelope |-> rows[i].content.envelope,
                                   outcome |-> rows[i].content.outcome]]
Log == INSTANCE CitationLog WITH log <- Entries
Implements == Log!Spec
=============================================================================
