----------------------------- MODULE TaskQueue -----------------------------
(***************************************************************************)
(* The task queue (task_queue.py, heartbeat.py, egress_authorization.py,   *)
(* worker.py): the tasks table in Postgres, the worker processes that      *)
(* drain it, and the reaper each of them runs.                             *)
(*                                                                         *)
(* Every statement of the queue is one UPDATE, atomic on its own (the      *)
(* connection is in autocommit), so a step is one statement; between two   *)
(* statements anything may happen, the death of the process included.  The *)
(* worker loop itself is the external package kartikeya: it claims up to   *)
(* its free slots, runs each row in a thread, reports it with mark_done,   *)
(* and calls the heartbeat and reap_stale on its ticks.                    *)
(*                                                                         *)
(* The owner of a claim is host:pid:nonce of the process, so a member of   *)
(* Workers is one process from its start to its death, and the threads of  *)
(* a process share it.  An attempt of a task is numbered by the attempts   *)
(* column at its claim.                                                    *)
(***************************************************************************)
EXTENDS Naturals, FiniteSets

CONSTANTS
  Workers,      \* worker processes
  HostOf,       \* the host of each
  Serves,       \* the tasks of its agent and lane
  Tasks,        \* rows
  MaxAttempts,  \* max_attempts of a row
  Slots,        \* threads of a worker
  Recyclable,   \* workers whose pid another process of the host may get later
  NoWorker,
  MaxDeaths     \* bound: worker deaths

ASSUME WorkersAssumption ==
  /\ NoWorker \notin Workers
  /\ Serves \in [Workers -> SUBSET Tasks]
  /\ Recyclable \subseteq Workers
ASSUME LimitsAssumption == MaxAttempts \in Nat \ {0} /\ Slots \in Nat /\ MaxDeaths \in Nat

Attempts == 1..MaxAttempts
Terminal == {"completed", "failed"}      \* exactly the rows with completed_at set
Verdicts == {"none", "ok", "transient", "denied", "refused"}

VARIABLES
  row,      \* the table
  run,      \* what the worker that claimed an attempt is doing with it
  life,     \* of each process
  pids,     \* the workers whose pid answers signal 0
  beat,     \* the workers whose heartbeat file is younger than stale_after
  doomed    \* the rows each reaper has found dead and not updated yet

vars == <<row, run, life, pids, beat, doomed>>

Rows == [status : {"absent", "pending", "running"} \cup Terminal,
         owner : Workers \cup {NoWorker},
         stale : BOOLEAN,            \* claimed_at is older than stale_after_seconds
         attempts : 0..MaxAttempts,
         net : BOOLEAN,              \* it asks for the network, with a signed envelope
         due : BOOLEAN,              \* retry_at is NULL or past
         consumed : BOOLEAN,         \* the marker _net_authority_consumed in result
         outcome : 0..MaxAttempts]   \* the attempt whose report result holds, 0 for none

Runs == [step : {"none", "claimed", "checked", "executing", "finished", "reported", "lost"},
         by : Workers \cup {NoWorker},
         verdict : Verdicts,
         spent : BOOLEAN]            \* its envelope was accepted

TypeOK == /\ row \in [Tasks -> Rows]
          /\ run \in [Tasks -> [Attempts -> Runs]]
          /\ life \in [Workers -> {"new", "up", "down"}]
          /\ pids \subseteq Workers
          /\ beat \subseteq Workers
          /\ doomed \in [Workers -> SUBSET Tasks]

NoRow == [status |-> "absent", owner |-> NoWorker, stale |-> FALSE, attempts |-> 0,
          net |-> FALSE, due |-> TRUE, consumed |-> FALSE, outcome |-> 0]
NoRun == [step |-> "none", by |-> NoWorker, verdict |-> "none", spent |-> FALSE]

Init == /\ row = [t \in Tasks |-> NoRow]
        /\ run = [t \in Tasks |-> [a \in Attempts |-> NoRun]]
        /\ life = [w \in Workers |-> "new"]
        /\ pids = {}
        /\ beat = {}
        /\ doomed = [w \in Workers |-> {}]

-----------------------------------------------------------------------------
(* Rows *)

\* task_submit inserts the row; status defaults to pending, the columns of the
\* claim to NULL.
Submit(t) == /\ row[t].status = "absent"
             /\ \E net \in BOOLEAN :
                  row' = [row EXCEPT ![t].status = "pending", ![t].net = net]
             /\ UNCHANGED <<run, life, pids, beat, doomed>>

\* The conditions of claim_pending's SELECT.
Claimable(t) == /\ row[t].status = "pending"
                /\ row[t].due
                /\ row[t].attempts < MaxAttempts

UnderWay == {"claimed", "checked", "executing", "finished"}
InHand(w) == {ta \in Tasks \X Attempts :
                run[ta[1]][ta[2]].by = w /\ run[ta[1]][ta[2]].step \in UnderWay}

\* Mutated: an attempt counts at its claim and once more when it is handed out.
ClaimedRowTwice(t, w) == [row[t] EXCEPT !.status = "running", !.owner = w, !.stale = FALSE,
                                        !.attempts = @ + 2]

\* The row as the claim of w leaves it.
ClaimedRow(t, w) == [row[t] EXCEPT !.status = "running", !.owner = w, !.stale = FALSE,
                                   !.attempts = @ + 1]
ClaimedRun(w) == [step |-> "claimed", by |-> w, verdict |-> "none", spent |-> FALSE]

\* claim_pending: one UPDATE of up to LIMIT rows.  It takes the oldest first
\* but skips the rows another statement has locked, so any may be left out.
Claim(w, S) ==
  /\ life[w] = "up"
  /\ S # {}
  /\ \A t \in S : t \in Serves[w] /\ Claimable(t)
  /\ Cardinality(InHand(w)) + Cardinality(S) <= Slots
  /\ row' = [t \in Tasks |-> IF t \in S THEN ClaimedRow(t, w) ELSE row[t]]
  /\ run' = [t \in Tasks |->
               IF t \in S THEN [run[t] EXCEPT ![row[t].attempts + 1] = ClaimedRun(w)]
               ELSE run[t]]
  /\ UNCHANGED <<life, pids, beat, doomed>>

\* The backoff of a retried row runs out.
ComeDue(t) == /\ row[t].status = "pending"
              /\ ~row[t].due
              /\ row' = [row EXCEPT ![t].due = TRUE]
              /\ UNCHANGED <<run, life, pids, beat, doomed>>

\* A claim passes the age of stale_after_seconds (half an hour).  None does
\* between the probe and the UPDATE of one reaper: those are milliseconds apart.
GoStale(t) == /\ row[t].status = "running"
              /\ ~row[t].stale
              /\ \A w \in Workers : t \notin doomed[w]
              /\ row' = [row EXCEPT ![t].stale = TRUE]
              /\ UNCHANGED <<run, life, pids, beat, doomed>>

-----------------------------------------------------------------------------
(* The execution of an attempt *)

Moves(t, a, from, to, verdict) ==
  /\ run[t][a].step = from
  /\ run' = [run EXCEPT ![t][a] = [@ EXCEPT !.step = to, !.verdict = verdict]]
  /\ UNCHANGED <<life, pids, beat, doomed>>

\* The executor refuses the task text on its merits, before it runs.
Refuse(t, a) == Moves(t, a, "claimed", "finished", "refused") /\ UNCHANGED row

\* A task without network needs no authorizer.
Start(t, a) == /\ ~row[t].net
               /\ Moves(t, a, "claimed", "executing", "none")
               /\ UNCHANGED row

\* ExecutorNetworkAuthorizer: manifest, consent, lease, trust root or envelope
\* say no (any of them may change from one attempt to the next).
Deny(t, a) == /\ row[t].net
              /\ Moves(t, a, "claimed", "finished", "denied")
              /\ UNCHANGED row

\* _row_blocks_net_authorization, a SELECT of its own.
Blocked(t) == row[t].status \in Terminal \/ row[t].consumed

Check(t, a) == /\ row[t].net
               /\ IF Blocked(t) THEN Moves(t, a, "claimed", "finished", "denied")
                  ELSE Moves(t, a, "claimed", "checked", "none")
               /\ UNCHANGED row

\* The conditional UPDATE of _consume_row_net_authorization.  It asks for a
\* running row without the marker, not for the caller's own claim.
Consumable(t) == row[t].status = "running" /\ ~row[t].consumed

Consume(t, a) ==
  /\ run[t][a].step = "checked"
  /\ IF Consumable(t)
     THEN /\ row' = [row EXCEPT ![t].consumed = TRUE]
          /\ run' = [run EXCEPT ![t][a] = [@ EXCEPT !.step = "executing", !.spent = TRUE]]
          /\ UNCHANGED <<life, pids, beat, doomed>>
     ELSE Moves(t, a, "checked", "finished", "denied") /\ UNCHANGED row

Finish(t, a) == /\ \E v \in {"ok", "transient"} : Moves(t, a, "executing", "finished", v)
                /\ UNCHANGED row

\* The fence of mark_done's WHERE.
Fenced(t, w) == row[t].status = "running" /\ row[t].owner = w

\* _is_permanent_refusal: only a refusal on the text's merits is; a denied
\* envelope is retried like a failed command.
Retries(t, v) == v \in {"transient", "denied"} /\ row[t].attempts < MaxAttempts

\* Mutated: claim_owner is not cleared.
ReportedRowOwned(t, a) ==
  LET v == run[t][a].verdict IN
  [row[t] EXCEPT !.status = IF Retries(t, v) THEN "pending"
                            ELSE IF v = "ok" THEN "completed" ELSE "failed",
                 !.stale = FALSE, !.due = ~Retries(t, v), !.consumed = FALSE, !.outcome = a]

\* The row as mark_done leaves it; result is overwritten, the marker with it.
ReportedRow(t, a) ==
  LET v == run[t][a].verdict IN
  [row[t] EXCEPT !.status = IF Retries(t, v) THEN "pending"
                            ELSE IF v = "ok" THEN "completed" ELSE "failed",
                 !.owner = NoWorker, !.stale = FALSE, !.due = ~Retries(t, v),
                 !.consumed = FALSE, !.outcome = a]

MarkDone(t, a) ==
  /\ Moves(t, a, "finished", "reported", run[t][a].verdict)
  /\ row' = IF Fenced(t, run[t][a].by) THEN [row EXCEPT ![t] = ReportedRow(t, a)] ELSE row

-----------------------------------------------------------------------------
(* The reaper *)

\* Mutated: without the pid probe, a missing heartbeat is proof of death.
BeatsLately(r, w) == w \in beat /\ (HostOf[r] = HostOf[w] => life[w] = "up")

\* live_worker_keys and the pid probe of reap_stale, run on the host of r.  A
\* fresh file counts unless its pid is on this host and is not that worker's
\* (gone, or with another start time); a pid of this host counts by its number.
LooksAlive(r, w) == \/ w \in beat /\ (HostOf[r] = HostOf[w] => life[w] = "up")
                    \/ HostOf[r] = HostOf[w] /\ w \in pids

StaleClaim(t) == row[t].status = "running" /\ row[t].stale

DeadClaims(r) == {t \in Tasks : StaleClaim(t) /\ ~LooksAlive(r, row[t].owner)}

\* The SELECT of reap_stale and its probes; with nothing dead it is over.
ReapProbe(r) == /\ life[r] = "up"
                /\ doomed[r] = {}
                /\ DeadClaims(r) # {}
                /\ doomed' = [doomed EXCEPT ![r] = DeadClaims(r)]
                /\ UNCHANGED <<row, run, life, pids, beat>>

\* Mutated: the UPDATE takes whatever claim it finds on the row.
StillRunning(t) == row[t].status = "running"

\* The guard of the UPDATE, on the claim's age and not on its owner.
StillStale(t) == StaleClaim(t)

\* Mutated: result is reset for the next attempt.
ReapedRowBlank(t) == [row[t] EXCEPT !.status = IF row[t].attempts >= MaxAttempts
                                               THEN "failed" ELSE "pending",
                                    !.owner = NoWorker, !.stale = FALSE, !.due = TRUE,
                                    !.consumed = FALSE]

\* Mutated: a reaped row is pending again, however often it was tried.
ReapedRowPending(t) == [row[t] EXCEPT !.status = "pending", !.owner = NoWorker,
                                      !.stale = FALSE, !.due = TRUE]

\* result stays as it is, a marker in it included.
ReapedRow(t) == [row[t] EXCEPT !.status = IF row[t].attempts >= MaxAttempts
                                          THEN "failed" ELSE "pending",
                               !.owner = NoWorker, !.stale = FALSE, !.due = TRUE]

ReapWrite(r) ==
  /\ doomed[r] # {}
  /\ row' = [t \in Tasks |-> IF t \in doomed[r] /\ StillStale(t) THEN ReapedRow(t) ELSE row[t]]
  /\ doomed' = [doomed EXCEPT ![r] = {}]
  /\ UNCHANGED <<run, life, pids, beat>>

-----------------------------------------------------------------------------
(* Processes and their heartbeats *)

\* run_worker_daemon: reap() removes the heartbeat files of the dead of this
\* host, then the loop publishes its own.
Boot(w) == /\ life[w] = "new"
           /\ life' = [life EXCEPT ![w] = "up"]
           /\ pids' = pids \cup {w}
           /\ beat' = {x \in beat : HostOf[x] # HostOf[w] \/ life[x] = "up"} \cup {w}
           /\ UNCHANGED <<row, run, doomed>>

Tick(w) == /\ life[w] = "up"
           /\ w \notin beat
           /\ beat' = beat \cup {w}
           /\ UNCHANGED <<row, run, life, pids, doomed>>

\* The file grows old: its worker is dead, stalls, cannot write it (the error
\* is swallowed), or writes it where other hosts do not read.
Lapse(w) == /\ w \in beat
            /\ beat' = beat \ {w}
            /\ UNCHANGED <<row, run, life, pids, doomed>>

\* A worker is killed, with all its threads; its row and, unless it could still
\* close(), its heartbeat file stay behind.
Die(w) == /\ life[w] = "up"
          /\ Cardinality({x \in Workers : life[x] = "down"}) < MaxDeaths
          /\ life' = [life EXCEPT ![w] = "down"]
          /\ pids' = pids \ {w}
          /\ beat' \in {beat, beat \ {w}}
          /\ run' = [t \in Tasks |-> [a \in Attempts |->
                       IF run[t][a].by = w /\ run[t][a].step \in UnderWay
                       THEN [run[t][a] EXCEPT !.step = "lost"] ELSE run[t][a]]]
          /\ doomed' = [doomed EXCEPT ![w] = {}]
          /\ UNCHANGED row

\* Another process of the host gets the pid and keeps it (a daemon, a kernel thread).
Recycle(w) == /\ w \in Recyclable
              /\ life[w] = "down"
              /\ w \notin pids
              /\ pids' = pids \cup {w}
              /\ UNCHANGED <<row, run, life, beat, doomed>>

-----------------------------------------------------------------------------
Execute(t, a) == \/ Refuse(t, a) \/ Start(t, a) \/ Deny(t, a) \/ Check(t, a)
                 \/ Consume(t, a) \/ Finish(t, a) \/ MarkDone(t, a)
Reap(w)    == ReapProbe(w) \/ ReapWrite(w)
Process(w) == Boot(w) \/ Tick(w) \/ Lapse(w) \/ Die(w) \/ Recycle(w)

Next == \/ \E t \in Tasks : \/ Submit(t) \/ ComeDue(t) \/ GoStale(t)
                            \/ \E a \in Attempts : Execute(t, a)
        \/ \E w \in Workers : \/ \E S \in SUBSET Tasks : Claim(w, S)
                              \/ Reap(w) \/ Process(w)

Spec == Init /\ [][Next]_vars

\* A live worker keeps draining, its threads end, its reaper runs; time passes;
\* dead workers' heartbeat files grow old.
Fairness ==
  /\ \A t \in Tasks : /\ WF_vars(ComeDue(t)) /\ WF_vars(GoStale(t))
                      /\ \A a \in Attempts : WF_vars(Execute(t, a))
  /\ \A w \in Workers : /\ WF_vars(\E S \in SUBSET Tasks : Claim(w, S))
                        /\ WF_vars(ReapProbe(w)) /\ WF_vars(ReapWrite(w))
                        /\ WF_vars(Boot(w))
                        /\ WF_vars(life[w] = "down" /\ Lapse(w))

FairSpec == Spec /\ Fairness

-----------------------------------------------------------------------------
(* Properties *)

OneHost == \A v, w \in Workers : HostOf[v] = HostOf[w]

\* A worker that is executing an attempt is the holder of the row's claim and
\* that attempt is the row's last: no task is executed twice at a time, and no
\* report is refused.  reap_stale is "liveness-aware" for this; it holds where
\* all workers are on one host.
ExecutorHolds ==
  \A t \in Tasks, a \in Attempts :
    run[t][a].step \in UnderWay => /\ Fenced(t, run[t][a].by)
                                   /\ row[t].attempts = a

\* A completed row holds the result of its last attempt, which succeeded; a
\* late report never replaces it.  (mark_done's fence on status and owner.)
CompletedByLast ==
  \A t \in Tasks : row[t].status = "completed" =>
    /\ row[t].outcome = row[t].attempts
    /\ row[t].attempts > 0
    /\ run[t][row[t].outcome].verdict = "ok"

\* Between two uses of a row's envelope an attempt was reported: a worker that
\* dies with the network open leaves a row the next attempt is refused on.
\* (The marker of _consume_row_net_authorization, which a reclaim keeps.)
UsedOncePerReport ==
  \A t \in Tasks, a, b \in Attempts :
    a < b /\ run[t][a].spent /\ run[t][b].spent =>
      \E c \in a..(b - 1) : run[t][c].step = "reported"

\* A row has an owner exactly while it is running, and that worker was started.
OwnedWhileRunning ==
  \A t \in Tasks : /\ row[t].status = "running" <=> row[t].owner # NoWorker
                   /\ row[t].status = "running" => life[row[t].owner] # "new"
\* An attempt under way is that of a live worker.
ExecutorsLive ==
  \A t \in Tasks, a \in Attempts :
    run[t][a].step \in UnderWay => run[t][a].by \in Workers /\ life[run[t][a].by] = "up"
PidsAnswer == \A w \in Workers : life[w] = "up" => w \in pids
\* What a reaper holds is a dead worker's, if it still is that old claim.
DoomedAreDead ==
  \A r \in Workers, t \in Tasks :
    t \in doomed[r] /\ StaleClaim(t) => life[row[t].owner] = "down"
\* The attempts yet to come have not begun.
NotYetBegun == \A t \in Tasks, a \in Attempts : a > row[t].attempts => run[t][a] = NoRun
\* An envelope used leaves its marker until an attempt is reported.
MarkerStays ==
  \A t \in Tasks, a \in Attempts :
    run[t][a].spent /\ ~row[t].consumed =>
      \E c \in Attempts : c >= a /\ run[t][c].step = "reported"

\* The inductive invariant of the workers of one host: what makes the reaper's
\* probe and mark_done's fence enough.
Inductive == /\ TypeOK
             /\ OwnedWhileRunning
             /\ ExecutorsLive
             /\ PidsAnswer
             /\ DoomedAreDead
             /\ NotYetBegun
             /\ MarkerStays
             /\ ExecutorHolds
             /\ CompletedByLast
             /\ UsedOncePerReport

\* The table follows the life cycle of TaskLifecycle, on any number of hosts:
\* no try beyond max_attempts, no pending row that can no longer be claimed, no
\* change of a row that ended.
Lifecycle == INSTANCE TaskLifecycle WITH
               state <- [t \in Tasks |-> row[t].status],
               tries <- [t \in Tasks |-> row[t].attempts]
Implements == Lifecycle!Spec

\* Every submitted task ends, whatever worker dies; the one exception is a claim
\* of a dead worker whose pid another process has taken (reap_stale probes the
\* number and not the start time).
Stuck(t) == row[t].owner \in pids /\ life[row[t].owner] = "down"
TasksEnd ==
  \A t \in Tasks : row[t].status = "pending" ~> row[t].status \in Terminal \/ Stuck(t)

\* "a reclaimed row cannot replay the same envelope": once an attempt that used
\* the envelope was lost with its worker, no later attempt is let through.
ReclaimedNeverReplays ==
  \A t \in Tasks, a, b \in Attempts :
    a < b /\ run[t][a].step = "lost" /\ run[t][a].spent => ~run[t][b].spent
=============================================================================
