-------------------------- MODULE TaskQueueProofs --------------------------
(***************************************************************************)
(* TaskQueue, proved for any workers, tasks and limits: that the table     *)
(* follows TaskLifecycle on any number of hosts, and, for workers of one   *)
(* host, the inductive invariant.                                          *)
(***************************************************************************)
EXTENDS TaskQueue, TLAPS

LEMMA TypeInit == Init => TypeOK
  BY LimitsAssumption, WorkersAssumption
  DEF Init, TypeOK, Rows, Runs, NoRow, NoRun, Verdicts, Terminal, Attempts

\* Moving a run on keeps its type.
LEMMA MovesType ==
  ASSUME TypeOK, NEW t \in Tasks, NEW a \in Attempts,
         NEW to \in {"claimed", "checked", "executing", "finished", "reported", "lost"},
         NEW from, NEW v \in Verdicts, Moves(t, a, from, to, v)
  PROVE  /\ run' \in [Tasks -> [Attempts -> Runs]]
         /\ UNCHANGED <<life, pids, beat, doomed>>
<1> DEFINE new == [run[t][a] EXCEPT !.step = to, !.verdict = v]
<1>1. run[t][a] \in Runs /\ run[t] \in [Attempts -> Runs]
  BY DEF TypeOK
<1>2. new \in Runs
  BY <1>1 DEF Runs
<1>3. run' = [run EXCEPT ![t] = [run[t] EXCEPT ![a] = new]]
  BY DEF Moves
<1>4. [run[t] EXCEPT ![a] = new] \in [Attempts -> Runs]
  BY <1>1, <1>2
<1> HIDE DEF new
<1>5. run' \in [Tasks -> [Attempts -> Runs]]
  BY <1>3, <1>4 DEF TypeOK
<1> QED BY <1>5 DEF Moves

\* Replacing a row by a row keeps the table's type.
LEMMA RowType ==
  ASSUME TypeOK, NEW t \in Tasks, NEW new \in Rows, row' = [row EXCEPT ![t] = new]
  PROVE  row' \in [Tasks -> Rows]
  BY DEF TypeOK

\* The rows the statements write are rows.
LEMMA RowUpdates ==
  ASSUME NEW r \in Rows
  PROVE  /\ \A net \in BOOLEAN : [r EXCEPT !.status = "pending", !.net = net] \in Rows
         /\ [r EXCEPT !.due = TRUE] \in Rows
         /\ [r EXCEPT !.stale = TRUE] \in Rows
         /\ [r EXCEPT !.consumed = TRUE] \in Rows
         /\ \A w \in Workers : r.attempts < MaxAttempts =>
              [r EXCEPT !.status = "running", !.owner = w, !.stale = FALSE,
                        !.attempts = @ + 1] \in Rows
         /\ \A st \in Terminal \cup {"pending"} :
              [r EXCEPT !.status = st, !.owner = NoWorker, !.stale = FALSE, !.due = TRUE] \in Rows
<1> USE LimitsAssumption DEF Rows
<1>1. /\ [r EXCEPT !.status = "pending"] \in Rows
      /\ [r EXCEPT !.due = TRUE] \in Rows
      /\ [r EXCEPT !.stale = TRUE] \in Rows
      /\ [r EXCEPT !.consumed = TRUE] \in Rows
  OBVIOUS
<1>2. ASSUME NEW w \in Workers, r.attempts < MaxAttempts
      PROVE  [r EXCEPT !.status = "running", !.owner = w, !.stale = FALSE,
                       !.attempts = @ + 1] \in Rows
  <2>1. r.attempts + 1 \in 0..MaxAttempts
    BY <1>2
  <2> QED BY <2>1
<1>3. ASSUME NEW st \in Terminal \cup {"pending"}
      PROVE  [r EXCEPT !.status = st, !.owner = NoWorker, !.stale = FALSE, !.due = TRUE] \in Rows
  OBVIOUS
<1> QED BY <1>1, <1>2, <1>3

LEMMA NewRows ==
  ASSUME TypeOK, NEW t \in Tasks
  PROVE  /\ \A a \in Attempts : ReportedRow(t, a) \in Rows
         /\ ReapedRow(t) \in Rows
         /\ \A w \in Workers : Claimable(t) => ClaimedRow(t, w) \in Rows
<1>1. row[t] \in Rows
  BY DEF TypeOK
<1>2. ASSUME NEW a \in Attempts
      PROVE  ReportedRow(t, a) \in Rows
  <2> DEFINE v == run[t][a].verdict
             st == IF v = "ok" THEN "completed" ELSE "failed"
  <2>0. a \in 0..MaxAttempts
    BY LimitsAssumption DEF Attempts
  <2>1. CASE Retries(t, v)
    <3>1. ReportedRow(t, a) = [row[t] EXCEPT !.status = "pending", !.owner = NoWorker,
                                 !.stale = FALSE, !.due = FALSE, !.consumed = FALSE, !.outcome = a]
      BY <2>1 DEF ReportedRow
    <3> QED BY <1>1, <2>0, <3>1 DEF Rows
  <2>2. CASE ~Retries(t, v)
    <3>1. ReportedRow(t, a) = [row[t] EXCEPT !.status = st, !.owner = NoWorker,
                                 !.stale = FALSE, !.due = TRUE, !.consumed = FALSE, !.outcome = a]
      BY <2>2 DEF ReportedRow
    <3>2. st \in Terminal \cup {"pending"}
      BY DEF Terminal
    <3> HIDE DEF st
    <3> QED BY <1>1, <2>0, <3>1, <3>2 DEF Rows
  <2> QED BY <2>1, <2>2
<1>3. ReapedRow(t) \in Rows
  <2> DEFINE st == IF row[t].attempts >= MaxAttempts THEN "failed" ELSE "pending"
  <2>1. st \in Terminal \cup {"pending"}
    BY DEF Terminal
  <2>2. ReapedRow(t) = [row[t] EXCEPT !.status = st, !.owner = NoWorker, !.stale = FALSE,
                                      !.due = TRUE]
    BY DEF ReapedRow
  <2> HIDE DEF st
  <2> QED BY <1>1, <2>1, <2>2, RowUpdates
<1>4. \A w \in Workers : Claimable(t) => ClaimedRow(t, w) \in Rows
  BY <1>1, RowUpdates DEF ClaimedRow, Claimable
<1> QED BY <1>2, <1>3, <1>4

LEMMA TypeStep == TypeOK /\ [Next]_vars => TypeOK'
<1> SUFFICES ASSUME TypeOK, [Next]_vars PROVE TypeOK'
  OBVIOUS
<1> USE LimitsAssumption
<1>1. CASE UNCHANGED vars
  BY <1>1 DEF vars, TypeOK
<1>2. ASSUME NEW t \in Tasks, Submit(t) \/ ComeDue(t) \/ GoStale(t)
      PROVE  TypeOK'
  <2>1. PICK new \in Rows : row' = [row EXCEPT ![t] = new]
    <3>1. row[t] \in Rows
      BY DEF TypeOK
    <3>2. CASE Submit(t)
      <4>1. PICK net \in BOOLEAN : row' = [row EXCEPT ![t].status = "pending", ![t].net = net]
        BY <3>2 DEF Submit
      <4> DEFINE new == [row[t] EXCEPT !.status = "pending", !.net = net]
      <4>2. new \in Rows
        BY <3>1, RowUpdates
      <4>3. row' = [row EXCEPT ![t] = new]
        BY <3>1, <4>1 DEF TypeOK, Rows
      <4> QED BY <4>2, <4>3
    <3>3. CASE ComeDue(t)
      BY <3>1, <3>3, RowUpdates DEF ComeDue
    <3>4. CASE GoStale(t)
      BY <3>1, <3>4, RowUpdates DEF GoStale
    <3> QED BY <1>2, <3>2, <3>3, <3>4
  <2>2. row' \in [Tasks -> Rows]
    BY <2>1, RowType
  <2> QED BY <1>2, <2>2 DEF TypeOK, Submit, ComeDue, GoStale
<1>3. ASSUME NEW t \in Tasks, NEW a \in Attempts, Execute(t, a)
      PROVE  TypeOK'
  <2>1. run[t][a].verdict \in Verdicts
    BY DEF TypeOK, Runs
  <2>2. CASE \/ Refuse(t, a) \/ Start(t, a) \/ Deny(t, a) \/ Check(t, a) \/ Finish(t, a)
    <3>1. PICK from \in {"claimed", "checked", "executing"},
               to \in {"checked", "executing", "finished"},
               v \in Verdicts : Moves(t, a, from, to, v)
      BY <2>2, Zenon DEF Refuse, Start, Deny, Check, Finish, Verdicts
    <3>2. UNCHANGED row
      BY <2>2 DEF Refuse, Start, Deny, Check, Finish
    <3>3. to \in {"claimed", "checked", "executing", "finished", "reported", "lost"}
      OBVIOUS
    <3> QED BY <3>1, <3>2, <3>3, MovesType DEF TypeOK
  <2>3. CASE Consume(t, a)
    <3>1. CASE Consumable(t)
      <4> DEFINE new == [run[t][a] EXCEPT !.step = "executing", !.spent = TRUE]
      <4>1. run[t][a] \in Runs /\ run[t] \in [Attempts -> Runs] /\ row[t] \in Rows
        BY DEF TypeOK
      <4>2. new \in Runs
        BY <4>1 DEF Runs
      <4>3. run' = [run EXCEPT ![t] = [run[t] EXCEPT ![a] = new]]
        BY <2>3, <3>1 DEF Consume
      <4>4. [run[t] EXCEPT ![a] = new] \in [Attempts -> Runs]
        BY <4>1, <4>2
      <4> HIDE DEF new
      <4>5. run' \in [Tasks -> [Attempts -> Runs]]
        BY <4>3, <4>4 DEF TypeOK
      <4>6. row' = [row EXCEPT ![t] = [row[t] EXCEPT !.consumed = TRUE]]
        BY <2>3, <3>1 DEF Consume
      <4>7. row' \in [Tasks -> Rows]
        BY <4>1, <4>6, RowUpdates, RowType
      <4> QED BY <2>3, <3>1, <4>5, <4>7 DEF Consume, TypeOK
    <3>2. CASE ~Consumable(t)
      <4>1. Moves(t, a, "checked", "finished", "denied") /\ UNCHANGED row
        BY <2>3, <3>2 DEF Consume
      <4> QED BY <4>1, MovesType DEF TypeOK, Verdicts
    <3> QED BY <3>1, <3>2
  <2>4. CASE MarkDone(t, a)
    <3>1. run' \in [Tasks -> [Attempts -> Runs]] /\ UNCHANGED <<life, pids, beat, doomed>>
      BY <2>1, <2>4, MovesType DEF MarkDone
    <3>2. row' \in [Tasks -> Rows]
      BY <2>4, NewRows, RowType DEF MarkDone, TypeOK
    <3> QED BY <3>1, <3>2 DEF TypeOK
  <2> QED BY <1>3, <2>2, <2>3, <2>4 DEF Execute
<1>4. ASSUME NEW w \in Workers, NEW S \in SUBSET Tasks, Claim(w, S)
      PROVE  TypeOK'
  <2>1. \A t \in S : ClaimedRow(t, w) \in Rows
    BY <1>4, NewRows DEF Claim
  <2>2. ClaimedRun(w) \in Runs
    BY DEF ClaimedRun, Runs, Verdicts
  <2>3. row' \in [Tasks -> Rows]
    BY <1>4, <2>1 DEF Claim, TypeOK
  <2>4. ASSUME NEW t \in Tasks
        PROVE  run'[t] \in [Attempts -> Runs]
    <3> DEFINE new == [run[t] EXCEPT ![row[t].attempts + 1] = ClaimedRun(w)]
    <3>1. run[t] \in [Attempts -> Runs]
      BY DEF TypeOK
    <3>2. new \in [Attempts -> Runs]
      BY <2>2, <3>1
    <3>3. run'[t] = IF t \in S THEN new ELSE run[t]
      BY <1>4 DEF Claim
    <3> HIDE DEF new
    <3> QED BY <3>1, <3>2, <3>3
  <2>5. run' \in [Tasks -> [Attempts -> Runs]]
    BY <1>4, <2>4 DEF Claim
  <2> QED BY <1>4, <2>3, <2>5 DEF Claim, TypeOK
<1>5. ASSUME NEW w \in Workers, Reap(w)
      PROVE  TypeOK'
  <2>1. CASE ReapProbe(w)
    BY <2>1 DEF ReapProbe, DeadClaims, TypeOK
  <2>2. CASE ReapWrite(w)
    <3>1. \A t \in Tasks : ReapedRow(t) \in Rows
      BY NewRows
    <3> QED BY <2>2, <3>1 DEF ReapWrite, TypeOK
  <2> QED BY <1>5, <2>1, <2>2 DEF Reap
<1>6. ASSUME NEW w \in Workers, Process(w)
      PROVE  TypeOK'
  <2>1. CASE Boot(w) \/ Tick(w) \/ Lapse(w) \/ Recycle(w)
    BY <2>1 DEF Boot, Tick, Lapse, Recycle, TypeOK
  <2>2. CASE Die(w)
    <3>1. ASSUME NEW t \in Tasks, NEW a \in Attempts
          PROVE  /\ run[t][a] \in Runs
                 /\ [run[t][a] EXCEPT !.step = "lost"] \in Runs
      <4>1. run[t][a] \in Runs
        BY DEF TypeOK
      <4> QED BY <4>1 DEF Runs
    <3>2. run' \in [Tasks -> [Attempts -> Runs]]
      BY <2>2, <3>1 DEF Die
    <3>3. beat' \subseteq Workers /\ pids' \subseteq Workers
      BY <2>2 DEF Die, TypeOK
    <3>4. life' \in [Workers -> {"new", "up", "down"}] /\ doomed' \in [Workers -> SUBSET Tasks]
      BY <2>2 DEF Die, TypeOK
    <3> QED BY <2>2, <3>2, <3>3, <3>4 DEF Die, TypeOK
  <2> QED BY <1>6, <2>1, <2>2 DEF Process
<1> QED BY <1>1, <1>2, <1>3, <1>4, <1>5, <1>6 DEF Next

\* Every variable of the queue keeps its type; the attempts stay within
\* max_attempts, so that no row is executed more often than that.
THEOREM QueueTypeCorrect == Spec => []TypeOK
  BY TypeInit, TypeStep, PTL DEF Spec

-----------------------------------------------------------------------------
(* The refinement.                                                         *)

State == [t \in Tasks |-> row[t].status]
Tries == [t \in Tasks |-> row[t].attempts]

\* A step that changes at most one row's status, as End does.
LEMMA EndStep ==
  ASSUME TypeOK, NEW t \in Tasks, row[t].status = "running", NEW new \in Rows,
         row' = [row EXCEPT ![t] = new],
         new.status \in Lifecycle!Terminal \cup {"pending"},
         new.attempts = row[t].attempts,
         new.status = "pending" => row[t].attempts < MaxAttempts
  PROVE  Lifecycle!Next
<1>1. Lifecycle!End(t, new.status)
  BY DEF Lifecycle!End, TypeOK
<1> QED BY <1>1 DEF Lifecycle!Next

LEMMA StutterStep ==
  ASSUME \A t \in Tasks : row'[t].status = row[t].status /\ row'[t].attempts = row[t].attempts
  PROVE  State' = State /\ Tries' = Tries
  BY DEF State, Tries

LEMMA RefinementStep ==
  TypeOK /\ [Next]_vars => [Lifecycle!Next]_<<State, Tries>>
<1> SUFFICES ASSUME TypeOK, [Next]_vars
             PROVE  Lifecycle!Next \/ (State' = State /\ Tries' = Tries)
  OBVIOUS
<1>1. CASE UNCHANGED vars
  BY <1>1 DEF vars, State, Tries
<1>2. ASSUME NEW t \in Tasks, Submit(t)
      PROVE  Lifecycle!Next
  <2>1. PICK net \in BOOLEAN : row' = [row EXCEPT ![t].status = "pending", ![t].net = net]
    BY <1>2 DEF Submit
  <2>2. row[t].status = "absent"
    BY <1>2 DEF Submit
  <2>3. row' = [row EXCEPT ![t] = [row[t] EXCEPT !.status = "pending", !.net = net]]
    BY <2>1 DEF TypeOK, Rows
  <2>4. /\ \A u \in Tasks : row[u] \in Rows
        /\ row'[t].status = "pending" /\ row'[t].attempts = row[t].attempts
        /\ \A u \in Tasks \ {t} : row'[u] = row[u]
    BY <2>3 DEF TypeOK, Rows
  <2>5. Lifecycle!Submit(t)
    BY <2>2, <2>4 DEF Lifecycle!Submit
  <2> QED BY <2>5 DEF Lifecycle!Next
<1>3. ASSUME NEW t \in Tasks, ComeDue(t) \/ GoStale(t)
      PROVE  State' = State /\ Tries' = Tries
  <2>1. row[t] \in Rows
    BY DEF TypeOK
  <2>2. CASE ComeDue(t)
    BY <2>1, <2>2, StutterStep DEF ComeDue, TypeOK, Rows
  <2>3. CASE GoStale(t)
    BY <2>1, <2>3, StutterStep DEF GoStale, TypeOK, Rows
  <2> QED BY <1>3, <2>2, <2>3
<1>4. ASSUME NEW t \in Tasks, NEW a \in Attempts, Execute(t, a)
      PROVE  Lifecycle!Next \/ (State' = State /\ Tries' = Tries)
  <2>1. CASE row' = row
    BY <2>1 DEF State, Tries
  <2>2. CASE row' # row /\ Consume(t, a)
    BY <2>2, StutterStep DEF Consume, Moves, TypeOK, Rows
  <2>3. CASE row' # row /\ MarkDone(t, a)
    <3>1. row' = [row EXCEPT ![t] = ReportedRow(t, a)] /\ row[t].status = "running"
      BY <2>3 DEF MarkDone, Fenced
    <3>2. ReportedRow(t, a) \in Rows
      BY NewRows
    <3>3. /\ ReportedRow(t, a).status \in Lifecycle!Terminal \cup {"pending"}
          /\ ReportedRow(t, a).attempts = row[t].attempts
          /\ ReportedRow(t, a).status = "pending" => row[t].attempts < MaxAttempts
      BY DEF ReportedRow, Retries, Lifecycle!Terminal, TypeOK, Rows
    <3> QED BY <3>1, <3>2, <3>3, EndStep
  <2> QED BY <1>4, <2>1, <2>2, <2>3 DEF Execute, Refuse, Start, Deny, Check, Finish
<1>5. ASSUME NEW w \in Workers, NEW S \in SUBSET Tasks, Claim(w, S)
      PROVE  Lifecycle!Next
  <2>1. \A t \in S : row[t].status = "pending" /\ row[t].attempts < MaxAttempts
    BY <1>5 DEF Claim, Claimable
  <2>2. \A t \in Tasks :
          /\ row'[t].status = IF t \in S THEN "running" ELSE row[t].status
          /\ row'[t].attempts = IF t \in S THEN row[t].attempts + 1 ELSE row[t].attempts
    BY <1>5 DEF Claim, ClaimedRow, TypeOK, Rows
  <2>3. Lifecycle!Begin(S)
    BY <1>5, <2>1, <2>2 DEF Claim, Lifecycle!Begin
  <2> QED BY <2>3 DEF Lifecycle!Next
<1>6. ASSUME NEW w \in Workers, Reap(w)
      PROVE  Lifecycle!Next \/ (State' = State /\ Tries' = Tries)
  <2>1. CASE ReapProbe(w)
    BY <2>1 DEF ReapProbe, State, Tries
  <2>2. CASE ReapWrite(w)
    <3> DEFINE S == {t \in Tasks : t \in doomed[w] /\ StillStale(t)}
    <3>1. \A t \in S : row[t].status = "running"
      BY DEF StillStale, StaleClaim
    <3>2. \A t \in Tasks :
            /\ row'[t].status = IF t \notin S THEN row[t].status
                                ELSE IF row[t].attempts < MaxAttempts THEN "pending" ELSE "failed"
            /\ row'[t].attempts = row[t].attempts
      <4> SUFFICES ASSUME NEW t \in Tasks
                   PROVE /\ row'[t].status = IF t \notin S THEN row[t].status
                                ELSE IF row[t].attempts < MaxAttempts THEN "pending" ELSE "failed"
                         /\ row'[t].attempts = row[t].attempts
        OBVIOUS
      <4>1. row'[t] = IF t \in S THEN ReapedRow(t) ELSE row[t]
        BY <2>2 DEF ReapWrite
      <4>2. row[t] \in Rows /\ (row[t].attempts >= MaxAttempts <=> ~(row[t].attempts < MaxAttempts))
        BY LimitsAssumption DEF TypeOK, Rows
      <4> QED BY <4>1, <4>2 DEF ReapedRow, Rows
    <3>3. CASE S = {}
      BY <3>2, <3>3, StutterStep
    <3>4. CASE S # {}
      <4>1. PICK T \in SUBSET Tasks : T = S
        OBVIOUS
      <4>2. Lifecycle!GiveUp(T)
        BY <3>1, <3>2, <3>4, <4>1 DEF Lifecycle!GiveUp
      <4> QED BY <4>2 DEF Lifecycle!Next
    <3> QED BY <3>3, <3>4
  <2> QED BY <1>6, <2>1, <2>2 DEF Reap
<1>7. ASSUME NEW w \in Workers, Process(w)
      PROVE  State' = State /\ Tries' = Tries
  BY <1>7 DEF Process, Boot, Tick, Lapse, Die, Recycle, State, Tries
<1> QED BY <1>1, <1>2, <1>3, <1>4, <1>5, <1>6, <1>7 DEF Next

\* The table follows the life cycle, on any number of hosts and whichever
\* worker dies or is taken for dead: no try beyond max_attempts, no row left
\* pending without a try, no change of a row that ended.
THEOREM QueueRefines == Spec => Implements
<1>1. Init => Lifecycle!Init
  BY DEF Init, NoRow, Lifecycle!Init
<1>2. TypeOK /\ [Next]_vars => [Lifecycle!Next]_<<State, Tries>>
  BY RefinementStep
<1> QED BY <1>1, <1>2, QueueTypeCorrect, PTL
        DEF Spec, Implements, Lifecycle!Spec, State, Tries

-----------------------------------------------------------------------------
(* The inductive invariant for any number of workers on one host.  A live  *)
(* worker's pid answers (PidsAnswer), so what a reaper finds dead is dead  *)
(* and stays so (DoomedAreDead); hence no claim is taken from an attempt   *)
(* under way (ExecutorHolds), every report passes the fence                *)
(* (CompletedByLast), and the marker of an envelope outlives its attempt   *)
(* (MarkerStays).                                                          *)

LEMMA InductiveInit == Init => Inductive
<1> SUFFICES ASSUME Init PROVE Inductive
  OBVIOUS
<1>1. TypeOK
  BY TypeInit
<1>2. \A t \in Tasks, a \in Attempts : run[t][a] = NoRun /\ row[t] = NoRow
  BY DEF Init
<1>3. OwnedWhileRunning /\ CompletedByLast
  <2>1. \A t \in Tasks : row[t].status = "absent" /\ row[t].owner = NoWorker
    BY DEF Init, NoRow
  <2> QED BY <2>1 DEF OwnedWhileRunning, CompletedByLast
<1>4. ExecutorsLive /\ ExecutorHolds /\ NotYetBegun /\ MarkerStays /\ UsedOncePerReport
  <2>1. \A t \in Tasks, a \in Attempts : ~run[t][a].spent /\ run[t][a].step \notin UnderWay
    BY <1>2 DEF NoRun, UnderWay
  <2>2. NotYetBegun
    BY <1>2 DEF NotYetBegun
  <2> QED BY <2>1, <2>2
          DEF ExecutorsLive, ExecutorHolds, MarkerStays, UsedOncePerReport
<1>5. PidsAnswer /\ DoomedAreDead
  BY DEF Init, PidsAnswer, DoomedAreDead
<1> QED BY <1>1, <1>3, <1>4, <1>5 DEF Inductive

\* The fields of the runs after one of them has moved on.
LEMMA MoveFacts ==
  ASSUME TypeOK, NEW t \in Tasks, NEW a \in Attempts, NEW from, NEW to, NEW v,
         Moves(t, a, from, to, v)
  PROVE  /\ run[t][a].step = from
         /\ run'[t][a].step = to
         /\ run'[t][a].verdict = v
         /\ run'[t][a].by = run[t][a].by
         /\ run'[t][a].spent = run[t][a].spent
         /\ \A u \in Tasks, b \in Attempts : u # t \/ b # a => run'[u][b] = run[u][b]
         /\ UNCHANGED <<life, pids, doomed>>
<1>1. run[t][a] \in Runs /\ run \in [Tasks -> [Attempts -> Runs]]
  BY DEF TypeOK
<1>2. run' = [run EXCEPT ![t][a] = [run[t][a] EXCEPT !.step = to, !.verdict = v]]
  BY DEF Moves
<1>3. run'[t][a] = [run[t][a] EXCEPT !.step = to, !.verdict = v]
  BY <1>1, <1>2
<1>4. \A u \in Tasks, b \in Attempts : u # t \/ b # a => run'[u][b] = run[u][b]
  BY <1>1, <1>2
<1> QED BY <1>1, <1>3, <1>4 DEF Moves, Runs

\* A step that moves one run on inside UnderWay and leaves the row alone.
LEMMA MovePreserves ==
  ASSUME Inductive, TypeOK', NEW t \in Tasks, NEW a \in Attempts,
         NEW from \in UnderWay, NEW to \in UnderWay, NEW v,
         Moves(t, a, from, to, v), UNCHANGED row
  PROVE  Inductive'
<1>1. /\ TypeOK /\ ExecutorHolds /\ ExecutorsLive /\ NotYetBegun /\ MarkerStays
      /\ CompletedByLast /\ UsedOncePerReport
  BY DEF Inductive
<1>2. /\ run[t][a].step = from /\ run'[t][a].step = to
      /\ run'[t][a].by = run[t][a].by /\ run'[t][a].spent = run[t][a].spent
      /\ \A u \in Tasks, b \in Attempts : u # t \/ b # a => run'[u][b] = run[u][b]
      /\ UNCHANGED <<life, pids, doomed>>
  BY <1>1, MoveFacts
<1>3. row[t].status = "running" /\ row[t].attempts = a
  BY <1>1, <1>2 DEF ExecutorHolds, Fenced
<1>4. \A u \in Tasks, b \in Attempts :
        /\ run'[u][b].step \in UnderWay <=> run[u][b].step \in UnderWay
        /\ run'[u][b].step = "reported" <=> run[u][b].step = "reported"
        /\ run'[u][b].by = run[u][b].by
        /\ run'[u][b].spent = run[u][b].spent
  BY <1>2 DEF UnderWay
<1>5. OwnedWhileRunning' /\ PidsAnswer' /\ DoomedAreDead'
  BY <1>2 DEF Inductive, OwnedWhileRunning, PidsAnswer, DoomedAreDead, StaleClaim
<1>6. ExecutorsLive' /\ ExecutorHolds'
  BY <1>1, <1>2, <1>4 DEF ExecutorsLive, ExecutorHolds, Fenced
<1>7. NotYetBegun'
  BY <1>1, <1>2, <1>3 DEF NotYetBegun, TypeOK, Rows, Attempts
<1>8. MarkerStays' /\ UsedOncePerReport'
  <2>1. MarkerStays'
    BY <1>1, <1>4 DEF MarkerStays
  <2>3. UsedOncePerReport'
    <3> SUFFICES ASSUME NEW u \in Tasks, NEW x \in Attempts, NEW y \in Attempts,
                        x < y, run'[u][x].spent, run'[u][y].spent
                 PROVE  \E c \in x..(y - 1) : run'[u][c].step = "reported"
      BY DEF UsedOncePerReport
    <3>1. run[u][x].spent /\ run[u][y].spent
      BY <1>4
    <3>2. PICK c \in x..(y - 1) : run[u][c].step = "reported"
      BY <1>1, <3>1 DEF UsedOncePerReport
    <3>3. c \in Attempts
      BY LimitsAssumption DEF Attempts
    <3> QED BY <1>4, <3>2, <3>3
  <2> QED BY <2>1, <2>3
<1>9. CompletedByLast'
  <2> SUFFICES ASSUME NEW u \in Tasks, row[u].status = "completed"
               PROVE  /\ row[u].outcome = row[u].attempts
                      /\ row[u].attempts > 0
                      /\ run'[u][row[u].outcome].verdict = "ok"
    BY DEF CompletedByLast
  <2>1. u # t
    BY <1>3
  <2>2. run'[u] = run[u]
    BY <1>1, <2>1 DEF Moves, TypeOK
  <2> QED BY <1>1, <2>2 DEF CompletedByLast
<1> QED BY <1>5, <1>6, <1>7, <1>8, <1>9 DEF Inductive

\* A step that changes rows nobody is executing, and no run: the rows of S are
\* not running afterwards, or become an old claim that no reaper holds.
LEMMA RowPreserves ==
  ASSUME Inductive, TypeOK', UNCHANGED <<run, life, pids>>, NEW t \in Tasks,
         \A u \in Tasks : u # t => row'[u] = row[u],
         row'[t].attempts = row[t].attempts, row'[t].consumed = row[t].consumed,
         row'[t].status # "completed",
         \/ /\ row[t].status # "running" /\ row'[t].status # "running"
            /\ row'[t].owner = NoWorker
         \/ /\ row'[t].status = row[t].status /\ row'[t].owner = row[t].owner
            /\ \A w \in Workers : t \notin doomed[w],
         UNCHANGED doomed
  PROVE  Inductive'
<1>1. /\ TypeOK /\ ExecutorHolds /\ ExecutorsLive /\ NotYetBegun /\ MarkerStays
      /\ CompletedByLast /\ UsedOncePerReport /\ OwnedWhileRunning /\ PidsAnswer /\ DoomedAreDead
  BY DEF Inductive
<1>2. OwnedWhileRunning'
  BY <1>1 DEF OwnedWhileRunning
<1>3. ExecutorsLive' /\ PidsAnswer' /\ UsedOncePerReport'
  BY <1>1 DEF ExecutorsLive, PidsAnswer, UsedOncePerReport
<1>4. DoomedAreDead'
  BY <1>1 DEF DoomedAreDead, StaleClaim
<1>5. NotYetBegun' /\ MarkerStays'
  BY <1>1 DEF NotYetBegun, MarkerStays
<1>6. ExecutorHolds'
  BY <1>1 DEF ExecutorHolds, Fenced
<1>7. CompletedByLast'
  BY <1>1 DEF CompletedByLast
<1> QED BY <1>2, <1>3, <1>4, <1>5, <1>6, <1>7 DEF Inductive

LEMMA TimePreserves ==
  ASSUME Inductive, TypeOK', NEW t \in Tasks, Submit(t) \/ ComeDue(t) \/ GoStale(t)
  PROVE  Inductive'
<1>1. row[t] \in Rows /\ row \in [Tasks -> Rows] /\ OwnedWhileRunning
  BY DEF Inductive, TypeOK
<1>2. CASE Submit(t)
  BY <1>1, <1>2, RowPreserves DEF Submit, OwnedWhileRunning, Rows
<1>3. CASE ComeDue(t)
  BY <1>1, <1>3, RowPreserves DEF ComeDue, OwnedWhileRunning, Rows
<1>4. CASE GoStale(t)
  BY <1>1, <1>4, RowPreserves DEF GoStale, Rows
<1> QED BY <1>2, <1>3, <1>4

LEMMA ClaimPreserves ==
  ASSUME Inductive, TypeOK', NEW w \in Workers, NEW S \in SUBSET Tasks, Claim(w, S)
  PROVE  Inductive'
<1>1. /\ TypeOK /\ ExecutorHolds /\ ExecutorsLive /\ NotYetBegun /\ MarkerStays
      /\ CompletedByLast /\ UsedOncePerReport /\ OwnedWhileRunning /\ PidsAnswer /\ DoomedAreDead
  BY DEF Inductive
<1>2. life[w] = "up" /\ UNCHANGED <<life, pids, doomed>>
  BY DEF Claim
<1>3. \A t \in Tasks : t \notin S => row'[t] = row[t] /\ run'[t] = run[t]
  BY DEF Claim
<1>4. ASSUME NEW t \in S
      PROVE  /\ row[t].status = "pending"
             /\ row[t].attempts + 1 \in Attempts
             /\ row'[t].status = "running" /\ row'[t].owner = w /\ ~row'[t].stale
             /\ row'[t].attempts = row[t].attempts + 1
             /\ row'[t].consumed = row[t].consumed
             /\ run'[t][row[t].attempts + 1] = ClaimedRun(w)
             /\ \A a \in Attempts : a # row[t].attempts + 1 => run'[t][a] = run[t][a]
             /\ run[t][row[t].attempts + 1] = NoRun
  <2>1. row[t] \in Rows /\ run[t] \in [Attempts -> Runs] /\ Claimable(t)
    BY <1>1 DEF TypeOK, Claim
  <2>2. row[t].status = "pending" /\ row[t].attempts + 1 \in Attempts
    BY <2>1, LimitsAssumption DEF Claimable, Rows, Attempts
  <2>3. row'[t] = ClaimedRow(t, w)
    BY DEF Claim
  <2>4. run'[t] = [run[t] EXCEPT ![row[t].attempts + 1] = ClaimedRun(w)]
    BY DEF Claim
  <2>5. run[t][row[t].attempts + 1] = NoRun
    BY <1>1, <2>1, <2>2 DEF NotYetBegun, Rows
  <2>6. /\ row'[t].status = "running" /\ row'[t].owner = w /\ ~row'[t].stale
        /\ row'[t].attempts = row[t].attempts + 1
        /\ row'[t].consumed = row[t].consumed
    BY <2>1, <2>3 DEF ClaimedRow, Rows
  <2> QED BY <2>1, <2>2, <2>4, <2>5, <2>6
<1>5. ClaimedRun(w).step = "claimed" /\ ClaimedRun(w).by = w /\ ClaimedRun(w).spent = FALSE
  BY DEF ClaimedRun
<1>6. NoRun.step = "none" /\ NoRun.spent = FALSE
  BY DEF NoRun
<1>7. OwnedWhileRunning'
  BY <1>1, <1>2, <1>3, <1>4, WorkersAssumption DEF OwnedWhileRunning
<1>8. ExecutorsLive'
  <2> SUFFICES ASSUME NEW t \in Tasks, NEW a \in Attempts, run'[t][a].step \in UnderWay
               PROVE  run'[t][a].by \in Workers /\ life[run'[t][a].by] = "up"
    BY <1>2 DEF ExecutorsLive
  <2>1. CASE t \in S /\ a = row[t].attempts + 1
    BY <1>2, <1>4, <1>5, <2>1
  <2>2. CASE ~(t \in S /\ a = row[t].attempts + 1)
    BY <1>1, <1>3, <1>4, <2>2 DEF ExecutorsLive
  <2> QED BY <2>1, <2>2
<1>9. PidsAnswer' /\ DoomedAreDead'
  BY <1>1, <1>2, <1>3, <1>4 DEF PidsAnswer, DoomedAreDead, StaleClaim
<1>10. NotYetBegun'
  <2> SUFFICES ASSUME NEW t \in Tasks, NEW a \in Attempts, a > row'[t].attempts
               PROVE  run'[t][a] = NoRun
    BY DEF NotYetBegun
  <2>1. row[t].attempts \in Nat
    BY <1>1, LimitsAssumption DEF TypeOK, Rows
  <2> QED BY <1>1, <1>3, <1>4, <2>1 DEF NotYetBegun, Attempts
<1>11. \A t \in Tasks, a \in Attempts :
         /\ run'[t][a].spent => run[t][a].spent
         /\ run[t][a].step = "reported" => run'[t][a].step = "reported"
         /\ row'[t].consumed = row[t].consumed
  BY <1>3, <1>4, <1>5, <1>6
<1>12. MarkerStays'
  BY <1>1, <1>11 DEF MarkerStays
<1>13. UsedOncePerReport'
  <2> SUFFICES ASSUME NEW u \in Tasks, NEW x \in Attempts, NEW y \in Attempts,
                      x < y, run'[u][x].spent, run'[u][y].spent
               PROVE  \E c \in x..(y - 1) : run'[u][c].step = "reported"
    BY DEF UsedOncePerReport
  <2>2. PICK c \in x..(y - 1) : run[u][c].step = "reported"
    BY <1>1, <1>11 DEF UsedOncePerReport
  <2>3. c \in Attempts
    BY LimitsAssumption DEF Attempts
  <2> QED BY <1>11, <2>2, <2>3
<1>14. ExecutorHolds'
  <2> SUFFICES ASSUME NEW t \in Tasks, NEW a \in Attempts, run'[t][a].step \in UnderWay
               PROVE  /\ row'[t].status = "running" /\ row'[t].owner = run'[t][a].by
                      /\ row'[t].attempts = a
    BY DEF ExecutorHolds, Fenced
  <2>1. CASE t \in S /\ a = row[t].attempts + 1
    BY <1>4, <1>5, <2>1
  <2>2. CASE t \in S /\ a # row[t].attempts + 1
    <3>1. run[t][a].step \in UnderWay /\ row[t].status = "pending"
      BY <1>4, <2>2
    <3> QED BY <1>1, <3>1 DEF ExecutorHolds, Fenced
  <2>3. CASE t \notin S
    BY <1>1, <1>3, <2>3 DEF ExecutorHolds, Fenced
  <2> QED BY <2>1, <2>2, <2>3
<1>15. CompletedByLast'
  <2> SUFFICES ASSUME NEW t \in Tasks, row'[t].status = "completed"
               PROVE  /\ row'[t].outcome = row'[t].attempts
                      /\ row'[t].attempts > 0
                      /\ run'[t][row'[t].outcome].verdict = "ok"
    BY DEF CompletedByLast
  <2>1. t \notin S
    BY <1>4
  <2> QED BY <1>1, <1>3, <2>1 DEF CompletedByLast
<1> QED BY <1>7, <1>8, <1>9, <1>10, <1>12, <1>13, <1>14, <1>15 DEF Inductive

LEMMA ConsumePreserves ==
  ASSUME Inductive, TypeOK', NEW t \in Tasks, NEW a \in Attempts, Consume(t, a), Consumable(t)
  PROVE  Inductive'
<1>1. /\ TypeOK /\ ExecutorHolds /\ ExecutorsLive /\ NotYetBegun /\ MarkerStays
      /\ CompletedByLast /\ UsedOncePerReport /\ OwnedWhileRunning /\ PidsAnswer /\ DoomedAreDead
  BY DEF Inductive
<1>2. row[t] \in Rows /\ run[t][a] \in Runs /\ run \in [Tasks -> [Attempts -> Runs]]
      /\ row \in [Tasks -> Rows]
  BY <1>1 DEF TypeOK
<1>3. UNCHANGED <<life, pids, doomed>>
  BY DEF Consume
<1>4. /\ \A u \in Tasks : u # t => row'[u] = row[u]
      /\ row'[t].status = row[t].status /\ row'[t].owner = row[t].owner
      /\ row'[t].attempts = row[t].attempts /\ row'[t].stale = row[t].stale
      /\ row'[t].consumed /\ ~row[t].consumed
  BY <1>2 DEF Consume, Consumable, Rows
<1>5. /\ \A u \in Tasks, b \in Attempts : u # t \/ b # a => run'[u][b] = run[u][b]
      /\ \A u \in Tasks : u # t => run'[u] = run[u]
      /\ run[t][a].step = "checked" /\ run'[t][a].step = "executing"
      /\ run'[t][a].by = run[t][a].by
  <2>1. run' = [run EXCEPT ![t] = [run[t] EXCEPT ![a] =
                  [run[t][a] EXCEPT !.step = "executing", !.spent = TRUE]]]
    BY DEF Consume
  <2> QED BY <1>2, <2>1 DEF Consume, Runs
<1>6. \A u \in Tasks, b \in Attempts :
        /\ run'[u][b].step \in UnderWay <=> run[u][b].step \in UnderWay
        /\ run'[u][b].step = "reported" <=> run[u][b].step = "reported"
        /\ run'[u][b].by = run[u][b].by
        /\ run'[u][b].spent => run[u][b].spent \/ (u = t /\ b = a)
  BY <1>5 DEF UnderWay
<1>7. row[t].status = "running" /\ row[t].attempts = a
  BY <1>1, <1>5 DEF ExecutorHolds, Fenced, UnderWay
<1>8. OwnedWhileRunning' /\ PidsAnswer' /\ DoomedAreDead'
  BY <1>1, <1>3, <1>4 DEF OwnedWhileRunning, PidsAnswer, DoomedAreDead, StaleClaim
<1>9. ExecutorsLive' /\ ExecutorHolds'
  BY <1>1, <1>3, <1>4, <1>6 DEF ExecutorsLive, ExecutorHolds, Fenced
<1>10. NotYetBegun'
  BY <1>1, <1>2, <1>4, <1>5, <1>7 DEF NotYetBegun, Rows, Attempts
<1>11. MarkerStays'
  BY <1>1, <1>4, <1>6 DEF MarkerStays
<1>12. UsedOncePerReport'
  <2> SUFFICES ASSUME NEW u \in Tasks, NEW x \in Attempts, NEW y \in Attempts,
                      x < y, run'[u][x].spent, run'[u][y].spent
               PROVE  \E c \in x..(y - 1) : run'[u][c].step = "reported"
    BY DEF UsedOncePerReport
  <2>2. CASE run[u][x].spent /\ run[u][y].spent
    <3>1. PICK c \in x..(y - 1) : run[u][c].step = "reported"
      BY <1>1, <2>2 DEF UsedOncePerReport
    <3>2. c \in Attempts
      BY LimitsAssumption DEF Attempts
    <3> QED BY <1>6, <3>1, <3>2
  <2>3. CASE ~(run[u][x].spent /\ run[u][y].spent)
    \* One of them is the attempt that consumes now; it is the last begun.
    <3>1. u = t /\ (x = a \/ y = a)
      BY <1>6, <2>3
    <3>2. y = a /\ run[t][x].spent
      <4>1. \A b \in Attempts : b > a => ~run'[t][b].spent
        BY <1>1, <1>5, <1>7 DEF NotYetBegun, NoRun, Attempts
      <4>2. x # a
        BY <3>1, <4>1
      <4> QED BY <1>6, <3>1, <4>2
    <3>3. PICK c \in Attempts : c >= x /\ run[t][c].step = "reported"
      BY <1>1, <1>4, <3>2 DEF MarkerStays
    <3>4. c < a
      <4>1. c # a
        BY <1>5, <3>3
      <4>2. ~(c > a)
        BY <1>1, <1>7, <3>3 DEF NotYetBegun, NoRun
      <4> QED BY <4>1, <4>2 DEF Attempts
    <3>5. c \in x..(y - 1)
      BY <3>2, <3>3, <3>4 DEF Attempts
    <3> QED BY <1>6, <3>1, <3>3, <3>5
  <2> QED BY <2>2, <2>3
<1>13. CompletedByLast'
  <2> SUFFICES ASSUME NEW u \in Tasks, row'[u].status = "completed"
               PROVE  /\ row'[u].outcome = row'[u].attempts
                      /\ row'[u].attempts > 0
                      /\ run'[u][row'[u].outcome].verdict = "ok"
    BY DEF CompletedByLast
  <2>1. u # t
    BY <1>4, <1>7
  <2> QED BY <1>1, <1>4, <1>5, <2>1 DEF CompletedByLast
<1> QED BY <1>8, <1>9, <1>10, <1>11, <1>12, <1>13 DEF Inductive

LEMMA MarkDonePreserves ==
  ASSUME Inductive, TypeOK', NEW t \in Tasks, NEW a \in Attempts, MarkDone(t, a)
  PROVE  Inductive'
<1>1. /\ TypeOK /\ ExecutorHolds /\ ExecutorsLive /\ NotYetBegun /\ MarkerStays
      /\ CompletedByLast /\ UsedOncePerReport /\ OwnedWhileRunning /\ PidsAnswer /\ DoomedAreDead
  BY DEF Inductive
<1>2. /\ run[t][a].step = "finished" /\ run'[t][a].step = "reported"
      /\ run'[t][a].verdict = run[t][a].verdict
      /\ run'[t][a].by = run[t][a].by /\ run'[t][a].spent = run[t][a].spent
      /\ \A u \in Tasks, b \in Attempts : u # t \/ b # a => run'[u][b] = run[u][b]
      /\ UNCHANGED <<life, pids, doomed>>
  BY <1>1, MoveFacts DEF MarkDone
<1>3. Fenced(t, run[t][a].by) /\ row[t].attempts = a
  BY <1>1, <1>2 DEF ExecutorHolds, UnderWay
<1>4. row[t] \in Rows /\ row \in [Tasks -> Rows] /\ run \in [Tasks -> [Attempts -> Runs]]
  BY <1>1 DEF TypeOK
<1>5. row' = [row EXCEPT ![t] = ReportedRow(t, a)]
  BY <1>3 DEF MarkDone
<1>6. /\ \A u \in Tasks : u # t => row'[u] = row[u]
      /\ row'[t] = ReportedRow(t, a)
  BY <1>4, <1>5
<1>7. /\ row'[t].status # "running" /\ row'[t].owner = NoWorker
      /\ row'[t].attempts = a /\ row'[t].outcome = a /\ ~row'[t].consumed
      /\ row'[t].status = "completed" => run[t][a].verdict = "ok"
  BY <1>3, <1>4, <1>6 DEF ReportedRow, Rows
<1>8. \A u \in Tasks, b \in Attempts :
        /\ run'[u][b].step \in UnderWay => run[u][b].step \in UnderWay /\ (u # t \/ b # a)
        /\ run[u][b].step = "reported" => run'[u][b].step = "reported"
        /\ run'[u][b].by = run[u][b].by
        /\ run'[u][b].spent = run[u][b].spent
  BY <1>2 DEF UnderWay
<1>9. OwnedWhileRunning' /\ PidsAnswer' /\ DoomedAreDead'
  BY <1>1, <1>2, <1>6, <1>7 DEF OwnedWhileRunning, PidsAnswer, DoomedAreDead, StaleClaim
<1>10. ExecutorsLive'
  BY <1>1, <1>2, <1>8 DEF ExecutorsLive
<1>11. ExecutorHolds'
  <2> SUFFICES ASSUME NEW u \in Tasks, NEW b \in Attempts, run'[u][b].step \in UnderWay
               PROVE  /\ row'[u].status = "running" /\ row'[u].owner = run'[u][b].by
                      /\ row'[u].attempts = b
    BY DEF ExecutorHolds, Fenced
  <2>1. /\ row[u].status = "running" /\ row[u].owner = run[u][b].by
        /\ row[u].attempts = b
    BY <1>1, <1>8 DEF ExecutorHolds, Fenced
  <2>2. u # t
    BY <1>3, <1>8, <2>1
  <2> QED BY <1>6, <1>8, <2>1, <2>2
<1>12. NotYetBegun'
  BY <1>1, <1>2, <1>3, <1>6, <1>7 DEF NotYetBegun, Attempts
<1>13. MarkerStays'
  <2> SUFFICES ASSUME NEW u \in Tasks, NEW x \in Attempts, run'[u][x].spent, ~row'[u].consumed
               PROVE  \E c \in Attempts : c >= x /\ run'[u][c].step = "reported"
    BY DEF MarkerStays
  <2>1. CASE u # t
    BY <1>1, <1>6, <1>8, <2>1 DEF MarkerStays
  <2>2. CASE u = t
    <3>1. ~(x > a)
      BY <1>1, <1>3, <1>8, <2>2 DEF NotYetBegun, NoRun
    <3> QED BY <1>2, <2>2, <3>1 DEF Attempts
  <2> QED BY <2>1, <2>2
<1>14. UsedOncePerReport'
  <2> SUFFICES ASSUME NEW u \in Tasks, NEW x \in Attempts, NEW y \in Attempts,
                      x < y, run'[u][x].spent, run'[u][y].spent
               PROVE  \E c \in x..(y - 1) : run'[u][c].step = "reported"
    BY DEF UsedOncePerReport
  <2>2. PICK c \in x..(y - 1) : run[u][c].step = "reported"
    BY <1>1, <1>8 DEF UsedOncePerReport
  <2>3. c \in Attempts
    BY LimitsAssumption DEF Attempts
  <2> QED BY <1>8, <2>2, <2>3
<1>15. CompletedByLast'
  <2> SUFFICES ASSUME NEW u \in Tasks, row'[u].status = "completed"
               PROVE  /\ row'[u].outcome = row'[u].attempts
                      /\ row'[u].attempts > 0
                      /\ run'[u][row'[u].outcome].verdict = "ok"
    BY DEF CompletedByLast
  <2>1. CASE u = t
    <3>1. a > 0
      BY LimitsAssumption DEF Attempts
    <3> QED BY <1>2, <1>7, <2>1, <3>1
  <2>2. CASE u # t
    <3>1. run'[u] = run[u]
      BY <1>4, <2>2 DEF MarkDone, Moves
    <3> QED BY <1>1, <1>6, <2>2, <3>1 DEF CompletedByLast
  <2> QED BY <2>1, <2>2
<1> QED BY <1>9, <1>10, <1>11, <1>12, <1>13, <1>14, <1>15 DEF Inductive

LEMMA ExecutePreserves ==
  ASSUME Inductive, TypeOK', NEW t \in Tasks, NEW a \in Attempts, Execute(t, a)
  PROVE  Inductive'
<1>1. CASE \/ Refuse(t, a) \/ Start(t, a) \/ Deny(t, a) \/ Check(t, a) \/ Finish(t, a)
  <2>1. PICK from \in UnderWay, to \in UnderWay, v \in Verdicts : Moves(t, a, from, to, v)
    BY <1>1, Zenon DEF Refuse, Start, Deny, Check, Finish, UnderWay, Verdicts
  <2>2. UNCHANGED row
    BY <1>1 DEF Refuse, Start, Deny, Check, Finish
  <2> QED BY <2>1, <2>2, MovePreserves
<1>2. CASE Consume(t, a) /\ ~Consumable(t)
  <2>1. Moves(t, a, "checked", "finished", "denied") /\ UNCHANGED row
    BY <1>2 DEF Consume
  <2>2. "checked" \in UnderWay /\ "finished" \in UnderWay
    BY DEF UnderWay
  <2> QED BY <2>1, <2>2, MovePreserves
<1> QED BY <1>1, <1>2, ConsumePreserves, MarkDonePreserves DEF Execute

LEMMA ReapPreserves ==
  ASSUME OneHost, Inductive, TypeOK', NEW r \in Workers, Reap(r)
  PROVE  Inductive'
<1>1. /\ TypeOK /\ ExecutorHolds /\ ExecutorsLive /\ NotYetBegun /\ MarkerStays
      /\ CompletedByLast /\ UsedOncePerReport /\ OwnedWhileRunning /\ PidsAnswer /\ DoomedAreDead
  BY DEF Inductive
<1>2. CASE ReapProbe(r)
  <2>1. UNCHANGED <<row, run, life, pids>>
    BY <1>2 DEF ReapProbe
  <2>2. DoomedAreDead'
    <3> SUFFICES ASSUME NEW w \in Workers, NEW t \in Tasks, t \in doomed'[w], StaleClaim(t)
                 PROVE  life[row[t].owner] = "down"
      BY <2>1 DEF DoomedAreDead, StaleClaim
    <3>1. CASE w # r
      BY <1>1, <1>2, <3>1 DEF ReapProbe, DoomedAreDead, TypeOK
    <3>2. CASE w = r
      <4>1. t \in DeadClaims(r)
        BY <1>1, <1>2, <3>2 DEF ReapProbe, TypeOK
      <4>2. row[t].owner \in Workers
        BY <1>1, <4>1 DEF DeadClaims, StaleClaim, OwnedWhileRunning, TypeOK, Rows
      <4>3. row[t].owner \notin pids
        BY <4>1, <4>2 DEF DeadClaims, LooksAlive, OneHost
      <4>4. life[row[t].owner] \notin {"up", "new"}
        BY <1>1, <4>1, <4>2, <4>3 DEF PidsAnswer, OwnedWhileRunning, DeadClaims, StaleClaim
      <4> QED BY <1>1, <4>2, <4>4 DEF TypeOK
    <3> QED BY <3>1, <3>2
  <2>3. OwnedWhileRunning' /\ ExecutorsLive' /\ PidsAnswer' /\ NotYetBegun' /\ MarkerStays'
    BY <1>1, <2>1 DEF OwnedWhileRunning, ExecutorsLive, PidsAnswer, NotYetBegun, MarkerStays
  <2>4. ExecutorHolds' /\ CompletedByLast' /\ UsedOncePerReport'
    BY <1>1, <2>1 DEF ExecutorHolds, Fenced, CompletedByLast, UsedOncePerReport
  <2> QED BY <2>2, <2>3, <2>4 DEF Inductive
<1>3. CASE ReapWrite(r)
  <2>1. UNCHANGED <<run, life, pids>>
    BY <1>3 DEF ReapWrite
  <2>2. \A w \in Workers : doomed'[w] \subseteq doomed[w]
    BY <1>1, <1>3 DEF ReapWrite, TypeOK
  <2>3. ASSUME NEW t \in Tasks
        PROVE  \/ row'[t] = row[t]
               \/ /\ row[t].status = "running" /\ life[row[t].owner] = "down"
                  /\ row'[t].status \in {"pending", "failed"} /\ row'[t].owner = NoWorker
                  /\ row'[t].attempts = row[t].attempts
                  /\ row'[t].consumed = row[t].consumed
    <3>1. row[t] \in Rows
      BY <1>1 DEF TypeOK
    <3>2. CASE t \in doomed[r] /\ StillStale(t)
      <4>1. row'[t] = ReapedRow(t)
        BY <1>3, <3>2 DEF ReapWrite
      <4>2. row[t].status = "running" /\ life[row[t].owner] = "down"
        BY <1>1, <3>2 DEF StillStale, StaleClaim, DoomedAreDead
      <4> QED BY <3>1, <4>1, <4>2 DEF ReapedRow, Rows
    <3>3. CASE ~(t \in doomed[r] /\ StillStale(t))
      BY <1>3, <3>3 DEF ReapWrite
    <3> QED BY <3>2, <3>3
  <2>4. OwnedWhileRunning' /\ ExecutorsLive' /\ PidsAnswer'
    BY <1>1, <2>1, <2>3 DEF OwnedWhileRunning, ExecutorsLive, PidsAnswer
  <2>5. DoomedAreDead'
    BY <1>1, <2>1, <2>2, <2>3 DEF DoomedAreDead, StaleClaim
  <2>6. NotYetBegun' /\ MarkerStays' /\ UsedOncePerReport'
    BY <1>1, <2>1, <2>3 DEF NotYetBegun, MarkerStays, UsedOncePerReport
  <2>7. ExecutorHolds'
    BY <1>1, <2>1, <2>3 DEF ExecutorHolds, ExecutorsLive, Fenced
  <2>8. CompletedByLast'
    BY <1>1, <2>1, <2>3 DEF CompletedByLast
  <2> QED BY <2>4, <2>5, <2>6, <2>7, <2>8 DEF Inductive
<1> QED BY <1>2, <1>3 DEF Reap

LEMMA ProcessPreserves ==
  ASSUME Inductive, TypeOK', NEW w \in Workers, Process(w)
  PROVE  Inductive'
<1>1. /\ TypeOK /\ ExecutorHolds /\ ExecutorsLive /\ NotYetBegun /\ MarkerStays
      /\ CompletedByLast /\ UsedOncePerReport /\ OwnedWhileRunning /\ PidsAnswer /\ DoomedAreDead
  BY DEF Inductive
<1>2. UNCHANGED row
  BY DEF Process, Boot, Tick, Lapse, Die, Recycle
<1>3. CASE Boot(w) \/ Tick(w) \/ Lapse(w) \/ Recycle(w)
  <2>1. UNCHANGED <<run, doomed>> /\ pids \subseteq pids'
    BY <1>3 DEF Boot, Tick, Lapse, Recycle
  <2>2. \/ UNCHANGED life
        \/ life[w] = "new" /\ life' = [life EXCEPT ![w] = "up"] /\ w \in pids'
    BY <1>3 DEF Boot, Tick, Lapse, Recycle
  <2>3. \A x \in Workers :
          life'[x] = life[x] \/ (life[x] = "new" /\ life'[x] = "up" /\ x \in pids')
    BY <1>1, <2>2 DEF TypeOK
  <2>4. \A t \in Tasks : row[t].owner \in Workers \cup {NoWorker}
    BY <1>1 DEF TypeOK, Rows
  <2>5. OwnedWhileRunning' /\ ExecutorsLive' /\ PidsAnswer' /\ DoomedAreDead'
    BY <1>1, <1>2, <2>1, <2>3, <2>4
       DEF OwnedWhileRunning, ExecutorsLive, PidsAnswer, DoomedAreDead, StaleClaim
  <2>6. NotYetBegun' /\ MarkerStays' /\ UsedOncePerReport'
    BY <1>1, <1>2, <2>1 DEF NotYetBegun, MarkerStays, UsedOncePerReport
  <2>7. ExecutorHolds' /\ CompletedByLast'
    BY <1>1, <1>2, <2>1 DEF ExecutorHolds, Fenced, CompletedByLast
  <2> QED BY <2>5, <2>6, <2>7 DEF Inductive
<1>4. CASE Die(w)
  <2>1. /\ life' = [life EXCEPT ![w] = "down"] /\ pids' = pids \ {w}
        /\ \A r \in Workers : doomed'[r] \subseteq doomed[r]
    BY <1>1, <1>4 DEF Die, TypeOK
  <2>2. \A x \in Workers : life'[x] = IF x = w THEN "down" ELSE life[x]
    BY <1>1, <2>1 DEF TypeOK
  <2>3. ASSUME NEW t \in Tasks, NEW a \in Attempts
        PROVE  /\ run'[t][a].step \in UnderWay => run'[t][a] = run[t][a] /\ run[t][a].by # w
               /\ run[t][a].step = "reported" => run'[t][a].step = "reported"
               /\ run'[t][a].spent = run[t][a].spent
               /\ run'[t][a].verdict = run[t][a].verdict
               /\ run[t][a] = NoRun => run'[t][a] = NoRun
    <3>1. run'[t][a] = IF run[t][a].by = w /\ run[t][a].step \in UnderWay
                       THEN [run[t][a] EXCEPT !.step = "lost"] ELSE run[t][a]
      BY <1>4 DEF Die
    <3>2. run[t][a] \in Runs
      BY <1>1 DEF TypeOK
    <3> QED BY <3>1, <3>2 DEF UnderWay, Runs, NoRun
  <2>4. OwnedWhileRunning'
    BY <1>1, <1>2, <2>2 DEF OwnedWhileRunning, TypeOK, Rows
  <2>5. ExecutorsLive' /\ PidsAnswer'
    BY <1>1, <2>1, <2>2, <2>3 DEF ExecutorsLive, PidsAnswer
  <2>6. DoomedAreDead'
    <3>1. \A t \in Tasks : row[t].owner \in Workers \cup {NoWorker}
      BY <1>1 DEF TypeOK, Rows
    <3> QED BY <1>1, <1>2, <2>1, <2>2, <3>1
            DEF DoomedAreDead, StaleClaim, OwnedWhileRunning
  <2>7. NotYetBegun' /\ MarkerStays'
    BY <1>1, <1>2, <2>3 DEF NotYetBegun, MarkerStays
  <2>8. UsedOncePerReport'
    <3> SUFFICES ASSUME NEW u \in Tasks, NEW x \in Attempts, NEW y \in Attempts,
                        x < y, run'[u][x].spent, run'[u][y].spent
                 PROVE  \E c \in x..(y - 1) : run'[u][c].step = "reported"
      BY DEF UsedOncePerReport
    <3>2. PICK c \in x..(y - 1) : run[u][c].step = "reported"
      BY <1>1, <2>3 DEF UsedOncePerReport
    <3>3. c \in Attempts
      BY LimitsAssumption DEF Attempts
    <3> QED BY <2>3, <3>2, <3>3
  <2>9. ExecutorHolds'
    BY <1>1, <1>2, <2>3 DEF ExecutorHolds, Fenced
  <2>10. CompletedByLast'
    <3> SUFFICES ASSUME NEW t \in Tasks, row[t].status = "completed"
                 PROVE  /\ row[t].outcome = row[t].attempts
                        /\ row[t].attempts > 0
                        /\ run'[t][row[t].outcome].verdict = "ok"
      BY <1>2 DEF CompletedByLast
    <3>1. /\ row[t].outcome = row[t].attempts
          /\ row[t].attempts > 0
          /\ run[t][row[t].outcome].verdict = "ok"
      BY <1>1 DEF CompletedByLast
    <3>2. row[t].outcome \in 0..MaxAttempts
      BY <1>1 DEF TypeOK, Rows
    <3>3. row[t].outcome \in Attempts
      BY <3>1, <3>2, LimitsAssumption DEF Attempts
    <3> QED BY <2>3, <3>1, <3>3
  <2> QED BY <2>4, <2>5, <2>6, <2>7, <2>8, <2>9, <2>10 DEF Inductive
<1> QED BY <1>3, <1>4 DEF Process

LEMMA InductiveStep == ASSUME OneHost PROVE Inductive /\ [Next]_vars => Inductive'
<1> SUFFICES ASSUME Inductive, [Next]_vars PROVE Inductive'
  OBVIOUS
<1>1. TypeOK'
  BY TypeStep DEF Inductive
<1>2. CASE UNCHANGED vars
  BY <1>2 DEF vars, Inductive, TypeOK, OwnedWhileRunning, ExecutorsLive, PidsAnswer,
     DoomedAreDead, StaleClaim, NotYetBegun, MarkerStays, ExecutorHolds, Fenced,
     CompletedByLast, UsedOncePerReport
<1>3. CASE Next
  BY <1>1, <1>3, TimePreserves, ExecutePreserves, ClaimPreserves, ReapPreserves,
     ProcessPreserves DEF Next
<1> QED BY <1>2, <1>3

\* The inductive invariant holds whatever worker of the host dies, however its
\* heartbeat lags and whoever gets its pid.
THEOREM QueueInductive == ASSUME OneHost PROVE Spec => []Inductive
  BY InductiveInit, InductiveStep, PTL DEF Spec

\* On one host no task is executed twice at a time and no report is refused.
THEOREM ExecutedOnce == ASSUME OneHost PROVE Spec => []ExecutorHolds
<1>1. Inductive => ExecutorHolds
  BY DEF Inductive
<1> QED BY <1>1, QueueInductive, PTL

\* On one host a completed row holds the result of its last attempt.
THEOREM LastResultStands == ASSUME OneHost PROVE Spec => []CompletedByLast
<1>1. Inductive => CompletedByLast
  BY DEF Inductive
<1> QED BY <1>1, QueueInductive, PTL

\* On one host an envelope is used once between two reports of its row.
THEOREM EnvelopeUsedOnce == ASSUME OneHost PROVE Spec => []UsedOncePerReport
<1>1. Inductive => UsedOncePerReport
  BY DEF Inductive
<1> QED BY <1>1, QueueInductive, PTL
=============================================================================
