# A verification project for willow-mcp

willow-mcp is an MCP server through which a fleet of agents and their human
operator share state: dispatch packets, task queues, governance records, keys
and leases.  Most of its functions are short; what is hard is that several
server processes, hooks, workers and timers read and write the same files and
tables, any of them may die between two writes, and the comments in the source
make strong promises about what can then not happen.  This project states those
promises in TLA+, model-checks them with TLC on small instances and proves the
most important ones with TLAPS for instances of any size.

Paths below are relative to the repository (`src/willow_mcp/...`).

## 1. The system

### Processes and shared state

| Who runs | What it touches |
|---|---|
| stdio servers, one per desk or seat (`server.py`); a desk's subagents share their parent's | everything below, one tool call at a time per connection |
| the `serve` process (`server.py --serve`, `oauth.py`, `instance_lock.py`) | the same, for remote connections |
| the ratatosk listener and its own willow-mcp child | dispatch packets, session records |
| SessionStart / SessionEnd / PreToolUse hooks (`session_start_hook.py`, `session_stop_hook.py`, `bundle/hooks`) | session records, attestations |
| Kart workers (`worker.py`, `kartikeya`) in lanes | the `tasks` table, worker heartbeats |
| timers and drains (`seal_drain.py`, `seal_daemon.py`, `net_authority.py`, `envelope_retire_sweep.py`, `reloader.py`) | the Nestor ledger offset, held tasks, leases, envelopes, the server's own process |
| the operator's terminal (`consent_admin.py`, `manifest_admin.py`, `cli_*.py`, `sign_session_cli.py`) | consent, manifests, the keyring, envelopes |

Shared state is files under `$WILLOW_HOME` (written by temporary file and
`os.replace`, sometimes under `flock`), a Postgres database (`tasks`,
`frank_ledger`, gaps, knowledge) and SQLite stores (receipts, SOIL).

### Components, their state and what makes them correct

* **Dispatch packets** (`dispatch.py`, `handoff.py`, `session_closeout.py`).  A
  packet is a directory: a signed `meta.json` and `assignment.md`, written once;
  `status.json`; `handoff.json` and `closeout.md` of the current cycle;
  `history/` of earlier ones.  Session records say which packet a session works
  on.  Tools: send, accept, enter, close a session, write the handoff, verify,
  clear, withdraw.  Correct when one session at a time owns a working packet,
  each accept cycle has at most one verdict, written by the owner, and neither a
  race nor a crash loses, duplicates or misattributes it.  Hard because sending
  takes no lock, verification decides before it locks, session records are not
  locked at all, and a crash can separate any two of the files.
* **Task queue** (`task_queue.py`, `worker.py`, `heartbeat.py`).  Rows pending,
  running, done, held; leases by `claim_owner` and `claimed_at`; retries with a
  backoff; a reaper that uses heartbeats.  Correct when a task's result is
  recorded once by its holder, attempts stay within the limit and a task whose
  worker died is taken up again.
* **Network authority** (`egress_authorization.py`, `net_authority.py`,
  `net_signer.py`, `decision_bridge.py`).  A networked task is held until the
  operator's seal, then released with a signed one-task envelope which may be
  used once; a lease or another ruling is asked for and sealed the same way.
  Correct when no envelope authorises two executions, nothing rejected or expired
  is released, and every held row comes to an end.
* **Governance ledger** (`governance_ledger.py`, `frank_head_anchor.py`,
  `envelopes.py`).  A hash chain in Postgres with an externally kept head
  anchor; citations against an envelope are counted.  Correct when the chain
  never forks, quotas are not exceeded and truncation is noticed.
* **Envelope authoring** (`envelope_authoring.py`, `envelope_retire_sweep.py`,
  `trust_owner_verbs.py`, `cli_envelope.py`).  Proposals and refused ones in a
  sidecar file, grants in the register, events in FRANK; each call reads whole
  files, edits its copy and replaces them.  On an installed box the register is
  the trust owner's: the broker queues a request and a oneshot unit applies it.
  Correct when FRANK is never ahead of the register nor the register of the
  sidecar, no proposal is lost, an id is granted once and a revoked row is never
  in force again.
* **Permission grants** (`manifest_grant_executor.py`, `manifest_admin.py`).  A
  sealed pair's groups reach the manifests of its seats by a request (a record in
  `pending/`, a citation, a signature) and a oneshot unit that grants one group at
  a time and undoes all of them if one fails.  Correct when a citation grants
  once, a pair's groups are granted together or not at all, receipts are true, and
  the queue empties.
* **Package upgrade** (`package_upgrade_executor.py`).  A wheel built by an
  untrusted task is copied, verified and installed into a venv, whose entries are
  backed up and put back if anything fails.  Correct when no venv holds an
  unverified wheel and a failed run leaves the venv as it was.
* **Egress keys** (`lease.py`, `build_lease.py`, `consent.py`,
  `consent_admin.py`, `gate.py`): a request passes only with manifest
  permission, standing consent and an unexpired lease.
* **Identity** (`human_session.py`, `keyring.py`, `session_binder.py`,
  `agent_registry.py`, `identity_binding.py`, `oauth.py`,
  `trust_identity.py`): who attested a session, which key was revoked when,
  which nonce was used.
* **Seal watch** (`seal_drain.py`, `seal_daemon.py`, `seal_handler.py`): reads
  the Nestor ledger from a stored offset and applies each seal.  Correct when no
  seal is passed over by an offset and a seal handled twice does no harm.
* **Receipts** (`receipts.py`, `bound_receipt.py`): a hash-chained log of calls.
* **Gaps** (`gaps.py`): the fleet's backlog and its lifecycle.
* **Grove** (`grove.py`, `grove_listen.py`, `activation.py`): workspace messages
  and the seat's cursor over them.
* **Nest intake** (`nest/`): a drop folder, staged, confirmed and filed.
* **Executors** (`push_executor.py`, `pull_executor.py`, `pr_executor.py`,
  `unit_install_executor.py`, ...): verify an envelope, cite it, run one host
  command.
* **Reloading** (`reloader.py`, `tools_changed.py`, `instance_lock.py`).
* **Commitments, subject consent, federation, voice, knowledge base, install
  and rendering code**: see `PROJECT.json`, which lists every part with its
  status.

### What is hard to test

`PROJECT.json` lists each hazard at its line with the properties that cover it.
In short:

* dispatch: two processes accept or close one packet; a reader meets a packet
  whose `status.json` is not there yet; the writer dies after `os.link` and
  before the status; the archive is torn between two renames; a verification
  decided in one cycle is written in another; an omitted session id resolves to
  somebody else;
* tasks: a worker that dies with the network open, a reaper that acts on probes
  made before, a result that arrives after its claim was reaped, a pid another
  process has taken;
* governance: a lock that is re-entrant per database session, a writer from
  another code base that takes no lock, a relinking and an anchoring that
  interleave with appends, deaths between a citation and the act;
* seals: three stores (queue row, governance record, nestor.db) and two
  append-only logs that are written one after the other by programs that may die
  or meet, a reply lost after the work was done, an offset behind a line that is
  still being written;
* grants and upgrades: an undo of several steps that may itself fail or die, a
  citation already spent whose result was never filed, a lock file taken over from
  a holder thought dead, a directory an untrusted process goes on writing;
* envelopes: three stores written one after the other, two of them from copies
  read earlier, by brokers, shells, sweeps and a unit.

## 2. Modules

| Module | Models | Extends / uses |
|---|---|---|
| `Dispatch` | the dispatch tools, one step per file operation | refines `PacketLifecycle` |
| `PacketLifecycle` | what those tools promise: the atomic life cycle of a packet | |
| `TaskQueue` | the `tasks` table, workers, reapers, heartbeats and the one-time network envelope, one step per SQL statement or probe | refines `TaskLifecycle` |
| `TaskLifecycle` | what the queue promises of a row | |
| `GovernanceLedger` | the FRANK chain, its lock, its writers, the anchor and citations with a quota, one step per statement | refines `CitationLog` |
| `CitationLog` | what the ledger promises of an envelope | |
| `SealAuthority` | held tasks, lease requests and rulings from the seat's call to the operator's seal, the tick that applies it and the drain that follows the seals | |
| `Grants` | a permission grant from the broker's request to the unit's receipts, and the retry, one step per file operation | |
| `PackageUpgrade` | an upgrade from its citation to the end of its rollback, one step per file operation | |
| `EnvelopeRegister` | the register, the sidecar and FRANK under the calls that write them, on both kinds of box | |
| `MCDispatch`, `MCTaskQueue`, `MCGovernanceLedger`, `MCSealAuthority`, `MCExecutors` | the instances TLC checks; `MCExecutors` has `Grants`, `PackageUpgrade` and `EnvelopeRegister` side by side | |
| `DispatchProofs` | type lemmas of `Dispatch` | |
| `DispatchSafetyProofs`, `TaskQueueProofs`, `GovernanceLedgerProofs`, `SealAuthorityProofs`, `GrantsProofs`, `PackageUpgradeProofs`, `EnvelopeRegisterProofs` | the inductive invariants and the safety theorems; for the packets, the queue and the ledger also the refinements | |

The components meet at narrow places.  A sealed task leaves `SealAuthority` as a
pending row, which is what `TaskQueue` calls submitted; the envelope that comes
with it is what `Consume` uses up.  A citation is spent in `GovernanceLedger`
before the executor acts (`Act`); `Grants` (`CiteSecond`) and `PackageUpgrade`
(`BeginRun`) are two such executors in detail.  The receipts of `SealAuthority`
(`inked`), of `Grants` (`receipts`) and of `EnvelopeRegister` (`frank`) are rows of
the ledger, of which only the presence matters there.

### `Dispatch` and the code

One variable per file of the packet (`files` for meta and assignment, `status`
and `accepted` for status.json, `handoff`, `closeout`, `history`), `lock` for the
`flock` of `packet_lock`, `record` for the session files, `entrants` for the
server's memory of who entered (`_specialist_entrants`), and for each server the
step its running call is at (`pc`) with what the call carries (`arg`).  A handler
becomes a first action, enabled when the server is idle, that makes the checks
the code makes before the lock, and one action per file operation after it.  A
step that blocks on `flock` is enabled only while the lock is free; what the code
reads again under the lock, it reads again in the model; what it does not
(`verify_handoff`, the session records) it does not.

| Actions | Code |
|---|---|
| `SendMkdir` .. `SendStatus` | `dispatch_send`: mkdir, meta.json, assignment.md, status.json |
| `Accept`, `AcceptLock`, `AcceptArchive`, `AcceptArchiveCloseout`, `AcceptStatus`, `AcceptBind` | `dispatch_accept`, `_archive_prior_handoff`, `session_bind` |
| `Enter`, `EnterBare`, `EnterRead`, `EnterReread`, `EnterBind` | `session_enter` for a specialist, then `_set_specialist_session` |
| `CloseSession` | the end of `session_handoff_write` and of the SessionEnd hook |
| `Write`, `WriteLock`, `WriteLink`, `WriteCloseout`, `WriteStatus` | `handoff_write_v4` and the resolver of an omitted session id |
| `Verify`, `VerifyRead`, `VerifySet` | `verify_handoff` |
| `Clear`, `ClearLock`, `ClearBind` | `agent_clear` |
| `Withdraw`, `WithdrawLock`, `WithdrawSet` | `dispatch_withdraw`, `_sessions_bound_to` |
| `Restart` | the death of a server process between any two steps |

A handoff is abstracted to the cycle it was written in, the session that called,
the session id presented and whether it would pass verification.  Left out:
the copy of the status in meta.json (no handler decides on it), the Postgres
mirror and the Grove wake (best effort, after the files), the sidecars of
refused handoffs, receipts, citation reads, and the operator attribution on
session records.  Statuses `closed` and `failed` are never written by the code.
Packets to other apps are refused before anything is read, so one specialist app
is enough.

### `TaskQueue` and the code

`row` is the table (status, claim, attempts, the attempt that left its outcome,
the envelope's `consumed_at` marker, two booleans for the clock: backoff over,
claim older than the reap limit).  `run[t][a]` is what the thread that executes
attempt `a` has come to.  `life`, `pids` and `beat` are the worker processes, the
pids that answer signal 0 and the heartbeat files that are young; `doomed` is
what a reaper found dead in its first statement and has not updated yet.

| Actions | Code |
|---|---|
| `Submit` | `_task_submit_impl` up to its INSERT, and the release of a held row |
| `Claim` | `PgTaskQueue.claim_pending`, one `UPDATE ... FOR UPDATE SKIP LOCKED` for a batch |
| `Refuse`, `Start`, `Finish` | `kartikeya.execute_task_row` (external) |
| `Check`, `Consume`, `Deny` | `ExecutorNetworkAuthorizer`: the row check, the UPDATE that uses the envelope, the refusal |
| `MarkDone` | `PgTaskQueue.mark_done`: fence on status and owner, retry or end |
| `ReapProbe`, `ReapWrite` | `PgTaskQueue.reap_stale`: SELECT and liveness probes, then the fenced UPDATEs |
| `Boot`, `Tick`, `Lapse`, `Die`, `Recycle` | `run_worker_daemon` and systemd's restart, `WorkerHeartbeat`, a heartbeat growing old, a death, a pid taken again |
| `ComeDue`, `GoStale` | time: `next_attempt_at`, `claimed_at` |

`GoStale` lets a claim grow old only while no reaper has an update outstanding:
the claim age is half an hour by default and a reaper's two statements follow
each other.
Left out: the order of the rows of a batch (a claim takes any of the claimable
ones) and the text of results beyond the verdicts the retry rule tells apart.
Held rows are in `SealAuthority`.

### `GovernanceLedger` and the code

A row is its content (which envelope it cites, with what outcome) with the digest
and the previous digest it carries; a digest is modelled by the values it is
taken of, so that two are equal exactly if their contents are.  A caller is a
call under way in a process, `SessionOf` the database session it shares with the
other calls of its process.

| Actions | Code |
|---|---|
| `Begin`, `Cite` | `frank_append`; `EnvelopeAuthority.authorize_and_cite` |
| `Lock`, `Unlock` | `pg_advisory_lock` / `_unlock`, re-entrant in a session |
| `Count` | `citation_count` against `max_count`, in `append_citation` |
| `ReadHead`, `Insert` | the two statements of `_chain_insert`, with its unique-index conflict and retries |
| `Act` | what the cited envelope was for |
| `BeginRechain`, `Scan`, `Relink`, `Mark` | `rechain`: reads and the anchor guard, the UPDATEs, the marker row |
| `CheckChain`, `WriteAnchor` | `frank-anchor`: `verify()`, then `write_anchor` |
| `ForeignBegin`, `ForeignInsert` | the other code base's `ledger_append`, which takes no lock (external) |
| `Edit` | an UPDATE of a row by hand |
| `Die` | a process, with the session and its lock |

`vouched`, `checked` and `intact` are history: the table an anchor was taken of,
the one `frank-anchor` has just verified, and whether any row was edited or
relinked.  The refinement maps each row to envelope and outcome.

### `SealAuthority` and the code

An ask is a networked task, a lease or another ruling.  Each has its record in
the governance collection, its pair in nestor.db, for a task its row, and for a
lease the number of times its file was written.

| Actions | Code |
|---|---|
| `Put`, `Draft`, `Link`, `Insert`, `Lose` | `hold_and_propose` / `propose_lease` and `decision_bridge.propose`: record, draft, link, the held row; a seat that dies or is refused in between |
| `Seal`, `Reject`, `Supersede`, `EndLine` | Nestor (external): the pair and the line of its ledger |
| `GrowOld`, `GoStale` | `HELD_MAX_AGE_S`; a seal the signer no longer honours |
| `Begin`, `Walk`, `Look`, `Blind`, `Miss`, `Sign`, `Release`, `Expire`, `Ink`, `Mark`, `Flip` | one `tick`: `drain` over the held rows, then `drain_leases`, with `read_sealed_pair`, `signer_call` and `net_signer.Signer` |
| `BeginDrain`, `Handle`, `Stop`, `WriteOffset` | `seal_drain.drain` with `seal_handler.on_seal` |
| `DieTick`, `DieDrain` | a death between any two of these |

Left out: the sealed bytes and their comparison with the row (a sealed pair is a
pair sealed for what was asked), the keys, and Nestor's own proposals.

### `Grants` and the code

`pending`, `done` and `failed` are the directories by pair, `lock` the lock file
of a pair, `held` the groups of each seat's manifest (which stand for its digest),
`cites` the citations and `receipts` the `manifest_granted` events.  `pc`, `about`
and `draft` are the requests, `unit` the oneshot apply with the work it has left,
`retry` the orchestrator's retry.  `live` and `cut` are history: what an apply has
in force, and whether one was cut short.

| Actions | Code |
|---|---|
| `Acquire`, `JudgeLock`, `Vacate`, `Unlock` | `_run_locked_request` and `_stale_lock`: `O_EXCL`, the judgement, the rename of a lock thought abandoned |
| `Vet`, `WriteFirst`, `CiteSecond`, `CiteRefused`, `SignLast` | `_manifest_grant_request_locked` |
| `List`, `Read`, `Judge`, `EnterSeat`, `GrantGroup`, `PassGroup`, `LeaveSeat`, `AllGranted` | `manifest_grant_apply`, `_apply_one`, `_apply_one_seat` |
| `GrantFails`, `UndoGroup`, `Undone` | a failing seat and `_revoke_groups` |
| `InkReceipt`, `FileDone`, `FileDoneFails`, `FileFailed`, `Unlink` | receipts, then `_move` |
| `RetryReads`, `RetryQueues`, `RetryUnlinks` | `manifest_grant_retry` |
| `CallerDies`, `UnitDies`, `EditManifest`, `LoseDone` | deaths, the operator's hand, a done record that is lost |

The seal, the escalation list and the registry refuse without changing anything
and are left out; the requests of other verbs share the directories, not the
records.

### `PackageUpgrade` and the code

`disk` is the version of each entry of each venv, `parked` and `staged` what stands
beside it as `.rollback-old` and `.restoring`, `backup` and `manifest` the private
root, which is one per commit and shared by the venvs; `output` is the wheel in
the directory Kart writes, `private` the broker's copy.

| Actions | Code |
|---|---|
| `BeginRun`, `Build`, `CopyWheel`, `VerifyWheel`, `Rehash` | `execute_package_upgrade` up to pip; `KartWrites` is Kart, at any time |
| `ClearBackup`, `BackUp`, `WriteManifest` | `_backup_entries`, `_write_backup_manifest` |
| `Install`, `Finish`, `GiveUp`, `Fail` | pip, which may stop half way; the three ends before a rollback |
| `LoadManifest`, `ManifestUnread`, `Stage`, `AllStaged`, `SetAside`, `PutInPlace`, `Sweep` | `_rollback_from_manifest`, `_stage_backup`, `_swap_staged_into_place`, `_remove_entries` |
| `Slip`, `PutBack`, `PutBackFails`, `RollbackFails`, `BrokerDies` | a file operation of the rollback that fails, and the death of the broker |

### `EnvelopeRegister` and the code

`register` has the rows of each id as they stand in `active[]`, `signature` the
register the `.sig` was made for, `sidecar` the pending and archived proposals,
`frank` the events, `queue` the requests of an installed box.  A call carries the
steps it still has to take (`Route`, `UnitSteps`), the copies it read and the id it
is about, so that one action per kind of step serves every operation.

| Actions | Code |
|---|---|
| `BeginCall` | `propose`, `reject`, `list_pending`, `ratify`, `revoke`, the sweep |
| `AskRatify`, `AskRevoke`, `TakeUp`, `FileRequest` | the click requests and the unit of `trust_owner_verbs.py` |
| `LockRegister` | the sweep's `flock` |
| `ReadRegister`, `ReadSidecar`, `Sign`, `SaveRegister`, `SaveSidecar`, `InkEvent` | `_load_active_register`, `_load_registry`, the three renames, the FRANK append |
| `GoUninked`, `Stop` | an append that fails or a shell without Postgres; a death or a failed write |

`Overlap` says which two operations may be under way at once in the brokers and
shells.  The unit runs beside any of them.

## 3. Runs

| Run | Question |
|---|---|
| `DispatchRaces` | With a seat and a listener on two servers racing every tool over two cycles, or with servers dying between any two file operations: is only a session of the packet's runner bound to it, is the handoff the holder's, is a complete packet whole, can a working packet be closed, is there one verdict per cycle and none lost, and does status.json follow the atomic life cycle (`PacketLifecycle`)? |
| `DispatchShared` | With two sessions in one process that may die: can an entrant's omitted session id close another's packet, and does every call return? |
| `TaskQueueOneHost` | With three workers of one host, one of which may die and lose its pid to another process: is a task executed by its holder only, does the last result stand, is an envelope used again only after a report, does the table follow `TaskLifecycle`, does every task end? |
| `Governance` | With two processes, a relinking, a writer without a lock, an edit, an anchoring and deaths: is the lock sound, the quota kept, `verify()` right, and is the table the log of `CitationLog`? |
| `Seal` | With an operator, two ticks and two drains that may die: do rows end once and as the receipts say, do records follow their pairs, is no seal passed over, do held rows and sealed leases come to an end? |
| `Executors` | With two requests, the unit, a retry and the operator's hand on one pair and two seats; or two upgrades of one tag into two venvs; or two shells and the unit authoring two envelopes; each with deaths and failed operations: does a citation grant once, are groups granted together or not at all, is every receipt true, does the queue empty; is no unverified wheel installed, and does a failed upgrade restore the venv; is FRANK never ahead of the register, and does a revoked row stay so? |

Six more runs expect a violation.  Each checks one sentence of the source that
the code does not keep; `PROJECT.json` quotes it under "findings":

| Run | What TLC finds |
|---|---|
| `DispatchStaleVerify` | `verify_handoff` decides before it locks: a packet leaves `withdrawn` for `verified` |
| `TaskQueueReplay` | a denial overwrites the envelope's marker, and the attempt after it uses the envelope of an attempt that was lost |
| `GovernanceThreads` | two threads of one process share the session and with it the advisory lock: both are granted the last use |
| `GovernanceRelink` | an edited row of an anchored table is relinked without `force`, since its stored hash is still the anchored one |
| `SealRemint` | a lease whose signing succeeded but whose reply was lost is written again |
| `EnvelopeRace` | two calls write the sidecar from copies read before, and the proposal of the first is lost |

### Bounds

* **Dispatch.**  `MaxCycles` stops a packet from being cleared again after that
  many accepts: two are needed for a verdict of one cycle to meet the next, and
  one is enough for the omitted session id.  `MaxRestarts` counts deaths: two
  let one call die in the wake of another.  One packet is enough, since every
  file, the lock and the entrants are per packet; session records are not, but
  the checked properties speak of one packet.  Two servers and two sessions are
  the smallest instance where a lock is contended and a packet held by another.
  The action constraint `CrashOrContend` of `DispatchRaces` splits its behaviours in
  two kinds, since both at once are too many states: two sessions race while no
  server dies, or servers die and the second session is alone (the first left
  nothing behind, in the packet, a record or a call).  The inductive invariant
  proved in section 5 knows no such limit.
* **TaskQueue.**  `MaxAttempts` 3 gives an attempt that is lost, one that is
  denied and one after that; `MaxDeaths` bounds deaths, `Slots` a worker's
  threads.  One task suffices on one host since rows do not depend on each other
  and a batch is a set of claims.  `Recyclable` names the workers whose pid may be taken.
* **GovernanceLedger.**  `MaxRows` rows are enough for a head, a concurrent pair
  of appends and the marker of a rechain; `Legacy` rows were there before;
  `MaxEdits` one; a quota of one is the boundary.
* **SealAuthority.**  `Together` says which asks may be made in one behaviour:
  each alone, or the two rulings together.  An ask has its own pair, row, record
  and lease file; only a drain's order and its offset relate asks, and for that
  two lines of the ledger are needed.  `MaxRows` and `MaxRecords` are the
  limits of one tick and one drain: a drain of one record leaves the second for
  the next, while a tick that leaves rows for the next is not exercised (one
  task); `MaxDeaths` is one death, `MaxMints` how often a signer may write one lease.
* **Grants.**  Two seats, the first of which may hold the group already, are enough
  for a grant that fails at its second seat; two requests are enough to meet at a
  lock left by a dead one.  `MaxFaults` and `MaxEdits` are one each.  A third request
  beside a dead lock holder is beyond the instance; the theorems cover it.
* **PackageUpgrade.**  Two runs of one tag on two venvs share the private root; the
  second venv lacks the package.  Entries are one that both releases have, one only
  the old and one only the new.  `MaxSlips` 2 lets a put-back fail after the swap it
  was to undo; `MaxCrashes` one leaves what the second run finds.
* **EnvelopeRegister.**  Two ids, two calls and the unit; `MaxStops` one death or
  failure.  In `Executors` `Overlap` is `WithSweeps`: a sweep may overlap the calls
  that do not write the register and another sweep, which waits for its lock.  With
  `AnyTwo` (`EnvelopeRace`) the promises fail, since nothing else excludes two
  writers.

### Fairness

* **Dispatch** (`CallsReturn`): strong fairness of the steps of each call under
  way.  A call waits for nothing but the lock; it is a blocking `flock`, whose
  waiters the kernel queues, and no handler holds it for longer than its own
  file operations.  Nothing is assumed about calls being made or servers dying.
* **TaskQueue** (`TasksEnd`): a live worker keeps polling, its threads end (the
  executor has a time limit), it reaps in its loop, systemd starts it again, a
  dead worker's heartbeat grows old, time passes.
* **SealAuthority** (`HeldRowsEnd`, `LeasesEnd`): the steward's timer runs `tick`
  again and again and a run of it finishes; tasks grow old; for leases also that
  nestor.db can be read and the signer answers now and then.  A tick started by
  hand and the drains may stop anywhere.  Deadlock is not checked in the two
  runs of this module, nor in those of `MCExecutors`, because an ask that was sealed, applied and handed on
  leaves nothing to do once the bounds are used up; so does an applied grant.
* **Grants** (`Drains`): the unit takes steps whenever it can.  A timer starts it
  every minute (`deploy/manifest-grant`), also after a death, of which there are
  finitely many.  Nothing is assumed about requests and retries.

`WorkingIsWritable` says nothing once a server has died (section 4).  `ExecutorHolds` holds on one host
only: a reaper on another host cannot probe the pid.

## 4. What else was learnt

Behaviours met while modelling that no sentence of the source excludes:

* a writer that dies between `os.link` and the status leaves a working packet
  with a handoff, which every later write finds ECLOSED until it is withdrawn;
* a torn archive leaves the closeout of one cycle to the next;
* `session_enter` can bind a session to a packet whose send never finished, and
  a withdraw misses a session bound a moment after it looked;
* a session on its second packet no longer counts as bound to its first, and an
  omitted session id may resolve to the acceptor's session;
* `session_reconcile` never touches `sessions/*.json`;
* a dead worker's claim whose pid was taken by another process is never reaped
  (the probe compares no start time);
* a rechain that dies before its marker row leaves a relinked chain without a
  trace of it, and a foreign writer that read the head before a rechain breaks
  the chain again, which is why `VerifyIsRight` speaks of `intact` tables;
* `seal_drain` counts an "error" outcome as handled, so it is not retried; a
  lease's seal is counted as "error" in the receipt although the lease drain is
  its owner;
* a pair sealed before it was linked to its record is unmatched for good;
* the receipt of an expiry is written before the row is failed, so it can stand
  next to a release that won the race;
* a Nestor ledger that is rotated and grows beyond the old offset is skipped up
  to it;
* the unit's last `unlink` removes a pending record a retry or a request has just
  signed again, although that one was answered ok; a request that takes over a
  stale lock renames whatever file has the name by then, so that two requests of
  one pair may meet.  Neither grants a citation twice;
* a venv without any entry of the package skips `_backup_entries`, which is what
  clears the backup directory, although its docstring says that this is done at the
  start of every run; if that run fails, it rolls back from the backup an earlier
  run left for another venv.  `UpgradeRestores` is therefore about venvs that had
  the package.  Two upgrades at once are excluded by nothing;
* a rejected proposal whose ratification is queued may still be ratified;
* on a single-uid box a `ratify` that dies between the register and the sidecar
  can be repeated and adds a second row of the id, which
  `EnvelopeAuthority.check` then refuses and of which `revoke` marks only the first;
* a death between the two renames of `_save_active` leaves a register that does not
  match its signature: every reader refuses it and nothing repairs it;
* `ratify` and `revoke` take no lock against the sweep, although `_default_lock`
  says that they should;
* a unit that dies between the register and FRANK leaves a ratified row of which
  FRANK never hears: its next run finds the row and files the request as failed.

## 5. Proofs

### Dispatch

`DispatchSafetyProofs` proves `Spec => []Inductive` and from it that every
variable keeps its type (`TypeCorrect`), that the handoff is the holder's
(`HolderSigns`), that a complete packet has its verdict and closeout
(`CompleteIsWhole`), one verdict per cycle (`OneVerdict`) and that none is lost
(`NoVerdictLost`, an action property), for any sets of servers, sessions,
packets and runners, and any bounds.  The assumptions are those on the constants
in `Dispatch`.

The properties are not inductive by themselves.  `Inductive` adds what makes
them so: a call in its locked part holds the lock (`CallInv`); `dispatch_send` is
alone with a packet until status.json exists (`SendInv`); a packet nobody
accepted has no verdict and no past (`UnclaimedInv`); what a handler read under
the lock still holds at each of its later steps (`HandlerInv`); and the verdict
on a packet is of its current cycle (`CycleInv`).  The argument: every step is
classified by its effect on one packet (`StepEffect`); a step that changes
anything of a packet but an unsent, verified one holds that packet's lock
(`LockedOut`), so it cannot disturb what another handler relies on
(`HandlerInvPreserved`); each invariant is then preserved case by case over the
effects.  `DispatchProofs` holds the type lemmas about the small operators.

Three more properties need an invariant of their own beside `Inductive`, each
followed along the steps of a call (`StepMoves` says which step of a handler can
come after which, and what it may carry there):

* `RunnerKept` (`RunnerRespected`): the runner in `status.json` is the one the
  handler's own session was checked for, from the check before the lock to the
  write under it (`RunnerInv`).
* `WorkingStaysWritable` (`WorkingIsWritable`): until a server dies, a packet with a
  handoff and the status `working` is in the hands of the call that is about to
  write `complete` (`PendingWrite`).
* `EntrantsCloseTheirOwn` (`EntrantClosesOwn`): a writer that omitted its session id
  was resolved to the only entrant, or to the acceptor (`EntrantInv`).

Two results hold with one desk only (`OneDesk`: the orchestrator's tools are called
through one server), since two are what the finding `DispatchStaleVerify` needs.  `WithdrawnStays` proves `WithdrawnIsTerminal`: between the
decision of `verify_handoff` and its lock nobody else can withdraw (`DeskInv`).
`PacketsRefine` proves that the handlers implement `PacketLifecycle`: a handler's
steps map to stutters except the one rename or link at which a reader of
`status.json` sees the packet move.

### Task queue

For any sets of tasks, workers and hosts and any limits, `TaskQueueProofs` proves
`TypeOK` (`QueueTypeCorrect`) and that the table implements `TaskLifecycle`
(`QueueRefines`): every action maps to a step or a stutter of the abstract one.

Assuming `OneHost`, it proves `Spec => []Inductive` and
from it that an executing worker holds its claim (`ExecutedOnce`), that the last
result stands (`LastResultStands`) and that between two uses of an envelope there
is a report (`EnvelopeUsedOnce`).  `Inductive` adds that a row has an owner
exactly while it is running; that whoever executes is alive, and a live process
answers the probe, so that what a reaper holds is a dead worker's claim or a
claim that has changed since (`DoomedAreDead`) and the fence of the second
statement protects the living; that attempts not yet begun are blank; and that
the marker of a used envelope stays until some attempt reports.  Each action
preserves each conjunct it can disturb; `ReapWrite` and `Claim` are the ones
where the conjuncts need each other.

### Governance ledger

`GovernanceLedgerProofs` proves `Spec => []Inductive` for any processes, calls,
writers without the lock and envelopes, whatever calls share a database session.
From it follow the types (`LedgerTypeCorrect`), that the lock is held by the session
of the calls that are inside and once for each (`LockIsSound`), and that every act
has a granted citation of its own (`ActsAreCited`), even where two threads of one
session overrun the quota.  Only the quota itself needs `OneCallEach` (no two
calls share a database session): `QuotaKept` assumes it, and the finding of
`GovernanceThreads` is why, since with two calls on one session the lock excludes
nobody.

`Inductive` counts the calls inside the lock (`InsideCalls`, `LockOK`), from which,
under `OneCallEach`, two calls inside are one (`Exclusion`); then what was counted
under the lock is still so at the INSERT (`CountStands`, part of `Metered`), which a
conflict and its retry leave alone.  The acts and the stored grants not acted on yet
(`Pending`) together are no more than the grants in the table (`GrantsCover`).  A
step that stores and spends no grant is classified once (`Quiet`, `QuietMeter`);
relinking and editing rows are shown to keep what the rows cite (`RelinkTyped`,
`EditTyped`); the INSERT of a call and the act (`StoreStep`, `ActStep`) are the two
that move the counts.

`VerifySaysRight` proves `VerifyIsRight`, again for calls that share sessions.  Its
first half is about data: in a table that verifies, the hash of a row tells its
place (`HashLength`), and two tables that verify and have one hash in common have the
same rows up to there (`HashPins`).  Both are inductions over the table, done with
the least row that would be wrong (`LeastNumber`).  The second half is an
invariant (`TableRight`): as long as no row was edited or relinked, the table
verifies, the anchored table and the one being checked are its start, and the head
a writer has read is the hash of some row.  The index then leaves it one place to
go (`FreeIsTip`): any row but the last has a successor already.  The theorem assumes
`Legacy > 0`.  A row that follows nothing has a NULL `prev_hash`, which the index
does not cover, so two writers of an empty table may both begin a chain.

`VerifiedRelinkIsAnchored` says what is missing in the finding of
`GovernanceRelink`: if the table verifies, an unforced relinking that gets past the
anchor relinks the anchored rows as they were.

`LedgerImplementsLog` proves, under `OneCallEach`, that the table implements
`CitationLog`.  Every step stores what some call says, or nothing, or a row
that cites nothing, or is an act (`RowSteps`); what a call is about to say is the
verdict it reached, and a quota that was used up stays used up (`SaidRight`,
`GrantedGrows`).

### Authority by seal

`SealAuthorityProofs` proves `Spec => []SealInductive` and from it the types
(`SealTypeCorrect`), that receipts and records agree with the rows and pairs
(`ReceiptsTrue`, `RecordsTrue`), that every seal passed by the offset was handed on
(`EverySealHanded`) and that rows end once (`RowsDecidedOnce`), for any sets of
asks, ticks and drains and any bounds.  What a tick carries is old news, so the
invariant says what stays true of it: the verdicts it read are of pairs that were
so sealed or rejected (`TicksTrue`), the rows it has left and the receipts it is
to ink belong to each other (`RowsTrue`, `InkTrue`), the lines of the ledger are of
decided pairs (`LedgerTrue`), the records follow the pairs (`RecordsAgree`), and what
a drain has passed it has handed over (`DrainsTrue`).

Two theorems are about the lease files.  `LeasesAreSealed`: one is written only on
a pair the operator sealed.  `MintedNeverSentAgain` assumes `OneTick`, that the
steward's tick is the only one, and says what then remains of the claim that
`SealRemint` refutes: a file may be written again when an answer was lost, but never
once the record says minted, and no step takes that back.  Its invariant says that
nothing exists of an ask before its call (`AskedFirst`), and that the list the tick
works through holds no minted request but the one whose receipt it is about to ink
(`TicksListed`); a second tick has a list of its own, which a mint does not shorten.

### Permission grants

`GrantsProofs` proves `GrantsInductive` and from it the types, that a pair's groups
are granted together or not at all (`GrantsAllOrNothing`), that a citation grants
once (`OneGrantPerCitation`) and that no receipt is undone (`NoReceiptUndone`), for
any pairs, seats, groups, callers and retries.  `GrantsInductive` adds to the types
where the unit is among the seats of its record (`SeatAhead`), that the citation is
unspent while a group may be granted or undone (`FreshWork`), and that a group in
force belongs to an apply that was cut short, to one that was filed as done, or is
among those the unit will undo or ink (`LiveAccounted`).

### Package upgrade

`PackageUpgradeProofs` proves `UpgradeInductive` and from it the types, that only a
verified wheel is installed (`OnlyVerifiedInstalled`), that a rollback that works
restores the venv (`RollbackRestores`) and that one that fails empties no entry of
both releases (`RollbackLosesNothing`).  The invariant says that one run is active
(`Solo`), that no unverified wheel passed the checks (`Clean`), and at each step of
the run what its rollback would need (`Restorable`): the live entries before
anything changed, then the copies and the manifest, then what is staged and what
is back.

### Envelope authoring

`EnvelopeRegisterProofs` assumes that calls overlap only as `WithSweeps` says, and
proves `EnvelopesInductive` and from it the types (`EnvelopesTypeCorrect`), that no
window opens (`NoWindowOpens`) and that what is revoked stays so
(`WithdrawnForGood`), for any envelopes, calls, requests and deaths.
`EnvelopeRace` is why the assumption is needed.

The invariant says of each call that it has the last steps of its path to take
(`Routing`), which tells what it has read and is going to write; that the calls
under way may overlap (`Apart`) and one sweep is past the lock (`OneSweep`); and that
a copy still stands when it is written (`Copies`): the register copy of a writer is
the register, the sidecar copy is the sidecar, what a listing read as granted is
still granted, what `ratify` is about to file or ink is in the register, what
`propose` is about to ink is in the sidecar.  Every step has one of four effects on
one call (`Effect`), and a step that writes a file is of the only call that relies
on it (`WritesAlone`).  What is written follows what was there: no row is lost and
a revoked one stays so (`Follows`, `EditedFollows`).

The assumptions of all theorems are the named ones on the constants, and
`OneDesk`, `OneHost`, `OneCallEach`, `OneTick`, `Legacy > 0` and `Overlap \subseteq WithSweeps`
where it is said.

### Model-checked only

Every safety property of a passing run, the action properties and the three
refinements are proved.  What remains to the model checker is liveness (`CallsReturn`,
`TasksEnd`, `HeldRowsEnd`, `LeasesEnd`, `Drains`), which is out of the prover's reach,
and the counterexamples of the runs that expect a violation.  The inductive
invariants are not checked in the runs: TLC found them to hold before they were
proved.

## 6. Not modelled

`PROJECT.json` gives the reason for every part left out.  In the parts that are
modelled, these are left out on purpose:

* of the dispatch tools, the Postgres mirror and the Grove wake, which nothing
  modelled reads;
* of the task queue, `mark_running`, which nothing in the repository calls, and
  reapers of another host, whose probes say nothing about a pid here;
* of sealing, the signed bytes, seeding and rotation of the offset, `seal_ring`;
* of grants, more than one unit at a time (systemd runs one), and the steps inside
  `set_permission`, which publishes a manifest by one rename;
* of upgrades, two at once: no lock excludes them, so that nothing could be
  promised; and the receipts and the restart of the workers;
* of envelopes, keys, digests and seals, which refuse without a change of state;
  the sweep's cursor and time budget; root's own `envelope ratify` on an installed
  box, which writes what the unit writes.

Of the other components, the rest of the executors spend a citation, run one
command and leave a receipt, which `GovernanceLedger` covers up to the command.
Gaps and other records of the store are read and written without a lock, the case
`EnvelopeRace` shows.  Identity is mostly signatures; receipts are single SQLite
transactions; commitments and subject consent are sequential; reloading compares
installed code with running code and restarts.  What is left is rendering, parsing,
HTTP, audio, embeddings, or an operator alone at a terminal.
