# Verification of the mining control plane

TLA+ modules of the part of this repository that sends commands to miners: how
they are created, approved, split, leased to edge devices, acknowledged,
retried, recovered and aggregated, how the edge runs them, how miners are shut down
and woken by curtailment plans, how credentials of miners are sealed for edge
devices, and how the background schedulers behind it elect the one process that
runs them. TLC checks the modules on small instances;
TLAPS proves the central theorems for every instance.

    tlc -config CommandLeaseSerial.cfg MCCommandLease.tla
    tlapm CommandLeaseProofs.tla

`PROJECT.json` lists the runs, the source lines behind every definition, the
hazards, the findings, and for each property a fault (a definition whose comment
begins with "Fault", kept beside the one it replaces) that breaks it.

## 1. The system

| Part | State | Operations | Interacts with |
|---|---|---|---|
| MinerCommand queue (`api/collector_api.py`, `api/control_plane_api.py`) | rows of `miner_commands`: status, lease owner and end, retry count, next attempt, nonce | create, poll, ACK, fetch, report, cancel | edge devices and legacy collectors over HTTP; recovery job; rate limiter; audit chain |
| Lease recovery (`services/lease_recovery.py`) | none but the rows | a pass every 60 s, in a thread beside the requests | the queue; leader lock |
| RemoteCommand (`api/remote_control_api.py`, `services/command_dispatcher.py`) | `remote_commands`, one result row per miner, children in the queue | create, approve, dispatch, cancel, hand-out of the command itself, two aggregations | the queue; approvals |
| Approvals (`api/control_plane_api.py`, `models_control_plane.py`) | `command_approvals`, policies | propose, approve, deny, rollback; create, approve and cancel without a policy (`api/remote_control_api.py`) | RemoteCommand |
| Leader lock (`models.SchedulerLock`) | a row per scheduler | acquire, which cleans up the rows of all schedulers, heartbeat, release | lease recovery, telemetry, automation, curtailment, cgminer and power aggregation schedulers; gunicorn's forks |
| Edge runner (`edge_collector/command_runner.py`) | the list of its round, file of executed ids | poll, execute, ACK | the queue |
| Curtailment (`services/curtailment_plan_service.py`, `services/curtailment_scheduler.py`, `modules/hosting/routes.py`) | plans, shutdown records, the miners' status | create, execute, recover, cancel, delete, emergency restore; two jobs a minute | miners, whose status operators and uploads of telemetry write too; leader lock |
| Device credentials (`api/device_api.py`, `models_device_encryption.py`) | devices with a key and its version, sealed secrets with a counter | register, rotate, revoke, upload, delete, pull | edge |
| Audit chains (`log_audit_event`, `audit/audit_logger.py`) | hash chains in the database and in a file | append, which in the database also commits the caller's transaction | every handler |
| Rate limiter (`services/rate_limiter.py`) | Redis sorted sets | check, record | the poll |
| CDC platform (`cdc-platform/`) | outbox, inbox, dead letters, idempotency keys | publish, consume, replay | Kafka, Redis |
| Intelligence workers (`intelligence/workers/`) | Redis locks, scheduled events | run a task once | Redis |
| AI closed loop (`services/ai_closedloop_service.py`) | recommendations | approve, execute, complete | RemoteCommand |
| Payments, SLA contracts | payments, certificates | confirm, expire, mint, verify | chains |
| Calculator, CRM, web pages | - | formulas, records, pages | - |

What is hard here is concurrency on database rows. Transactions run at READ
COMMITTED, the ORM writes only the columns that a handler changed, and the
handlers read, decide and commit in separate steps. Responses get lost, devices
repeat their ACKs, leases lapse, workers die or are recycled. The hazards, each
at its line, are in `PROJECT.json`. For each part, what makes it correct:

- queue: a command is in the hands of one client at a time, is handed out a
  bounded number of times, not before its back-off is over, ends once, and comes
  to rest;
- RemoteCommand: it is executed once per miner, its verdict is final, true, and
  eventually given;
- approvals: nothing runs before the approvals its policy asks for, a denial
  stands, what is approved is served;
- leader lock: one runner, and always one;
- edge runner: what it is handed it serves, and a lease that outlasts its round
  costs no retry;
- curtailment: an executing plan holds its miners, and alone; every miner that was
  curtailed is brought back; a finished plan stays finished;
- credentials: what is stored opens with the key it is labelled with; counters tell a
  device what it lacks and never go back;
- audit chain: one chain, without forks;
- rate limiter: no window holds more than its limit;
- CDC: every event takes effect once, or is in the dead letters;
- intelligence workers: no two runs of a task overlap;
- closed loop: every executed recommendation completes;
- payments: confirmed or expired, not both; contracts: the average is that of the
  certificates.

## 2. Modules

    MinerCommandRow                the row, and what each handler makes of it
      |- CommandLease              the queue: clients, transactions, locks, recovery
      |    |- ExclusiveLease       what it promises (abstract)
      |    |- CommandLeaseProofs
      |    |- EdgeRunner           the queue with edge runners as its clients
      |         |- EdgeRunnerProofs
      |- RemoteCommand             a parent and its children
           |- RemoteCommandProofs
    Approval                       decisions on RemoteCommands
      |- ApprovalProofs
    Curtailment                    plans, jobs and requests over the miners of a site
      |- CurtailmentProofs
    DeviceSecrets                  keys of devices, and what is sealed with them
      |- DeviceSecretsProofs
    SchedulerLock                  leader election
      |- SchedulerLockProofs
    MC*                            the same modules with symmetry sets and the
                                   circumstances to check, for TLC

Modules that are checked in several circumstances choose one of `Worlds` in their
initial states: a record of who takes part, how many requests are worked on at a
time, and what may fail. A property that needs one says so in its premise, so the
one run also shows what happens in the others.

**MinerCommandRow** holds the columns that decide something. Time is abstract:
a lease is `none`, `live` or `lapsed`, and the nonce is the number of the hand-out
it was drawn for. `AckedRow`, `RecoveredRow` and `Leased` are the assignments of
the three handlers. `Flush(cur, snap, new)` is the ORM's UPDATE: it leaves alone
each column whose new value equals the loaded one.

**CommandLease** gives every handler the steps its transactions have: load, then
commit. `req[x]` is the request of client `x` that the server works on, `rec` the
recovery pass. Three details decide most of what it shows:
- `log_audit_event` commits the session. The poll's loop calls it once per
  command, so the first commit ends the `FOR UPDATE` locks of the whole batch, and
  every later object is loaded again without a look at its status (`PollNext`).
- An ACK and each iteration of the recovery job decide on what they loaded and
  write only what they changed.
- `Locked(c, x)` makes other writers wait and other polls skip the row.

`Workers` is how many requests the server works on at a time. `gunicorn.conf.py`
has one synchronous worker, so `Workers = 1` is the configured deployment
(`Serial` together with no collectors); `main.py` runs threads and the CDC image
four workers, so RemoteCommand is also checked with `Workers = 2`. The recovery job
is a thread and interleaves in either case. `held`, `sent` and `told` are what clients know and
history, none of which the code reads. `Settled` states that a back-off (30 s or
more) outlasts the requests and the pass in flight when it starts.

**ExclusiveLease** is the promise: granted only when free, given up before it is
granted again, granted a bounded number of times, never kept for ever.
`Lease == INSTANCE ExclusiveLease WITH holder <- lease owners, handouts <- sent`.

**RemoteCommand** follows what the children's handlers and the operators do with the
parent. An ACK, the recovery pass and whatever changes the parent load first and commit
later (`AckLoad` and `AckCommit`, `SyncLoad` and `Write`, `RecoverSelect` and
`RecoverCommit`): the pass is a thread, so it may have loaded a child before an ACK
completes it and the parent gets its verdict, and commit its retry afterwards.
`overtaken` remembers the children that this has put back, for the properties only. A
poll, a fetch, a report and the cancellation of a child are one step on their child: with
one worker only the pass can come in between, and what their own interleavings do to a
child is CommandLease's subject. An ACK of the RemoteCommand itself is left out:
the handler first looks the id up in an integer column, which PostgreSQL refuses
for a UUID, and the code behind it filters by a column `target_miner_id` that the
result rows do not have. No code sets the status EXPIRED.

**EdgeRunner** lets CommandLease's devices be `command_runner.py`: `round[d]` is what is
left of the list that `run_once` goes through, in its order. Every step is a step of
CommandLease or leaves its variables, so what is proved there holds with runners.
What the runner does with a MinerCommand is less than its docstrings say. The poll's
items for MinerCommands carry no `target_ids` (`control_plane_api.py:367-384`), so
`execute_command` runs on no miner, and its ACK has no status, which the server takes
for `completed`. After an answer of 200 the log line slices the numeric id, which raises
`TypeError`; only `run_forever` catches it, so the rest of the round is dropped
(`Answers`), the id is never marked as executed, and the file of executed commands is
no variable of the model.

**Curtailment** gives each job and request a session: `task[t]` is what thread `t` has
loaded and will commit. `shut[p]` are the miners with a successful shutdown record of
`p`, which is what a recovery selects by. The strategies may pick any set of miners;
a miner without measured power is set to maintenance before its record fails
(`Shuttable`). A handler that commits on the way (`RecoveryMark`) is split there.
Plans are not alone in writing a miner's status: operators start and disable miners,
and every upload of telemetry sets each miner it reports to online or offline
(`Upload`), a curtailed one too. `moved` remembers the miners that this happened to
while a plan held them.

**DeviceSecrets** gives uploads and rotations two steps, read and commit; what they
write is the ORM's UPDATE of the columns that changed (`Stored`, `RotateCommit`).
Sealed texts are numbers, with the key that opens them as a ghost in the row. `have`
is what a device pulled last and `wiped` that a row was deleted since, which only the
properties read. `overlap` lets the server work on several requests at a time.

**Approval** enumerates what `get_approval_requirement` can answer. What an
approval does differently from the proposal (an estimated power of 0 kW, the row
counted after the autoflush) is in `StepsRequired` and `ApproveLoad`. The older API
(`remote_control_api.py`) creates, approves and cancels the same rows and asks no policy
(`CreateV0`, `ApproveV0Load`, `CancelLoad`); the AI closed loop creates commands as
`CreateV0` does, without asking for an approval. Decisions load and commit in two steps,
and the second section of the poll hands out row after row, of which the first audit
event ends the locks (`PollNext`). `agreed` and `late` are for the properties: which
commands a user approved, and which an approval or a poll has treated as open when they
no longer were.

**SchedulerLock** makes every SQL statement of `acquire_lock`, the heartbeat and
`release_lock` a step. `Recycle` is the exit of a worker forked from the process
that runs the jobs: `preload_app` starts the schedulers before the fork, so the
`atexit` handler and the recorded pid are inherited. Its SELECT and DELETE are
one step, as nothing else writes between them that would matter to the parent.
`cleanup_expired_locks` deletes the expired rows of all keys, so the schedulers of other
keys take part with their SELECT and their DELETE (`Sweepers`); `robbed` are the processes
whose valid row such a DELETE has taken, by the primary key alone, or a process robbed
before. `Twins` are processes on two hosts with one pid. `Expire` respects that
heartbeats come five times within the life of a lock, unless `Slow`.

## 3. Runs

Model values stand for clients, users, miners and processes; symmetry is used
in safety runs only. `CHECK_DEADLOCK FALSE` everywhere, because these systems may
stop: commands end and are bounded in number, processes exit and start once.

| Run | Instance | Shows |
|---|---|---|
| CommandLeaseSerial | 2 commands, 2 devices, 1 retry, 1 worker | hand-outs are bounded and never before the back-off is over; ExclusiveLease is implemented; `SerialInv`, with status and lease in agreement, is invariant |
| CommandLeaseCollector | 2 commands, 1 retry, a device and a collector, 1 worker | nobody is given what somebody holds, unless the recovery job overtakes a fetch; only three known races revive an ended command |
| EdgeRunnerRest | 2 devices of which none, one or both are runners, with faults, and both without faults and with 2 commands; `deferred` ACKs; fairness | no lease is kept for ever, every command comes to rest; with runners it is served; when all is calm a command loses a hand-out only to one served before it, so that none of two fails |
| RemoteCommandVerdict | 3 miners, one not the site's; a device and a collector with 2 requests at a time; a device whose leases lapse, 2 operators, 1 worker; a device, a collector and 2 operators, 1 worker; 2 devices with 2 ACKs at a time that are served to their end; fairness | with one worker a verdict is given when all children have ended, and only recovery's stale commit puts one back; without collectors the verdict is true, but for such children, and final; with one worker, or one operator, there is one dispatch; the last ACK ends the parent, even when two ACKs are last together |
| SchedulerLockOneByOne | 5 processes, one start at a time, the acquiring heartbeat, 2 schedulers of other keys | one runner, which stops only by an exit or a death, unless a clean-up for another key has robbed it of its lock |
| SchedulerLockReplaced | 3 processes, slow, recycled, 2 starts at a time, the plain heartbeat, a scheduler of another key; fairness | expired locks are taken over; in the end there is one runner |
| ApprovalDecided | 2 commands (one may roll the other back) with one request at a time, or 1 with two; 3 users, 2 edges, no policy and a dual one, both APIs; fairness | nothing runs without the approval it asks for; nothing runs twice, unless an approval or a poll was overtaken; in turns denials stand; approved commands are served |
| CurtailmentPlans | 2 plans of 2 kinds, 3 miners of which one has no measured power, both jobs, a request; in turns with operators and uploads at the miners, in turns with an error or a death, side by side | in turns an executing plan holds its miners, and alone, but for those that others have written; miners are stranded only in the ways listed in `StrandedOnlyBy`; finished plans stay finished |
| CurtailmentComesBack | the same circumstances, 1 miner; fairness | a curtailed miner is active again, or is stranded, or others have written its status, or after an error its plan is one that no job looks for |
| DeviceSecretsKeys | 1 device, 2 miners, 2 browsers, 2 keys, 3 versions, 3 uploads, in turns and side by side | what is stored opens with the key it is labelled with; a counter tells every change but a deletion; a row goes back only by a race of two uploads |

Why the bounds are enough. Two commands make a batch, the least in which the early
end of locks matters; two devices make a theft possible; a lease interacts with
one other request and one recovery pass. `MaxDispatch` is one more than any command
can be handed out, so that `HandOutBound` can fail. The third user and third
miner are there for the approval beyond two and for the miner of another site.
One command with two requests at a time is enough for one decision, poll or ACK to
overtake another. Five processes give a leader, a dead one, one that exits, one that starts and one
to spare; the proofs remove this bound. Two plans can want one miner, and two
threads are enough to interleave a job with a job or a request; a third plan or
request adds no new pair. A clean-up for another key has deleted one row before it can
select another, and two schedulers hold two at a time. Two keys and three versions make a form that is one or two
rotations old and a rotation that is repeated with its key; three uploads make a
row that is created, updated and lost by a race. `MaxVersion`, `MaxKeys` and
`MaxTexts` stop only what begins rotations and uploads.

These runs check that the code does what a document or comment of the
repository says, and TLC finds that it does not. Each is a finding in
`PROJECT.json`, with the quotation.

| Run | What happens |
|---|---|
| RemoteCommandTwice | the poll hands out a miner's child and its parent |
| SchedulerLockRecycled | a recycled worker ends the jobs for good |

The models have further behaviours that a document or comment does not expect.
No run is kept for them; the properties above are stated so that they hold
beside them, and say where.

| Where | What happens |
|---|---|
| `lease_recovery.py:204` | the recovery job makes a command pending that an ACK has just completed, and it is executed again (`RevivedByRaceOnly` names this race); `docs/REMOTE_CONTROL_CLOUD_SPEC.md:194` protects terminal states |
| `collector_api.py:1345-1361` | a fetch commits what it selected whatever has become of it: when the recovery job fails a command in between (it reloads the later rows of its pass without a look at their status, `lease_recovery.py:174`), the collector still gets it (`FailedInFetch` in `HandedOutWhenPending` and `RevivedByRaceOnly`) |
| `control_plane_api.py:367` | an edge runner executes a MinerCommand on no miner and acknowledges it as completed (`Served` is about what the server records) |
| `command_runner.py:139` | the first acknowledged MinerCommand of a round drops the rest of it: each such command waits for its lease to lapse and loses a retry (`CalmFailsNone` states how many can) |
| `routes.py:4258` | an emergency restore records its miners as started and cancels their plans, but leaves them in maintenance, where no recovery finds them (`StrandedOnlyBy` lists it); its docstring (:4170) says "Restore all curtailed miners" |
| `routes.py:4140` | one of the two ways to cancel a plan does not wake its miners (`StrandedOnlyBy`) |
| `curtailment_scheduler.py:226` | a recovery that fails after its mark stays RECOVERY_PENDING, which no job selects (`ComesBack` is checked up to an error) |
| `device_api.py:559` | a secret that is deleted and uploaded again starts at counter 1 (`CounterTells` exempts it), where the docstring (:471) and `architecture/device_envelope_encryption.md:59` have a strictly increasing counter |
| `device_api.py:1002` | `since_counter` is one number for rows with counters of their own, so an incremental pull leaves out new secrets of other miners (`CounterTells` says that their counters still differ) |
| `device_api.py:357` | a rotation leaves the secrets of the old key in place and pulls still return them, where its docstring says that it "invalidates all existing secrets"; they keep the old version (`CurrentOpens`) |
| `control_plane_api.py:420` | with two polls at a time, a later row of a batch is leased to both devices (`Serial` excludes it) |
| `control_plane_api.py:842` | a repeated ACK of a failure costs another retry: `ack_hash` is compared with nothing |
| `control_plane_api.py:759` | an ACK counts after its lease was recovered, since there is no owner to compare with |
| `control_plane_api.py:889` | a deferred command is never taken up again (`ComesToRest` counts it as at rest) |
| `collector_api.py:1345` | the collector API ignores the back-off (`BackoffRespected` is checked without collectors) |
| `remote_control_api.py:426` | the children of a cancelled command stay pending and are executed |
| `command_dispatcher.py:287-290` | the collector API's aggregation writes PARTIAL, which the enumeration does not have, revives a cancelled command, and counts cancelled children as successes (`SucceededIsTrue` and `EndIsFinal` are about one worker without collectors) |
| `lease_recovery.py:247`, `collector_api.py:1453` | a last child that is ended here leaves its parent open (`ParentFollowsAcks` excludes cancelled children and lapses) |
| `lease_recovery.py:204` | the recovery pass selects a lapsed child, its ACK completes it, the sync writes SUCCEEDED on the parent, and the pass commits its retry: a child of a command that has succeeded is pending again (`overtaken`) |
| `collector_api.py:473-478` | an upload sets a curtailed miner to online or offline while its plan executes; `recover_plan` (`curtailment_plan_service.py:273`) then does not find it and never sends it back to active (`moved`) |
| `models.py:180` | two starts on one expired lock give two runners, until a heartbeat (`Starters = 1` excludes it) |
| `models.py:177-180` | the clean-up selects the expired rows of all keys and deletes them by their key: a scheduler of another key that has read a dead process's row deletes the row that a new process has inserted since, and either the new runner stops at its next heartbeat with nobody to follow it, or another start makes two runners, against "only one scheduler instance runs" (`models.py:125`); `OneRunner` and `LastRunnerStays` exempt who was robbed so (`robbed`) |
| `models.py:207` | equal pids on two hosts give two runners (`Twins = {}` excludes them) |
| `lease_recovery.py:97` | a process that starts within 300 s of a crash never runs the jobs (`TakesOver` is about the expired lock) |
| `control_plane_api.py:1365` | the first of two approvals counts as two |
| `control_plane_api.py:1469` | a rollback has no `expires_at`, so the poll never hands it out (`ApprovedIsServed` excludes it) |
| `control_plane_api.py:1367` | with two approvals at a time, the second commit queues a command that is already running, or cancelled (`HandedOnce` lists it as `late`, `DenyIsFinal` is about one request at a time) |
| `control_plane_api.py:475` | with two requests at a time, the poll's second section hands out a command that a cancellation, or another poll, has taken since the first audit event ended its locks (the same) |
| `remote_control_api.py:291` | a command that is created here asks for an approval by the role of its user, not by its site's ApprovalPolicy, and the poll hands it out (`RunsApproved` is about commands that ask for an approval) |
| `lease_recovery.py:200` | the recovery job's back-off is `2^(retry_count - 1)`, where `docs/REMOTE_CONTROL_CLOUD_SPEC.md:155` has `2^retry_count` (not modelled) |
| `control_plane_api.py:1500` | a rollback asks the policy of the type `ROLLBACK`, where its comment promises the original's risk tier (not modelled) |

### Fairness

- `CommandLease!ServerFairness`: the server ends requests it has taken up (gunicorn kills
  those it does not, which is `RequestDies`); the recovery job runs every 60 s and
  `misfire_grace_time` with `coalesce` repeats a missed pass, so its selection and
  loop are weakly fair, and its commit is strongly fair because it waits for row
  locks and may be cut off by a death, but not every time; clocks advance, and a
  back-off ends although others may begin (strongly fair).
- `EdgeRunner!EdgeFairness` adds the runners: `run_forever` polls every few seconds and
  `run_once` acknowledges what it was given, the server takes up what waits in its
  queue and neither refuses nor dies each time (strongly fair, because others compete
  for the worker). Nothing is assumed of other devices: a device that never answers is
  the case the lease is for, and only the end of a command's time ends it there.
- `RemoteCommand!FairSpec`: requests that have loaded their row are ended; nothing is assumed of the recovery pass, of polls or of operators. `ParentFollowsAcks` is checked where
  no worker dies, since a worker that dies between the child's commit and the parent's
  leaves the parent for good (the hazard at `control_plane_api.py:899`).
- `SchedulerLock!FairSpec`: processes execute what they have begun; heartbeats come
  (strongly fair, as a heartbeat of the acquiring kind is disabled while it runs).
- `Curtailment!FairSpec`: both jobs are started every minute and a thread goes on with
  what it has begun (strongly fair, since threads that take turns disable each other);
  start and end times are reached.
- `Approval!FairSpec`: requests are ended; edges poll again and again (strongly fair,
  since polls compete with requests for the worker).

## 4. Proofs

`CommandLeaseProofs`, about any sets of commands and devices and any numbers of
retries and workers:

- `Typing`: `Spec => []TypeOK`, without further assumptions.
- `SerialSafety`: `Serial => (Spec => [](HandOutBound /\ LeaseConsistent))`.
- `SerialInvariant`: `Serial => (Spec => []SerialInv)`.
- `SerialHandOuts`: `Serial => (Spec => [][\A c : sent'[c] # sent[c] => row[c].status = "pending"]_vars)`,
  which is stricter than `HandedOutWhenPending`.
- `SerialBackoff`: `Serial => (Spec => BackoffRespected)`.
- `SerialRefinement`: `Serial => (Spec => LeaseSpec)`, the refinement of ExclusiveLease.
- `HandOutsInTurns`: `Workers = 1 => (Spec => HandedOutWhenPending)`, and
- `RevivalsInTurns`: `Workers = 1 => (Spec => RevivedByRaceOnly)`, with any collectors.

The assumption `Serial` is needed: with two polls at a time a lease can be
overwritten (section 3). `HandOutBound` is not inductive. `SerialInv` strengthens it:
`HandOutsPaid` (a pending command has been handed out at most `retry_count` times,
any other at most once more), `BatchIsPending` (while a poll is in its loop nobody
makes a row of its batch other than pending: there is no other request, and the
recovery pass may only visit rows that are backed off, so `PassBlocksPolling`), and
`SnapshotsUseful` (what an ACK or the pass has loaded still bounds the hand-outs, and
a snapshot without an owner has not been overtaken by a lease). The proof has a
lemma per handler, since almost all handlers touch one row: a lemma on the
commit of one row, used by ACKs, the recovery job and cancellations, carries most
of it. For the refinement each action is a Grant (`PollDispatch`), a GiveUp (ACK,
recovery) or a stutter; that Grant's guard holds comes from `BatchIsPending`.

With collectors little of `SerialInv` is left: a report writes whatever status the row
has, so nothing bounds the hand-outs. `TurnsInv` keeps `OneRequestAtATime` and
`PassBlocksPolling`, and adds that what a request has selected still allows what it is
about to do (`Promising`): a poll's batch is pending and not backed off, a fetch's
is pending or has been failed by the recovery job, and an ACK has loaded a row that
had not ended. The exception of
`FailedInFetch` takes two commands, the least in which the recovery job reloads a row
that has become pending again; TLC refutes both properties without it.

`SchedulerLockProofs`, for any set of processes:

- `LockTyping`: `Spec => []TypeOK`.
- `LockSafety`: `OneByOne => (Spec => []OneRunner)`: processes that start one after
  the other, on one host, that are never held up for the life of a lock and do not
  fork workers that are recycled, with either heartbeat and any schedulers of other keys.
  Overlapping starts or equal pids alone break it, and what a clean-up for another key
  breaks is exempt by name (section 3).
- `LockKept`: `OneByOne => (Spec => LastRunnerStays)`: under the same conditions a
  runner stops only by its own exit or death, or robbed of its lock.

  `OneByOneInv` says that a runner, like a process about to release, owns a fresh row
  (`RunnerHasLock`), that the one starting process has not been overtaken by what it
  saw (`NothingOvertaken`), both but for processes that were robbed, that no row is the starter's yet,
  and at which statements a runner can be (`StepAgrees`: an acquiring heartbeat finds
  its own fresh row, so it never deletes or inserts).

`RemoteCommandProofs`, for any miners, clients, dispatches and circumstances:

- `RemoteTyping`: `Spec => []TypeOK`.
- `VerdictWhenEnded`: `Spec => []FinishedMeansEnded`, whose premise is one worker, with
  collectors or without.
- `OneChildPerMiner`: `Spec => []DispatchedOnce`, whose premise is one worker or one operator.
- `VerdictIsTrue`: `Spec => []SucceededIsTrue`, and
- `VerdictIsFinal`: `Spec => EndIsFinal`, whose premise is one worker and no collectors.

  None is inductive. `TurnsInv` adds that one request is worked on (`OneRequest`), that
  what it has loaded is still so when it commits (`Timely`: an approved command still
  waits for its approval, a dispatched one has no children yet, what a verdict was
  derived from has not changed, but for children that recovery has overtaken, and an ACK
  of a command with a verdict is of such a child), and that all children are of one
  dispatch, none is superseded and clients and the pass know only children that exist
  (`ChildrenAgree`). Of the recovery pass nothing is needed but that whatever it commits
  over the end of a child is in `overtaken` by then (`RecoveryInv`). No report and no ACK
  opens a child that has ended; an aggregation after a report may replace one verdict by
  another, which is why the last two exclude collectors.

  With one operator and any number of workers none of `Timely` holds of devices and
  collectors: their requests pass each other. `OneOperatorInv` says what is left (`Fits`):
  the operator's request knows the command as it is, since only it creates children, and
  every request that could give a verdict finds children. Verdicts are another matter: with
  two workers an ACK may put a failed child back after another request has counted it.

`EdgeRunnerProofs`, for any sets of devices, commands and worlds:

- `RunnersAreDevices`: `EdgeSpec => Spec`, step by step: a round only restricts what a
  device of CommandLease may do.
- `RunnersKeepLeases`: `Serial => (EdgeSpec => LeaseSpec /\ [](HandOutBound /\ LeaseConsistent))`,
  from the theorems of CommandLeaseProofs: the composition implements ExclusiveLease.
- `EdgeTyping`: `EdgeSpec => []EdgeTypeOK`, which also says that a round lists only
  commands the runner was handed and that its ACK is about the first of them.
- `CalmSitesFailNone`: `Serial => (EdgeSpec => []CalmFailsNone)`, for any number of runners,
  commands and retries. `CalmInv`, which rests on `SerialInv`, counts the lapses of a round:
  a command has lost no more hand-outs than other commands have ended, and one fewer
  while it is leased and no runner has it any longer (`LosesFew`), so that the loss to come is
  paid for too. A round is dropped only when a command has just been served, hence
  by one more that has ended. What a runner has is leased to it (`KeepsItsLeases`), and
  the recovery job visits only commands whose lease has lapsed (`PassIsSo`).

`CurtailmentProofs`, for any plans, miners, kinds and requests:

- `CurtailmentTyping`: `Spec => []TypeOK`, in all worlds.
- `PlansHoldTheirMiners`: `Spec => []HoldsItsMiners`, whose premise is that threads take
  turns, and which exempts the miners that operators or uploads have written meanwhile
  (`moved`). It is not inductive: `TurnsInv` adds that
  one thread is at work (`Alone`), that what it has read is still so (`ReadIsSo`: an
  execution's plan is still executable and the miners it chose are active, a
  recovery's are among those its plan has shut down), that the recovery job's other
  plans are still executing (`StillOver`), and that a plan that was not executed has
  shut nothing down (`Unshut`).
- `FinishedPlansStay`: `Spec => FinishedStays`, whose premise is that threads take turns:
  what a thread has read of a plan is still so when it commits.
- `StrandedByFew`: `Spec => StrandedOnlyBy`, in all worlds. `FitInv` says whose task each
  commit is. A miner is stranded by losing the last plan that can wake it; the proof
  goes through the commits and finds, for each that the property does not list, a plan
  that still holds the miner (`HolderStays`).

`DeviceSecretsProofs`, for any devices, miners, users and bounds:

- `SecretsTyping`: `Spec => []TypeOK`.
- `RowsGoBackByRaceOnly`: `Spec => GoesBackByRaceOnly`, with any overlap of requests; it rests
  on ids that tell rows from each other (`Identified`).
- `CurrentSecretsOpen`, `StoredSecretsOpen` and `CountersTell`, while requests do not overlap.
  `SecretsInv` says that versions that were fetched or stored are no later than the
  device's and equal versions mean equal keys (`FormsTrue`, `SecretsTrue`), and that the
  one request in flight knows the rows as they are (`OneRequest`, `Informed`). A rotation
  takes the version beyond all of them, which is why old forms are refused.

`ApprovalProofs`, for any commands, users and policies:

- `ApprovalTyping`: `Spec => []TypeOK`.
- `NothingRunsUnapproved`: `Spec => []RunsApproved`, without further assumptions: a command
  that was queued, handed out, split, or is in the batch of a poll asks for no approval or
  has one (`QueuedApproved`).
- `DecidedOnce`: `Spec => []HandedOnce`, with any number of requests at a time, and
- `DenialStands`: `Spec => DenyIsFinal`, whose premise is one request at a time.

  `DecisionInv` says that what was handed out is past QUEUED unless an approval or a poll
  of it came late (`HandedIsPast`), that whoever decides has seen an open command
  (`DecidesOpen`), and that with one request at a time none comes late (`InTurns`).

Model-checked only: the liveness properties (`ComesToRest`, `Served`, `ParentFollowsAcks`,
`TakesOver`, `StaleStops`, `ApprovedIsServed`, `ComesBack`, and `LeaseFairSpec`, whose fairness
is liveness), which rest on ENABLED, beyond the prover. Every invariant and every action
property that a passing run checks is proved, under the premises above. The
premise `OneWorker \/ OneOperator` of `DispatchedOnce` is needed: with two operators and
two requests at a time TLC finds two approvals of one command that both dispatch it. So
are the exemptions: without `overtaken`, `robbed` or `moved` TLC finds the
traces of section 3.

## 5. Not modelled

Rows are followed from creation; who may create them (roles, access, validation of
payloads), what a command makes a miner do, signatures, metrics and wording are
left out. So are capability levels and bindings of miners, and the older modes of
credential protection. Priority orders a batch: CommandLease serves the smaller id first, and
its properties do not depend on the order. The kilowatt threshold is a policy kind.
The CDC pipeline carries no event as it stands: the outbox's INSERT casts a parameter
with `::jsonb` behind a bind name and passes a dictionary, which the driver refuses, the
consumer queries a model that has no query attribute, and the replay script imports a
module that is not there. The audit chain of the database fails its own verification
(`credential_protection_api.py:419-460`) for every chain that is not empty, since the
columns it hashes are filled after the hash was computed; a model of its forks waits
until there is a chain that verifies. The other parts listed as not modelled in
`PROJECT.json` are of two sorts: those planned below, and those without a protocol
(formulas, pages, CRM records).

## 6. Plan

Done: MinerCommandRow, CommandLease, ExclusiveLease, EdgeRunner, RemoteCommand,
SchedulerLock, Approval, Curtailment and DeviceSecrets with their proofs. To come, in
this order:

1. The AI closed loop, whose recommendations create RemoteCommands, and the idempotent
   creation of RemoteCommands.
2. RateLimiter, which every poll goes through: the window under concurrent polls.
3. The file logger's chain over failed writes, restarts and recycled workers.
4. TaskLock: the Redis lock of the intelligence workers with its fall-back; the event
   scheduler; the stale-while-revalidate cache.
5. The payment monitor and the SLA contract.
