# A verification of YQ-center in TLA+

YQ-center is a control plane: a *Center* (Python, FastAPI, one asyncio process over a
SQL database) accepts operations from an agent or an administrator, turns them into
*jobs*, and *node daemons* (Linux in Rust, Windows in Python) fetch the jobs by polling,
run them and report.  This directory holds the TLA+ modules of the parts where order,
failure and concurrency decide whether the system is correct, the TLC configurations
that check them, and the TLAPS proofs of what holds for every value of the constants.

Paths below are relative to `src/yequ` unless they start with `nodes/`, `docs/` or `tests/`.

## 1. Inventory

| Component | State it keeps | Operations | Talks to |
|---|---|---|---|
| Job state machine (`services/job_state_machine.py`) | none (tables of statuses and transitions) | `is_valid_transition`, `transition` | every writer of `Job.status` |
| Job runtime (`services/job_service.py`, `services/node_service.py`, `services/timeout_scanner.py`) | `Job.status`, `Job.lease_expires_at`, history rows | create, cancel, poll, accepted, finished, lease renew, reconcile, timeout scan, startup recovery | nodes over YQP, locks, invocations |
| Resource locks (`services/resource_lock_service.py`) | `ResourceLock` rows (held / released) | `acquire_lock`, `release_lock`, `release_locks_for_terminal_jobs` | create_job, every settling handler, the operation scanner |
| Node liveness (`services/node_liveness_service.py`) | `Node.status`, `last_heartbeat_at` | hello, heartbeat, `compute_effective_status`, `mark_timed_out_nodes` | capability resolver, job runtime |
| Invocations (`services/invocation_service.py`) | `Invocation.status` | create, aggregate from the jobs | handle_job_finished |
| YQP endpoint (`api/routes/yqp.py`, `services/message_dedup.py`) | `yqp_messages` ids | authenticate, dedup, dispatch, answer | daemons |
| Linux daemon (`nodes/linux/.../daemon.rs`, `yqp/client.rs`, `job.rs`) | running_jobs, cancel tokens, SQLite job store | start, reconcile, poll, heartbeat, execute_job, retry | the endpoint |
| Windows daemon (`nodes/windows/.../daemon.py`) | jobs dict, tasks, SQLite results | the same protocol, other control flow | the endpoint |
| Node capability functions (`nodes/linux/.../capability`, `nodes/windows/.../transfer_yq_croc.py`, ...) | transfer ledgers, yq-croc processes, files | run one function per job | their daemon |
| Approvals (`services/approval_service.py`, `api/routes/admin_approvals.py`) | `ApprovalRequest.status`, expiry | create, approve, deny, approve-and-run, verify, consume, expire | execution runtime |
| Execution runtime (`runtime/execution_runtime.py`, guards, policy, resolver) | none of its own | plan, guard, resolve, consume approval, create invocation and job | all of the above |
| Operations, notifications, reporter (`services/operation_service.py`, `operation_scanner.py`, `agent_operation_notifications.py`, `agent_operation_reporter.py`) | `Operation`, events with a sequence number, notification rows | create_for_*, sync, cancel, claim, complete, fail | jobs, transfers, approvals, agent |
| Transfers (`application/transfer.py`, `transfer_helpers.py`) | `TransferSession`, preflights, two jobs per attempt | preflight, create, status, cancel, resume | job runtime, operations |
| Agent turns and runs (`agent/`, `services/agent_turn_service.py`, `runtime/agent_run_*.py`) | turns, runs, steps, events, the set of sessions with a stream | stream, tool calls, waits, resume | execution runtime, operations, the provider |
| Maintenance plans (`services/maintenance_executor.py`, `maintenance_service.py`, `agent/agent_service.py`) | plan, runs, steps, the linked approval | draw up, create, approve, run, resume, cancel, reject | execution runtime, approvals, operations |
| Capability registry (`services/capability_registry.py`) | sources per node, shared definitions and their status | register, search, describe, resolve a target | nodes, agent, YCR |
| YCR (`ycr/`, `ycr_app.py`) | capability index, index jobs, ranking cache, references and session memory | embed, search, project, pack a context | registry, agent |
| Signals, timeline, ingestion, artifacts, tokens, console | their own tables or caches | see PROJECT.json | |

How they interact.  Inside the Center everything runs in one event loop: HTTP handlers
(one database session each), the streams of agent runs, and scanners started by
`api/app.py` (timeouts, node liveness, operations, approvals' expiry, the reporter, the
index worker).  They share database rows, read mostly without locks and written by
primary key at commit, and a few sets in memory; an `await` between a read and its use
lets any other handler run.  Daemons only call the Center (poll, heartbeat, reports);
the Center cannot call them, so a cancel reaches a daemon only through the answer to
its next reconciliation.

What makes this hard, and what has to be right nevertheless:

* **job runtime** - polls, results, renewals, cancels, reconciliation and scans of one
  job in any order, restarts.  Conflicting jobs exclude each other; a delivered job is
  always within the timeout scanner's reach; outcomes are written once; an accepted
  cancel is final; expired jobs settle and locks come back.
* **sessions** - stale reads.  What of the above survives when a handler decides on a
  row another one has changed since.
* **daemon and endpoint** - lost and late answers, retries that meet the dedup table,
  crashes of either side.  A job runs at most once; the recorded outcome is one the
  node produced; slots and jobs do not leak.
* **node transfers** - a ledger, a process and a file that outlive the daemon.  An
  attempt runs once; what a checked attempt delivered stays; attempts end in the ledger.
* **approvals** - concurrent decisions, executions and expiry on one row.  Nothing runs
  without a committed approval; a denial is final.
* **operations** - events numbered and notifications found under a row lock that a cancel
  may do without, stale projections written over an end.  Every end is noted once;
  operations settle.
* **transfers** - two jobs that must start and end together, cancelled, interrupted and
  resumed while they are being created.  No job is out of the session's reach, and a
  transfer that was looked at first was looked at for what it does.
* **agent sessions** - streams that overlap, are abandoned or crash beside the reporter.
  An operation is reported once; no run is left waiting for one that is over.
* **tool rounds** - the calls of one answer, some side by side, against a deadline,
  approvals and operations.  One answer per call, in order; calls on one resource apart.
* **maintenance** - a run that works for minutes on copies of its rows.  A plan that
  counts as succeeded is whole; gated steps run on their own approval, and so does whatever
  changes the node in a plan the Agent drew up.
* **session memory** - turns that overlap load, append to and trim one conversation, whose
  older part becomes a summary.  What is sent to the provider is a whole conversation; what
  it found can be invoked.
* **run state** - the stream, decisions on approvals, operations' ends and the reporter write
  one row whole, from transactions that overlap.  A run does not answer over an error it
  could repair; what its task state calls pending is.
* **calls** - a capability's risk is read in two places and registered again between them.
  A job the policy gates was made with an approval for its node.
* **registry** - registrations that overlap, share rows and lock them in different
  orders, an indexer and caches behind them.  Rows follow the last report; a search ranks
  all that it found, from its own reads or from a kept ranking of the same; caches are
  dropped when they are stale.

`PROJECT.json` lists every hazard with the line where it bites and the properties that
would catch it.

## 2. Modules

| Module | Models | Instance |
|---|---|---|
| `JobStatusMachine` | statuses, `VALID_TRANSITIONS`, the walk `_reconcile_to_terminal` makes along it | (used by every module about jobs) |
| `JobContract` | abstract: a job is submitted when its keys are free, handed out once, settles once | refined by `JobRuntime` |
| `JobRuntime` | the Center's handlers and scans, one transaction per action | `MCJobRuntime` |
| `JobRace` | the same handlers split where they await: read and decide, then write | `MCJobRace` |
| `LinuxNode` | the Rust daemon, the lossy network and the endpoint's dedup; every step at the Center is an action of `JobRuntime` (`Center == INSTANCE JobRuntime`) | `MCLinuxNode` |
| `WinNode` | the Windows daemon, which sends everything once, over the same `Center` | `MCWinNode` |
| `CrocNode` | one end of a file transfer on a node: ledger, yq-croc process, files | `MCCrocNode` |
| `Approval` | abstract for calls: one approval, handlers split into load, commit, consume, create | refined by `CapabilityCall` |
| `Operation` | the operation of a job, its log and its notification | `MCOperation` |
| `TransferPreflight` | pure: what a preflight asks the two nodes and when it allows the transfer | (used by `Transfer`) |
| `Transfer` | a transfer session of the Center, its attempts, their two jobs | `MCTransfer` |
| `AgentSession` | the streams, runs, waits and reports of one Agent session | `MCAgentSession` |
| `ToolRound` | the loop of one run between the provider and its tools | `MCToolRound` |
| `AgentPlan` | pure: the steps the Agent draws up from the functions of a node | (used by `Maintenance`) |
| `Maintenance` | a maintenance plan and its runs | `MCMaintenance` |
| `CapabilityRegistry` | registration, index, search and cached context of capabilities | `MCCapabilityRegistry` |
| `SessionMemory` | the conversation of a session, what YCR remembers of it, and the packet each step is built from | (part of `SessionSystem`) |
| `CapabilityCall` | the way of a tool call to a job, with `Approval`'s handlers, while nodes register again | (part of `SessionSystem`) |
| `RunState` | the row, task state and plan of one Agent run, and the transactions that write them | (part of `SessionSystem`) |
| `SessionSystem` | the three before, one of them per behaviour | `MCApproval` |
| `JobRuntime_proofs`, `LinuxNode_proofs`, `WinNode_proofs` | theorems about the module they are named for | checked by tlapm |
| `Race_proofs` | theorems about `JobRace` and `Operation` | checked by tlapm |
| `Transfer_proofs` | theorems about `Transfer` and `CrocNode` | checked by tlapm |
| `SessionSystem_proofs` | theorems about `Approval`, `CapabilityCall` and `RunState`, as parts of `SessionSystem` | checked by tlapm |
| `Agent_proofs` | theorems about `AgentSession` and `ToolRound` | checked by tlapm |
| `Center_proofs` | theorems about `Maintenance` and `CapabilityRegistry` | checked by tlapm |

### JobRuntime

`status`, `lease`, `inv`, `node`, `beat` are the columns; `held` is the set of held lock
rows per key; `admitted` is the gap between resolving a capability (where the node's
liveness is checked) and writing the job row; `asked` is a history variable with the
answer a canceller got.  Actions carry the names of their handlers.  Abstracted:

* *time*: a lease is none, live or expired; a heartbeat none, fresh, late or stale;
* *poll order*: the code takes the oldest queued jobs; the model any subset of the same
  size, which contains it;
* *one job per invocation*, the only kind `_execute_node_job` creates;
* `job.event` (progress and timeline only), history rows, payloads.

The transition table decides what is refused: a cancel of a claimed job raises, because
there is no claimed -> cancelling (README.md:494 and the docstring of `cancel_job` list
one), and the model answers "refused".  The startup recovery gives expired leases a
grace window (README.md:782 speaks of `timeout_job()`); when that scan fails, which is
only logged, leases stay expired: `RestartCenter` has both.

### JobRace

A session's plan (`txn[s]`) is what its handler decided on the rows it read; `Commit`
carries it out by primary key.  The scanner has a session of its own.  Where the code
reads a row *after* an UPDATE of the job (the invocation in `handle_job_finished`), the
row lock of that UPDATE makes read and write one step, which is why
`InvocationWrittenOnce` survives and `TerminalWrittenOnce` does not.  Node liveness is
left to JobRuntime.

### LinuxNode

Each job's task has a stage of `execute_job`; `call` is its request in progress with the
number of attempts.  `Arrive` records the message id (committed before the handler
runs, `api/routes/yqp.py`); `Process` is the handler's commit together with an answer
that may be lost; `ArriveAgain` is the 409 for a retry, which the client takes for
success (client.rs:133), although the first attempt may have failed or be running
still.  job.accepted and job.finished go through this network; a poll, a heartbeat and a
renewal are single steps whose *answer* may be lost (their retries change nothing at the
Center, because they are duplicates).  A crash loses tasks and calls and keeps the
store; requests already recorded at the Center are still processed.  The entry in
running_jobs is assumed to exist once the task is spawned; the Rust code inserts it
first thing in the task.  Only long-running capabilities (`LONG_RUNNING_CAPABILITIES`)
renew leases and watch a cancel token.

### WinNode

`stage` says where execute_job stands, because that decides what a failed send does
(`Raise`): inside the `try` the general handler reports the job as failed, even after the
function succeeded; before it, or in an except clause, the task ends.  `listed` is
self.jobs and `local` its statuses; `stored` and `reported` are the SQLite rows, the only
state a crash leaves.  A send is one step with three outcomes: answered, refused (409),
or given up (`Lose`), after which the request may still reach the Center (`pending`,
`Late`).  `MaxLosses` bounds what is given up.  The bootstrap sends what is in memory
and every result not reported (`known`); the Center commits entry by entry (`Entry`), and
one result its state machine refuses answers the whole reconciliation with 409
(`EntryRefused`), so the daemon bootstraps again.  The answers are applied to whatever
the jobs have become meanwhile (`Reconciled`).

Abstracted: a poll's answer is applied in one step with the Center's commit, or lost; a
reconciliation the daemon gave up on is not worked on further at the Center; a
lost poll answer leaves its jobs claimed and unknown to the daemon.  Worth knowing: a job
whose job.accepted fails stays "running" in self.jobs without a task, and its slot is gone
until the process restarts; capacity is reduced by the running jobs at both ends
(daemon.py:413 and handle_job_poll), so a daemon with a free slot may be offered nothing
(`FreeSlotIsOffered` does not hold).  In both daemons' modules the ageing of heartbeats and the offline scan are left to `JobRuntime`, whose
steps theirs are.

### Approval

`doing[r]` is what a handler in progress has decided and not committed.  `Consume`
commits before `CreateJob` (execution_runtime.py), so README.md:603, "one step", does not
hold across a crash or a lock conflict: the approval is spent and `stranded` counts the
invocations left running.  `alone` records that handlers never overlapped; the lifecycle
of README.md:580-584 is shown under it, or while no handler is in progress.

### Operation

The row a user or an Agent waits on is a projection of its job.  A status request, a
cancel and each round of the scanner opens a session (`doing[s]`), loads the operation and
then the job (`read[s]`).  What it concludes is flushed by its next query, so it takes the
row's lock, perhaps after waiting for another's commit, before it looks for the newest
event number and the notifications ("writing", "cancelling", "reporting"), and keeps it to
its own commit.  What it loaded first may be old by then, and is what it writes.  A cancel
of what is over has nothing to flush and takes no lock ("adding").  Session 0 is the
scanner's, which is one loop; requests share the others (`FirstFree`: they are all alike).
The log is the rows of `operation_events` in the order of their commits, with the number
each session computed as max + 1.  `Slow` lets the scanner find an operation that has not
moved for an hour (its second pass).  Abstracted: progress values, the payload of events,
who asked for the cancel.

### TransferPreflight and Transfer

An intent is what `_transfer_intent_hash` is made from, as a record of what the checks read
(equal hashes are equal intents), a probe the facts both nodes answer to `stat` and
`status`.  `_transfer_preflight_failures` looks at them in the order of the code, stage by
stage.  A preflight leaves a row that is good for a while (it may be over when it is
written: the time counts from before the inquiries); rows are made and run out before the
session is, because nothing reads them after (`MaxPreflights`).  A request may give a
reason to do without a preflight; the code then takes it whatever became of the one it
names, failed and over included, and notes it in the session's metadata (`skipped`).

`create`, and each resume, is a request that works for minutes (`step[a]`): it commits
the session, creates the sender in another database session, polls it, creates the
receiver, and names both in the session's row.  `ref` is what the row names; jobs move by
themselves; refreshes and cancels from outside rewrite the row from the jobs it names.
A request may be cancelled by the in-flight registry (`cancel_transfer_create_inflight`,
which cleans up what it knows), or be lost with its connection or the Center.  Abstracted:
nodes, addresses, codes, the timers of the readiness polls.

### CrocNode

One transfer seen from one node of either platform, chosen in `setup` with the role, the
resume mode, whether a target path is named and what is expected there: nothing, a size,
or a hash with its size (`check`).  `Verified` is what such a check may say: a hash tells
the file; a size fits other files, is not compared for what came as a directory, and not
on Windows.  A task goes through `ledger_begin`, the preparation of the target, the process, the check
of what arrived and the final ledger write.  The Linux ledger is an SQLite row written by
single statements between awaits; the Windows one a JSON file whose whole read-modify-write
is one step of the event loop, except that a crash may tear it.  `place` and `entry` are
the two files the code distinguishes: the target path, and the newest other entry of the
output directory, which is what a receiver without a name takes for its own.  Processes
survive their daemon.  `excuse` records what happened to the ledger: raced for by two tasks ("raced"), taken over
by a reconciliation ("stolen"), torn by a crash ("torn"), or its row deleted and, the
daemon having died, not inserted again ("forgotten"); properties say which of these they
except.  Abstracted: content
(none, someone else's, partial, whole), bytes, rates, firewall probing, progress events.

### AgentSession

`step[r]` is the coroutine of stream `r`, `run[r]` the status of its run, `turn[r]` that
of the turn in which its reader keeps what the console shows, `marked` the in-memory set
that says a session has a stream (`agent_stream.py`).  A stream is opened by a message, a
resume, a request for a plan or the report of an operation (`purpose`); it thinks, acts,
and then waits, answers or fails; one that plans has no run.  The operation a run waits
for ends at any time, and its notification (`note`) is claimed by the reporter, which
opens a stream of its own in the session and then closes the run that waited, or is taken
and marked by somebody else over HTTP.  `DecideApproval` and `promote` are approve-and-run
moving a run, and its turn, from its approval to its operation.  A client may go away
(`Disconnect`), which abandons the coroutine, as does a provider that does not say in time
what a plan is wanted for; `CenterRestarts` empties the mark and keeps the rows.  An answer the gate does not let through stays in the stream's hands: when a later wait or
failure ends the stream, agent.completed is sent after all (`held`), so the turn says
succeeded, and the reporter counts such a report as completed.  A turn
without a message of the user's ends the earlier ones of that kind that are still open
(`create_agent_turn`), whether their streams are over or not; the next event of such a
stream opens its turn again (`Continue`).  Abstracted: what is said; several waits of one
run (that is ToolRound).

### ToolRound

One run as seen by its loop: `calls[s]` are the provider's calls of step `s` with what has
become of each, `group` those executed as concurrent tasks, `queue` the ones executed one
after the other (a set: `Foremost` is the next, unsafe calls first and in the provider's
order), `results` the answers in the order the stream met them, `history` what
the provider reads next.  `Together` and `Serial` are the partition: safe calls that own
all their keys run together, everything else in turn.  `Preflight`, `Partition`, `StartConcurrent`, `StartSerial`,
`Poll`, `Record`, `Observe` follow `tool_stream.py` and `agent_stream.py`; `Execute` is
the whole of `CenterExecutionRuntime.execute` for one call, with the policy matrix
(`check_policy_l2`), the lock another call's job holds, approvals, transfers and
operations as its possible answers.  A call's `job` is in flight until `JobEnds`, also
when the call was answered as an operation, given up at the deadline (`late`), or failed
in a poll; a call on the same resource may start beside such a job, and `CallsApart` says
when.  A stream that
fails or is left by its client leaves its concurrent tasks running.  Abstracted: which
node, arguments, what the provider says; checks that need the registry are "may fail".

### AgentPlan and Maintenance

`AgentPlan` is the choice of functions in `agent_service.py`: a check, perhaps a repair, a
verification, made from the functions the node lists and the calls the provider proposed.
A tool keeps what the choice reads: its effect, its family (the first part of its name),
what its name says it is for, the rank of its verb and its place in the alphabet.  What
the provider proposes is an arbitrary member of `answers` or nothing, with names of
functions that do not exist among them.  `Plans` are the Agent's and those asked for step
by step; a behaviour of `Maintenance` is about one of them (`planned`).

`execute_plan_run` works on `copy[r]` and `mine[r]`, its copies of the steps and of the
run, while cancels, rejections and starts of others write the rows.  Each step that runs
is a job (`StartJob`, `JobEnds`, `StepRaises`); a gated step presents the plan's linked
approval, which is verified and consumed.  `finalize_run` decides the end from the rows.
`trouble` records that a job failed or anyone refused, cancelled or died.

### CapabilityRegistry

`handler[h]` is the transaction of one `handle_register_capabilities`: it locks the node's
key, deactivates the node's sources, merges what is reported into the shared definitions
one row after the other (`wrote` are the rows it holds), derives the status of what was
dropped, queues index jobs for documents that have none, and commits.  A transaction that
needs a row another holds waits; when transactions wait for each other the database ends
one (`Deadlock`).  Behind it stand the index worker, a search with its cache of rankings
kept per version of the registry, and the cached context of a turn.  A capability's
document tells apart only the nodes that offer it.  The worker takes `BatchSize`
unfinished jobs at a time, whichever they are (the code takes the oldest, which these
contain).  A search reads its candidates at one version of the registry (`began`),
takes the ranking kept for the version there is when the query is embedded or makes one of
its own, and answers with the candidates that are in it (`named`); `outdated` remembers the
versions for which a ranking was made of candidates read before.  Reading
the candidates, queueing and committing is one step of the search.

### SessionMemory

`rows` is the table agent_messages with the order of created_at; `stream[s]` a turn in
progress with the history it holds (`hist`), what its save will insert and delete
(`add`, `drop`), and what its packet allows it to invoke (`allow`).  The times of a save are
the positions of its messages after the last time given out; a load takes the rows by
rank; `truncated` remembers that a load met more rows than it takes.  `Save` reads and
decides, `CommitSave` writes: turns of one session overlap (the mark of AgentSession
keeps the reporter out, not a second user), so two may trim the same table.  A turn that
reports an operation saves no user message.  `Compact`, `WorkingSet`, `Candidates`,
`Strategy` and `Allowed` follow build_agent_context_packet and the allowlist the stream
derives from it; `refs` is one reference per tool call, `facts` and `artifact` the
session state.  A message that two turns insert violates the unique id, and the later
save is lost whole.  Abstracted: text, the summary, what a search ranks first (any
source), the schedule inside a round of calls (ToolRound), scores and ages of facts
beyond most recent first.

### CapabilityCall

A call goes through the stages checked, started and a job; the two reads of a
capability's risk are apart: preflight and capability.invoke look at the shared
definition (`listed`), the runtime's policy at the row of the node resolved (`offer[n]`).
`Report` is node.register, which writes both, `Withdraw` a registration without the
capability; `Lose` ages a node out of admission.  capability.invoke wants one active
source: a call that names no node is refused as ambiguous while two nodes have one, be
they up or not.  Of the input a call only knows whether it `fits` the schema.  The
approval is `Approval`'s: `Present` and `RunApproved` are its `Verify` and `VerifyOwn`
for a node, `DispatchApproved` its `CreateJob`.  `made` remembers of each job the node,
the decision it was made under and whether an approval was presented.  The setting
approval_bypass_enabled is false, its default (config.py:61).

### RunState

`row` is AgentRun: the status, and of its metadata the task state (`task`) and what the
run waits for (`waits`); `plan` the status of its plan.  The stream records each result,
wait, gate and end in a transaction of its own (`StreamReads`, then one `Commit...`), and
others write beside it: approve-and-run, the projection of an operation's end, and the
reporter.  A commit writes the metadata whole (`Write`), so one that overlaps another
loses it; `lost` remembers that it happened.  A decision that only approves or denies
does not reach the row: the endpoint commits the approval, then flushes the run's event
and closes its session, which rolls it back (`Decide`).  `missed` are the calls whose
approval was so decided, and those that ended before the run waited for them.
`Decided` is decide_next_action, `Repair` and `Block` the reducer's blockers, one per
error code: a member of `Repairable` or `Plain` is an error with its words and details,
`CodeOf` its code, which errors of both kinds may share; a step of the plan takes the id of the call that waits.  `call` is chosen when
the provider answers: which tool, and what comes of it.  Abstracted: the text of answers
(one with tool-call protocol in it is sent back like one with a repairable error, but
for no error), evidence and progress summaries, and the plan's steps.

### SessionSystem

The three modules share nothing but the call a round makes, so a behaviour takes the
steps of one of them (`part`), chosen at the start: the run is about all three, and
explores the sum of their states and not the product.

## 3. Runs

| Run | Instance and bounds | What it shows |
|---|---|---|
| `job` | 2 jobs sharing k1 (one needs k2 too), 1 node, polls of 1 or 2 slots, 1 restart | refinement of `JobContract`, in which a key has one owner; under fairness expired jobs settle and their lock rows go |
| `race` | 2 jobs, 1 key, 2 requests at a time and the scanner, 5 requests in all | an invocation's outcome survives stale writes; scanners settle the rest |
| `node` | 1 long-running job, 2 retries, 1 restart of the Center, 2 crashes of the daemon | runs once, real outcome, the job settles, the slot comes back |
| `win` | 1 job, 1 slot, 2 lost requests, 1 restart of the Center, 1 crash of the daemon | recorded successes happened, nothing unreported is forgotten, the daemon reconnects |
| `croc` | senders and 7 receivers (every resume mode; a hash, a size or nothing expected), 2 jobs with 2 attempt numbers in any order, 1 crash, 1 reconciliation | an attempt has one process, a delivered file stays, attempts end in the ledger |
| `approval` | memory: 3 turns, 2 at a time, 2 steps each, 3 sources of which n3 takes artifacts and n1 makes them, tables of 4 and 6, windows of 3 and 2; call: 2 nodes, 1 call, 2 approval handlers at a time and 3 in all, scanner and clock, 2 registrations or losses; run: 2 calls of 2 tools, at most 2 in one answer, 3 errors of which two share a code and one of these is repairable, 3 iterations, 1 exception | gated jobs have their approval, the messages sent are a whole conversation, what was found can be invoked, no answer over a repairable error, what is pending is open |
| `operation` | the scanner's session and 2 of requests at a time, 1 cancel, slow operations | every end is noted once; event numbers go up; alone, the log is a history; the operation settles |
| `transfer` | 1 session that is asked for in 5 ways, 2 preflights with 3 answers of the nodes, made with them or with a reason to do without, its first attempt and one resume | no live job out of reach; the operation settles |
| `agent` | 3 streams, 2 of users, 1 client that leaves, restart, notification handled by somebody else or blocked answer, operations end with a timeout | the mark tells the truth, turns and runs agree but for blocked answers, waits end |
| `round` | 2 steps, 8 lists of calls over 8 tools, 2 tasks at a time, 3 calls at most | one answer each in order, jobs on one resource apart, nothing left behind but by exceptions, the stream ends |
| `maintenance` | the plans of the Agent for a node with 5 functions of 2 families and 3 answers of the provider, and one asked for with lenient steps; 3 steps, 2 runs | success is whole, gated steps and the Agent's steps that write on their own approval, requests return |
| `registry` | 2 nodes, 2 capabilities, 2 handlers, 2 reports, batches of 3 jobs, 1 failed job, 1 search | rows follow the last report, contexts are not stale, searches rank what they found, documents get indexed, registrations end |

Why the bounds are enough to be interesting.  Two jobs on one key give every contention
acquire_lock distinguishes; two keys on one of them make the conflict partial.  Two
sessions and the scanner are the smallest set in which a stale read meets a commit; five
requests let a job be created, polled, accepted and then be the subject of two handlers
at once.  One job between the daemon and the Center suffices for lost and repeated
messages because messages of different jobs have different ids and meet only in the
capacity; that the Linux daemon keeps its capacity is a theorem (`CapacityKept`).  Two
jobs with two attempt numbers contain a repetition, a newer and an older attempt, and a
process that outlived its daemon.  Two attempts of a transfer contain a resume beside
jobs of the attempt before.  The five ways are one over a relay, one that must not find
its target, and three that a check refuses; the three answers are a good one, a relay that
is not reached beside a directory that exists, and none of the target: so a preflight is
allowed, fails, or is for something else, and the second may be good where the first was
not, or the other way round.  Three streams contain a user's stream beside a report and
the report of a report; every end of an operation is treated alike except for the words
of the report, so one outcome is instance enough (`RunEndsAsOperation` is proved for all).
In `approval` the tables are as small as they can be and still cut: 4 messages kept are
less than a turn with two calls writes, so a trim meets calls and answers of the turn
before and of the one beside it; 6 loaded are more than the window of 3, so a summary stands
for calls whose answers are named no more; a working set of 2 is passed by 3 sources.  The
registry finds nothing for the objective (`Matches` is empty), because what it finds only
adds to what the conversation found.  Two registrations are one between preflight and
resolution and one between decision and job.  Two calls are an error and what repairs it,
or a wait and what comes beside it.  Two errors of one code are what hides whether a
blocker can be repaired.  The plans of `round` contain three safe calls for two tasks, calls that share a resource in
both orders, two that wait in one answer, a job past its deadline, and a job that outlasts its call
before another on the same resource (scan, then look).  The plan
`maintenance` asks for has a condition, dependencies, a gate and lenient steps; the
provider's answers name a function that reads and one that writes, one that does not exist,
or nothing, and the functions that write belong to both families and list before those that read.  In `registry`, n1
drops what it offered, for the other capability or for nothing, while n2 offers both and
locks them in the order in which n1's dropped row comes last; a job may fail, so a document
is wanted again while a failed job has its id, and there are then more unfinished jobs than a
batch takes.  Restarts, crashes, losses, drops, reports
and failures are bounded in the guards by the constants named for them.
`CHECK_DEADLOCK FALSE` because every instance legitimately ends when its jobs are settled
or its requests used up.

Two requests beside the scanner in `operation` are one that holds the operation's row, one
that waits for it with an old job, and a third whose read is older still; the scanner's
session is never taken by a request, so it repairs what the last of them wrote.

*Fairness.*  The scanners loop over sleep and scan for as long as the process lives and
survive their own exceptions, so their scans are weakly fair, and so is the passage of
time (a lease runs out unless it is renewed; renewals end with the function, which has a
timeout).  In `JobRace` a handler that has read eventually commits or dies.  In
`LinuxNode` tasks of a running daemon go on and requests have timeouts.  In `WinNode` the
bootstrap is retried for as long as the process runs (`_bootstrap_until_connected`) and a
handler that has a reconciliation works through it.  In `CrocNode` tasks go on, and kill
their process at its deadline.  In `Operation` sessions go on, jobs have leases and so end,
and the scanner opens its session again and again; weak fairness is enough, because no
request takes that session.  In `Transfer` polls of the request have deadlines, and jobs
move.  In `AgentSession` what goes on of itself is one weakly fair disjunction: its steps
only go forwards.  In `ToolRound` the event loop runs what can run and time passes;
nothing makes a job end.  In `Maintenance` the executor goes on, its jobs have deadlines.
In `CapabilityRegistry` PostgreSQL queues those who wait for a row, so each registration
that can move again and again does (strong); the worker looks for jobs every five seconds,
but embeds only while no search does, so it is fair only for that.  No fairness is
assumed of polls, of messages arriving, of a dead daemon or Center being started again, of
users, of searches being made, or of administrators.  `approval` checks safety only and
assumes none.

## 4. Proofs

tlapm checks the following for all jobs, nodes, keys, sessions, runs, steps and bounds;
the assumptions are the named `ASSUME`s of the modules (bounds are naturals, `KeysOf` maps
jobs to sets of keys, an error code is none of the words for other outcomes
(`RunAssumption`), a batch is a sequence of calls (`MemoryAssumption`), the marker for
"nothing stored" is no capability and no set of nodes (`NoneAssumption`), tools that share
a place in the alphabet are one (`ToolAssumption`), the provider answers with names
(`AnswersAssumption`), what a database
holds is finite (`FiniteAssumption`), ...), which TLC evaluates in every run.  Two or three
components share a proof module where neither outgrows it: `Race_proofs` is about JobRace and Operation, `SessionSystem_proofs` about
Approval, CapabilityCall, RunState, SessionMemory and their composition, `Transfer_proofs`
about Transfer and CrocNode, `Agent_proofs` about AgentSession and ToolRound, `Center_proofs` about
Maintenance and CapabilityRegistry; the others bear the name of their module.  Every
inductive invariant named below was an invariant of its run before it was proved.

* **JobRuntime.**  `IInv` joins the types, lock coverage, mutual exclusion, leases,
  invocations, accepted cancels, and two strengthenings: an admitted job has no row
  (`AdmittedHasNoRow`), and a lock row belongs to a job that exists and needs the key
  (`LockRowsExplained`).  Mutual exclusion alone is not inductive: `CreateJob` only looks
  at lock rows, so it needs every open job to hold all its rows.  From it:
  `LocksExclude`, `LeaseAlways`, `InvocationSound`, `CancelFinal`.  `Immutable` (an action
  property) classifies every step as one of four moves and compares progress.
  `Refinement` reads the owner of a key off the lock rows: under `IInv` the blockers of a
  key are exactly the open jobs that need it, so there is at most one, stale rows belong
  to nobody, and each step is a Submit, a Start, a Settle or a stutter of `JobContract`.
* **JobRace.**  `RaceInv` adds what a plan in progress guarantees about the rows it will
  write (`PlanLeased`, `PlanCreates`, `PlanReports`, `ScannerTimesOut`): leases never
  become null again, so a plan to set a job running is safe however late it commits.
  From it `RacedLeaseAlways` and `OutcomeOnce`.
* **LinuxNode.**  `Composition`: the Center with the daemon implements `JobRuntime`, so
  its theorems carry over.  `ExecutedOnce` needs that untouched jobs are exactly those
  still waiting (`UntouchedWhileWaiting`, `FreshUntilExecuted`); `OutcomesAreReal` that a
  result exists before its message is recorded (`ResultsExist`).  `WorkIsDelivered`,
  `CapacityKept`, `TypeCorrect`.
* **WinNode.**  The invariant's heart is `SuccessesReal`: no success is remembered anywhere
  (in memory, in the store, in a reconciliation, in a request under way) before the
  function returned, so none can be recorded (`SuccessesAreReal`); and settled jobs stay
  settled while the daemon acts on old answers (`NothingForgotten`).  `ExecutedOnce`,
  `TypeCorrect` and `Composition` as for LinuxNode.  Most steps are shown to be `Orderly`
  (a task goes on, fails or ends; nothing new is claimed), which keeps every part.
* **Approval.**  `Granted`, `FinalIsFinal`, and `AloneIsSafe`, whose invariant ties the
  committed status to the single handler in progress.  `Implements`: CapabilityCall's
  behaviours are Approval's, so these hold for calls too.  `GatedIsGranted` needs that a
  started call was allowed at its node (`StartedIsAllowed`), that a handler works for the
  node the approval was asked for (`RunsWhatWasAsked`), and that there is no approved job
  before there is an approval (`Unasked`).
* **RunState.**  `AnswersAreRepaired` (no answer over a repairable error) rests on
  `AnswerInv`: before a run waits only its stream writes the row (`NoWaitNoOther`), so what
  a transaction read is still there when it commits, and the blockers are exactly the
  failures that no later success repaired (`BlockersTell`, `AllRepaired`); from the gate to
  the end nothing new is recorded (`AnswerPassed`).  `WhatIsPendingIsTold` needs
  `PendingInv` on top: approvals and operations belong to calls that wait for them
  (`CallsHaveKinds`), a transaction that overlaps another is the only way to lose a state
  (`lost`), so what each has read is the row's task or an older one whose waits it knows
  (`WaitsAreOld`), what is not recorded yet is open or was missed
  (`UnrecordedIsOpen`), the task tells what is open (`PendingTold`), and the status says which kind of wait it is
  (`StatusIsWait`).  A decision disturbs none of it: it changes the approval alone, and
  marks it missed (`DecisionKeeps`).
* **Operation.**  `Noted` (every end is noted, and once, however sessions overlap) needs
  the row lock: a session with a change to write holds it since before it looked
  (`RowHeld`), so the notifications and the event number it saw are still the ones there
  are (`HolderSees`).  The cancel that takes no lock is harmless because it saw an end
  (`AddsLate`), and of an end everyone saw a notification is there (`EndSeen`).  `LogTrue`
  says that numbers rise (`Rises`), which no event may pass (`SeqBound`), and is inductive
  for sessions that take turns only together with what a lone session knows (`AloneInv`):
  one session is open, what it loaded is what is committed (`FreshRow`, `FreshLoad`,
  `FreshLook`), and the operation never overtakes its job (`JobAhead`).  `CancelledTrue`
  adds that a job told to cancel can no longer succeed (`CancelKept`, `OrderedFrom`), from
  the transition table.
* **AgentSession.**  `EndsAsOperation` is an action property of the typed model (`Life`
  ties streams to rows).  `MarkTrue` and `Settled` share `TInv`: while streams take turns
  one is open at most, and a notification claimed belongs to an operation that is over
  (`OneStream`, `ClaimedIsOver`).  `Once` holds whatever overlaps, because a report is
  opened only by the claim it follows (`ReportsFollow`).  `TurnFollows` needs to know what
  the turn of a stream says at the steps that matter (`TurnLife`, `TurnStep`): another
  turn may end it, but not while it says that its run waits, and the stream's own last
  event sets it again, to succeeded when it was left with a blocked answer (`held`).
* **ToolRound.**  One invariant, `RoundInv`, proves the answers, the exclusion and the end
  of steps: the parts of a call's row agree (`RowsSound`), every call of the step that is
  not recorded is with the concurrent ones or in the queue (`CallsPlaced`), the results met
  are the recorded calls, each once (`ResultsTold`), the concurrent ones share no key and
  who is polled otherwise is polled alone (`GroupApart`), two jobs in flight that lock what
  they work on share no key, whatever became of their calls (`LocksApart`), and what earlier
  steps called is over (`EarlierOver`).  A job is started only where `Admitted` finds no such
  job (`StartsFree`, `StartedApart`), and a step that moves no job keeps them apart
  (`LocksStay`).  `OneAnswerEach` then comes down to two facts about operators:
  every set of calls has a foremost one and the owners of their keys exist
  (`OwnersExist`), and a permutation of a step's calls put in order is the identity
  (`ResultsInOrder`).
* **Transfer.**  `JobsReachable` needs `TransferInv`: attempts are numbered
  (`Numbered`), a request makes its jobs in order (`NotMadeYet`), the session names the
  sender from the commit on (`SenderNamed`), and with `alone` no other attempt has a live
  job unless its request was lost (`OneRequest`).  Steps that only move jobs are dealt with
  once, in `JobsMoveOnly`.  `LookedAtFirst` says it of every session that is not marked as made with a reason
  to do without; it rests on `NoFailureIsReady` - that looking stage
  by stage leaves no failure unseen - and on the rows telling what was seen (`RowsTell`).
* **CrocNode.**  `AttemptsRunOnce` says of every two jobs with one number that one of them
  has no process.  That is not inductive: what was admitted once must stay visible in the
  ledger, or in a task that is just replacing its row.  `LedgerInv` says so
  (`LedgerIsNewest`, `OnePrepares`, `PreparedIsNewer`), and so the numbers of admitted jobs
  differ.  `WholeStays` and `ProcessesTakeTurns` extend it by who works: while `excuse` is
  empty the ledger is of the attempt whose task or process is alive, even after its daemon
  died (`LedgerTellsWhoWorks`), so nobody touches a file the ledger calls succeeded.
  `WholeStays` is about attempts checked by a hash: a size, or no check, does not tell what
  was received.
* **Maintenance.**  `JobsAreGated` follows from types, the shape of `StartJob`'s guards,
  and `WritingIsGated`: on a node with a function that reads, what the Agent looks with is
  one (`CheckIs`), what it repairs with writes (`RepairIs`), and the repair is gated - for
  every list of functions and every answer of the provider.  A least rank and then a least
  place exist by well-foundedness (`LeastIs`, `ForemostIs`).  `Wholly` needs that with one run its copies are the rows except for what a
  cancel wrote behind its back (`CopyIsTrue`, `Begun`, `OneRun`), so a failed step is
  still there when `finalize_run` looks.
* **CapabilityRegistry.**  `RegistryInv` says what a transaction that holds its node's lock
  knows: what it replaces is all the node has, what it has merged and has still to merge is
  its manifest, and nobody else holds that lock (`TransactionSound`), so `ReportReplaces`
  follows at the commit.  `ContextIsCurrent` needs time: while registrations take turns the
  one under way is newer than every source (`TakingTurns`), a fingerprint read is never
  ahead of the newest source (`FingerprintsPast`), and one that is level with it was read
  after the last change of a row (`SnapshotFresh`).  `AnswersRank` is about what is kept: every ranking in the cache, and every answer
  about to be given, ranks all the candidates of the version it is filed under, unless a
  commit moved that version past a search that had read before (`RankingsFit`, one lemma
  for each step that could disturb it).
  `StatusesFollow` is a second induction over the first (`StatusInv`): what a transaction
  dropped is still to be derived or has the status that follows from the sources it sees
  (`Derived`), which without overlap are the ones it commits to.  Most steps of a
  transaction touch nothing committed; `InnerKeeps` and `TurnKeeps` treat them once.

* **SessionMemory.**  `PacketIsWhole` speaks of one history at one moment; what it needs is
  a property of all that is written anywhere.  `MemoryInv` has four parts.  `Timed`: the
  rows of the table and those on their way into it (`Written`) have times of their own, so
  the rank of a row is its place in a load (`RankIsPlace`, `HistoryHoldsNewest`; the
  loads, being ranks, need no induction over data).  `NamesInv`: a message id means one
  message wherever it is known, a turn's next id is past every known one, a call is named
  after its message and an answer after its call, so a call has one message and one answer
  (`SameCall`, `SameAnswer`).  `Grouped`: all that is written is one conversation
  (`Conversation`), and the table, every insert and every delete of a save in progress
  keep a call together with its answers (`KeepsTogether`), so whichever saves commit, and
  in whatever order, the table stays a conversation (`KeptUnion`, `KeptInPart`,
  `PartConverses`).  And the types.  `Grouped` is only claimed while no load was cut:
  without that it is false, and TLC finds the counterexample in six turns.  Then a
  trim deletes with a call its answers (`TrimKeepsTogether`), a save of a whole history
  inserts whole groups (`NewRowsConverse`), a round appends one (`RoundConverses`), and a
  window that begins at no answer is whole (`CompactIsWhole`).
  `FoundStaysInvocable` joins `FoundInv` to it: whoever waits for the provider has a
  reference for every answer, and what those name was allowed when the packet was built.
  References are only overwritten by a call of the same name, and `NamesInv` says that no
  earlier answer has the name of a new call, so what a conversation found never changes
  while other turns store theirs (`FoundRound`).  That the packet allowed it is a chain of
  facts about the operators: a list is joined from its parts and loses its repetitions by
  first places (`JoinedIs`, `DistinctIs`), a limit no smaller than what a list begins with
  leaves that (`BeginningStays`), and an order only permutes (`OrderedIs`,
  `PrioritisedIs`).  Working sets are therefore written with ranks instead of folds.  Both
  theorems assume `MemoryAssumption`: the limits are naturals, a batch is a sequence, the
  registry finds finitely many sources and every candidate has a rank.

Proved and not checked again by TLC: the type invariants, `NeverReopened`,
`LocksCoverJob`, `LeaseCoversDelivery`, `InvocationAgrees` (JobRuntime),
`LeaseCoversDelivery` (JobRace), `ImplementsCenter` of both daemons, `RunsOnce` of WinNode,
`WorksOnDelivered`, `CapacityRespected`, `JobsAreGranted`, `UsedOnce`, `FinalOnceQuiet`,
`DeniedNeverRuns`,
`MutualExclusion` (it follows from `ImplementsContract`), `CancelledMeansNoSuccess`,
`RunEndsAsOperation`, `CancelSticks`, `ReportedOnce`,
`OneAtATime` (CrocNode), `StatusFollowsSources`.

Only model-checked.  Everything under fairness (`ExpiredJobSettles`, `RacedJobSettles`,
`DeliveredSettles`, `SlotReturns`, `Reconnects`, both `OperationSettles`,
`WaitsEnd`, `RunReturns`, `RunningEnds`, `StreamReturns`, `CandidatesGetIndexed`,
`RegistrationEnds`): the prover has no rules for ENABLED.  Every safety property a run
checks is proved as well; `Transfer.CreatedOnFacts` is proved and in no run.

## 5. What the code does not do

Stated in the modules, found violated by TLC, and excepted from the properties above.

| Property | What is said | What the code does |
|---|---|---|
| `JobRuntime.InvocationFollowsJob` | node_service.py: "update Invocation when all Jobs terminal" | an invocation whose job is cancelled, timed out or reconciled stays running |
| `JobRace.TerminalWrittenOnce` | job_state_machine.py: "Terminal states are immutable" | a stale session commits over a terminal status |
| `JobRace.LockExclusive` | acquire_lock: "Raises ValueError if the resource is already locked by another active job." | two creations both find the key free; there is no unique constraint |
| `LinuxNode.UnreportedStaysUnconfirmed` | a result the Center did not take stays unconfirmed | the 409 for a repeated message counts as an answer |
| `LinuxNode.ConflictingWorkExcluded` | a key belongs to one job | a timed-out job still executes beside its successor |
| `WinNode.FreeSlotIsOffered` | tests/test_protocol.py: capacity is filled | running jobs are subtracted twice |
| `CrocNode.RepeatIsHarmless` | transfer_ledger.rs:5: idempotent per attempt | a job that overwrites removes the file before the ledger refuses it |
| `CrocNode.FailureIsRecorded` | docs/linux-node-development-contract.md:526 | a failed check after a good exit leaves the entry running |
| `CrocNode.OthersStay` | - | a receiver without a name takes the newest entry, whatever it is |
| `ToolRound.NothingForgotten` | - | of several waits in one answer the run remembers the last |
| `ToolRound.OrderOfCalls`, `OwnLocksDoNotRefuse` | - | calls on one resource may be executed out of order, and refuse each other by the lock of a job that is still in flight |
| `ToolRound.NothingAfterTheEnd`, `FailedIsOver` | - | tasks of a stream that is over go on, and a call answered as failed may leave its job running |
| `Maintenance.PlanSucceeds` | tests/test_l2c.py:559 "All steps should succeed" | a plan's approval is presented for every step, gated or not (maintenance_executor.py:363), and fits one of them: the check before an approved repair fails |
| `CapabilityRegistry.RankingFollowsVersion` | docs/ycr-current-state.md:203 | the version is read after the candidates it is stored for |
| `CapabilityRegistry.IndexFollowsSources` | - | the last job to be embedded leaves the index, whatever document it had |
| `CapabilityRegistry.RegistrationNotRefused` | docs/ycr-current-state.md:205 | a job's id is made from its document; one that failed refuses the insert, and with it the registration |

Also met while modelling, and in the text of no property: two executions that overlap both
use one approval (tests/test_l2a.py says a consumed one cannot be reused; `UsedOnce` is
about handlers that take turns); an execution with an approval, and approve-and-run, look
at no policy again, whatever the node has registered since; a trimmed message that a turn
still holds is inserted again as the newest by that turn's final save
(agent_service.py:545), and two turns that insert the same one lose the later save, final
answer included; overlapping saves can leave more rows than a load takes: a turn
whose history was cut so may begin with answers, and saves them again once another turn
trimmed them with their call, so that later loads which are not cut begin with answers as
well (`PacketIsWhole` excepts a session in which a load was cut: `truncated`); the working set
keeps the oldest of what was found (context_packet.py:1228), so beyond its limit a new
find is refused as outside_working_set, which docs/todos/2026-07-08-post-basic-runtime-closure.md:270
records; once an artifact is bound, the candidates are ordered again and facts may push
out what the conversation found (`FoundCanBeInvoked` counts them then); a deleted
session's history comes back with the save of a turn in progress; a stored status may be older
than the sources it is derived from after registrations overlap; a definition's risk is
that of the last node that reported it; an approval keeps only the first of several
resource keys; a run whose last save fails after it succeeded leaves its session marked;
docs/todos/2026-07-08-post-basic-runtime-closure.md disagrees with the completion statuses;
the gate on a final answer keeps it back only for a repairable error, not for the decision
to wait; such an answer is kept all the same (agent_stream.py:1121, 1154), and when the
stream then ends in a wait or a failure agent.completed is sent with it (agent_stream.py:1398):
the turn succeeds, the blocked text is saved as its answer, and the reporter counts a
report that failed so as made (`TurnFollowsRun` excepts `held`); an operation that ends
before its run waits for it is never taken off the task state, and neither is an approval
that is only approved or denied, because the two endpoints flush the run's event and
never commit it (agent_run_resume.py:89, admin_approvals.py:202-217 and 239-255;
`PendingIsOpen` excepts both: `missed`); a blocker is filed under its error's code, so a
later plain error of the code overwrites one that could be repaired, and the gate opens
(`AnswerIsRepaired` excepts it); a cancel of an operation that is over takes no lock and
may use the number of an event that another session is writing (`LogTellsTheLife` excepts
it); of a transfer the node daemon deletes the row of an older
attempt and inserts the new one in two statements, so that a daemon that dies between them
forgets the attempt and runs it again when its job is repeated, and one that reconciles
between the end of a process and its record calls a transfer interrupted that succeeded
(`AttemptRunsOnce` and `DeliveredStays` except both); metadata_json is written whole, so of two
transactions that overlap one loses its state (`lost`); results the context service cannot
store fail the run and leave its plan active; a plan of the Agent's without a repair
numbers its verification 2 and makes it depend on step 2, which is itself: it is skipped
and the plan succeeds; on a node without a function that reads, what the Agent looks with,
ungated, is the function that is listed first (`Writing` excepts such nodes); a transfer
that must not find its target file is refused when the target's directory exists, because
that is what the preflight looks at (transfer.py:182, transfer_helpers.py:223), and one
between a node and itself passes the preflight that its creation then refuses.

## 6. Not modelled, and what could follow

Left out for good: presentation (console, desktop UI), authentication, artifact storage,
the wording of prompts and projections, the capabilities themselves (an arbitrary
outcome), table definitions beyond the constraints a module relies on.

Left out so far, by component: direct invocations of Center tools and dry runs; admission
plans (a description put into the result); the preflight of artifact
deployments (a read-only inquiry); how the rows of a turn are projected into messages;
operations of approvals;
progress events of jobs and transfers; signals; the timeline's bounded queue, whose stop
writes one batch of what is left; of YCR the projection of results into text.

What could follow: node liveness split into transactions as JobRace does for jobs; the endpoint's dedup as a
module of its own that both daemons use.
