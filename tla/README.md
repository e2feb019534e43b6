# StockBot: TLA+ verification

StockBot is a research assistant: a model-driven main session and its child
agents call Python tools through bridge processes, and a deterministic research
kernel records what they find, freezes it, has a committee analyse it and turns
the analyses into one answer. This directory holds the TLA+ modules that model
the parts of it where order, concurrency and failure matter, the TLC
configurations that check them, and theorems proved with TLAPS.

## 1. The system

| part | code | state it keeps | modelled by |
|---|---|---|---|
| Research kernel | `app/research/service.py`, `session.py`, `jobs.py`, `freeze.py` | the rows of `research.sqlite` | `ResearchKernel`, `SessionLifecycle` |
| Repository | `app/research/repository.py` | tables sessions, jobs, evidence, freezes, dossiers, journal | the store of `ResearchKernel`; the journal table in `Journal`, the dispatch transaction in `ToolDispatch` |
| Journal | `app/research/journal.py`, `service.py` `_emit` | an in-memory log per process | `Journal`, `AppendOnlyLog` |
| Tool dispatch | `service.py` `authorize_and_consume_dispatch`, `app/pi_gateway.py` | budgets and noted actions in the job row, a counter in the session row | `ToolDispatch` |
| Wave director | `app/research/director.py` | none (a function of the session and the analyses) | `MayAuthorize` in `ResearchKernel`; its stop operators planned |
| Stage gate | `app/research/stage.py` | none | `KernelStage` in `DirectorLoop` |
| Runner | `app/research/runner.py` | drives the kernel inside one process | only the row it leaves behind, in `DirectorLoop` |
| Agents, synthesis, dossiers, evals | `app/research/agents`, `synthesis`, `dossiers`, `evals` | none | no (text in, text out) |
| OMP extension | `.stockbot/omp/index.ts`, `lib/research-director.ts` | pending calls and permits; task and director maps of a main session | the client of `Bridge`; `DirectorLoop`; its calls are the clients of `ResearchKernel` |
| Bridge and gateway | `scripts/pi_bridge.py`, `app/pi_gateway.py` | sessions, recorders, futures, a thread pool of four per process | `Bridge`; the threads and processes of the kernel modules |
| Tools | `app/tools.py`, `tool_render.py` | none | no |
| Thesis engine | `app/thesis/*` | thesis YAML, checkpoint, triggers, journal entries | `ThesisMonitor`, `TriggerInbox` |
| SEC discovery and store | `app/sec/*`, `app/edgar_client.py` | filing store, branch ledger | later |
| Data clients | `app/finra_client.py`, `app/google_data`, ... | response caches | no |
| Storage | `app/storage/*`, `app/cache.py` | archive, parquet, runs | the run's row in `Bridge`; the rest later |
| Portfolio, Robinhood | `app/robinhood`, `app/services/portfolio_sync.py` | token file | no |
| Valuation, analytics, domain | `app/valuation.py`, `app/analytics`, `app/domain` | none | no (floating-point functions) |
| CLI, viewer, scripts | `cli.py`, `apps/harness-viewer`, `scripts` | none of their own | no |

**How the parts interact.** Each session binding of the OMP host spawns its own
`scripts/pi_bridge.py` process (`.stockbot/omp/index.ts:501`). A bridge answers
`research.*` requests in its main loop (`pi_bridge.py:1280`) and runs tool calls
on a `ThreadPoolExecutor(max_workers=4)` (`pi_bridge.py:99`). A tool call passes
the gateway (`app/pi_gateway.py:604-696`): stage gate, dispatch budget, handler,
heartbeat. The command line can cancel, retry and run sessions from one more
process. They all meet only in `research.sqlite`. A service call opens one
connection per store operation, so a call that reads a row, decides and writes
it back is three separate transactions, and `save_session` and `save_job`
replace the whole row.

A thesis is watched by another program, the worker (`app/thesis/worker.py`), or
by `tick` on the command line. A tick writes files under the thesis directory
and starts an OMP process per trigger; whether that run completed it learns from
`runs.sqlite`, which the run's own bridge writes.

**What is hard.** (a) whole rows saved from reads that are several store
operations old; (b) checks made on a row that changes before the write; (c)
calls of several store operations that stop half way; (d) retries of calls that
half succeeded; (e) a protocol of four callers over ten session statuses; (f)
two logs, one in memory and one on disk, that several threads and processes keep
in step without a common lock; (g) budgets counted in rows that others save;
(h) a client that gives up on a bridge which is still at work, and four permits
that must come back whatever happens to it; (i) several parties that may close
one row; (j) a checkpoint written after the work it covers; (k) a turn loop that
derives everything from rows after any call of it was lost. The file `PROJECT.json` lists these hazards at the lines where they bite.

## 2. `ResearchKernel`

One research session. The state is the store and, for every client (a service
call in progress), the step it is at and what it has read.

| variable | code |
|---|---|
| `session` | the row of table `sessions`: `status`, `wave` (current_wave), `frozen` and `latest` (freeze_ids), `runs` (committee_runs), `dossiers` (dossier_ids), `final` (the freeze cited by final_result) |
| `jobs` | table `jobs`: `type`, `wave`, `status`, `result`; status `none` is an id without a row |
| `ledger` | table `evidence`: the wave of each accepted finding |
| `freezes` | table `freezes`: the frozen waves and the evidence ids of each |
| `dossiers` | table `dossiers`: the waves that have one, and the verdict of the latest |
| `call` | per client the locals of the Python function: `ses` and `row` are rows read, `seen` the listed ledger, `todo` and `mine` the roles to create and the jobs started |

A step of a client is one store operation of its call; the labels name the next
one. A call that raises or returns early goes back to `idle`. What a call does
between two store operations is in the action of the second one. Actions and
functions:

| operation | actions |
|---|---|
| `create_research` | `Init` (one transaction) |
| `start_job`, `retry_job` | `StartJobRead`, `RetryJobRead`, `RetryJobSession`, `CreateJobCheck`, `CreateJobSaveSession`, `CreateJobSaveJob`, `SaveJobRow` |
| `run_research` | `RunResearch`, `SaveJobRow` |
| `complete_job` | `CompleteJobRead`, `CompleteJobStart`, `CompleteJobSave`, `AdvanceRead`, `AdvanceSave` |
| `fail_job`, `cancel_job` | `CloseJobRead`, `SaveJobRow` |
| `heartbeat_job`, `attach_job_runtime` | `TouchJobRead`, `SaveJobRow` |
| `cancel_research` | `CancelResearchRead`, `SaveSessionRow` |
| `record_evidence` | `RecordEvidenceRead`, `RecordEvidenceGate`, `RecordEvidenceSave` |
| `submit_source_result` | `SubmitRead`, `SubmitSession`, `SubmitDossier`, `SubmitLinkRead`, `SubmitLinkSave`, then as `complete_job` |
| `freeze_session` | `FreezeRead`, `FreezePlan`, `FreezeResearch`, `FreezeList`, `FreezeOpenJobs`, `FreezeSave`, `FreezeTrack`, `SaveSessionRow` |
| `create_committee_jobs` | `CommitteeRoles`, `CommitteeSession`, `CommitteeCheck`, `CommitteeSaveSession`, `CommitteeSaveJob`, `CommitteeRollback`, `CommitteeFail` |
| `record_committee_analysis` | `RecordAnalysisRead`, `RecordAnalysisGate`, `RecordAnalysisSave`, `RecordAnalysisTrack` |
| `decide_next_wave` | `DecideRead`, `DecideGate`, `DecideSettle`, `SaveSessionRow` |
| `finalize_session` | `FinalizeRead`, `FinalizeTrio`, `FinalizeOpenJobs`, `FinalizeWalk`, `FinalizeSynth`, `FinalizeResult`, `FinalizeSave`, `SaveSessionRow` |
| death of a bridge process | `Crash` |

Abstractions. One session: sessions share nothing but the file. No deadline:
`default_budget` leaves it unset. A scout job is a source job. `start_job`
starts source jobs, as the director does. Inputs refused before any write
(malformed analyses, unknown ids) are calls that did not happen. The journal,
absence artifacts and the `job_ids` list are left out; `tool_budget` and the
session's call counter too, their one transaction (`consume_dispatch_budget`)
changes no modelled field. The stage gate is left out (it is in `DirectorLoop`),
so the model allows more calls than the gateway does. SQLite errors are not modelled; a crash is a call
that stops between two store operations. `NewJob` takes the least unused id:
ids are random, and only their being unused matters; `run_research` takes the
oldest queued job, which is the least id while ids are given out in order.

`SessionLifecycle` is what a session promises its user: the phases it goes
through, that a wave is frozen once it has been researched, that nobody is heard
on a wave that is not frozen, and that the answer cites the latest freeze.
`ResearchKernel` implements it (`ImplementsLifecycle`) as long as one call runs
at a time, crashes included.

### Properties

For every interleaving and every crash, model-checked and proved
(`ResearchKernelProofs`):
`FreezesFromLedger`, `SessionFreezesStored`, `AnalysesGrounded`,
`RecordsImmutable`, `TypeOK`. They say that stale whole-row writes can lose
information but never make a freeze, a session row or an analysis cite
something that is not there.

While one call runs at a time, a bridge dying at any step of it:
`TerminalJobsStay`, `CompletedWhole`, `ImplementsLifecycle`. While one call runs
at a time and none dies: `FreezeCoversWave`, `AnalysesFiled`, `NoPartialTrio`.
All six are proved for any number of jobs and waves (`SingleCallProofs`,
`WholeCallProofs`). None of them is claimed beyond that, because the code does not keep it:
`kernel_revived` shows two overlapping calls that write a completed job back to
running. A freeze that died before it was tracked and is retried returns the
stored one without a finding accepted in between; an analysis that died between
the job's completion and its filing is never filed (`DirectorLoop` names that
state `Spent`).

### Runs

| run | clients, jobs, waves, findings | calls | distinct states | shows |
|---|---|---|---|---|
| `kernel_one_wave` | 1, 4, 1, 1 | all that lead to an answer, retries, closed jobs, crashes | 5,260,280 | the lifecycle is implemented and terminal jobs stay, however a call dies and what is called next |
| `kernel_two_waves` | 1, 8, 2, 2 | the Director's and its children's, no crash | 813,246 | the whole way to an answer through a second wave |
| `kernel_race` | 2, 3, 1, 1 | those of agents and director | 3.6 million | two calls interleaved at every store operation |
| `kernel_revived` | 2, 1, 1, 1 | submit, heartbeat | violation | a completed job is written back to running |

Bounds. Four jobs are a source job and a whole trio; eight are two of each.
Capacity refusals happen with `MaxParallel = 3` (a source job and two roles).
Two waves reach everything that depends on an earlier freeze. `MaxWaveCounter`
bounds `current_wave`, which the code increments without bound. `TwoUnfinished`
leaves out states with three jobs that failed or were cancelled; a third differs
from the second in nothing. In `kernel_two_waves` the constraint
`OneSourcePerWave` leaves out further source jobs of a wave and opens wave 2
after the freeze of wave 1. Symmetry is over clients and findings, which no
definition tells apart. Deadlock is not checked: a finished session accepts no
more calls, and the job pool is finite.

No fairness is assumed here: every property is a safety property. Whether a
session comes to an end depends on who calls, and is asked of `DirectorLoop`.

## 3. `Journal` and `AppendOnlyLog`

Every mutation of a session appends an event to a hash-chained table. An emit
lists the table and checks its chain, replaces the log its process keeps in
memory, takes the next number from that log under the log's lock, and inserts
the row, chained to the highest row there is. Nothing holds the four together.

| variable | code |
|---|---|
| `rows` | table `journal` of one session: sequence number to event and prev_hash |
| `log` | the highest number in each process's `_LOG[session_id]` |
| `pc`, `listed`, `sequence` | the next step of a thread's emit, what `list_events` returned, the number `append_event` gave |
| `emits`, `fate` | how many emits a thread has begun; whether the last was stored, refused or cut off by a crash |

| code | actions |
|---|---|
| `_emit`, `_decide_settle`, the runner's `_emit` | `Emit` (list), `Hydrate`, `AppendEvent`, `SaveEvent` |
| `ResearchRepository.resume` | `Resume` (list), `Load` |
| death of a process | `Crash` |

Each store operation is one step because the store's connection opens a write
transaction before its first query, and `append_event` is one step because of
its lock. A hash covers the previous hash and the whole event, so it is named by
the event's id. `_LOG` is kept as its highest number: the code uses nothing else
of it. `_emit` swallows what its steps raise, which is `Finish(w, "lost")`.

`JournalReadable` and the refinement of `AppendOnlyLog` hold when at most one
thread of each process emits (`WorkersApart`), however the processes race and
crash: the number an emit takes is then one past the table it listed, so a
racing emit can only find its number taken. A bridge runs four tool threads next
to its main loop, so the code does not guarantee that assumption.
`journal_shared` shows what two threads of one process can do to each other: the
one with the later number inserts first, the other chains its row to it, and
`list_events` raises from then on.

## 4. `ToolDispatch`

The tool calls of the source jobs of one session, as the gateway runs them: bill
the job and the session in one transaction, refuse a repeat that would bring
nothing new, note the action in the job's row, beat its heart, run the tool.

| variable | code |
|---|---|
| `row` | the job rows: `status`, `budget` (tool_budget), `seen` (`diagnostics["dispatch_actions"]`: action to evidence count) |
| `used` | `budget["tool_calls_used"]` of the session row |
| `service` | the counter in a session row some other service call has read and will save |
| `evidence` | the number of rows of the session's ledger |
| `expired` | the jobs whose deadline has passed |
| `pc`, `action`, `held` | the next step of a call, its normalized action, the job row it will write |
| `blocked`, `consumed`, `admits` | what happened: refusals journalled, slots billed, actions let through |

| code | actions |
|---|---|
| `consume_dispatch_budget` | `Dispatch`, `DispatchLate` |
| `_dispatch_loop_gate` | `Refuse`, `Admit`, `Track` |
| `heartbeat_job` | `BeatRead`, `BeatSave` |
| `record_evidence` with `_enforce_live_job` | `RecordRead`, `TimeOut`, `RecordSave` |
| any other call that saves the session row | `SessionRead`, `SessionSave` |
| time, death of a process | `Expire`, `Crash` |

Left out: unlimited budgets (`tool_budget` or the ceiling `None`), which refuse
nothing; the stage and domain gates, which only refuse; the tool handlers; the
budget per Pi run, which is not persisted. A refused dispatch changes nothing
and is a call that did not happen. Jobs here are running source jobs: what
closes them is in `ResearchKernel`.

The bridge runs four tool threads (`scripts/pi_bridge.py:99`) and nothing keeps
the calls of one job apart, so each property is stated, model-checked and proved
of calls that overlap. `RefusalsAreRepeats`: the gate never refuses an action it
had not let through at exactly that evidence count, as `service.py:3032` says.
`NoSlotTaken`: a lost write of the job's row takes no slot from the job, which is
"never block a fresh action" of `service.py:3071` for the budget.
`SessionNotOvercharged`: the session's counter is never above what was billed.

The opposite sides do not hold, and no property claims them. A lost write of the
job's row gives back what other calls were billed since it was read: with a
budget of 2, a call is dispatched and let through, a second one is dispatched,
the first then notes its action in a row that has one slot left, and a third
call is dispatched. A job can so be dispatched beyond its `tool_budget`, where
`service.py:3070-3071` says that a lost update "can only re-admit a repeat" and
therefore needs no lock. It re-admits repeats too, when it loses a note. And the
ceiling does not bound the session's dispatches when a stale session row is saved
(`service.py:103`). What an agent that waits for each of its tools may rely on is
the theorem `SoleCallerExact`: if the calls of a job run one after another, its
budget and its bills add up exactly, and no repeat of it is let through,
whatever the calls of other jobs do.

### Runs of the two modules

| run | threads, processes or jobs | bounds | distinct states | shows |
|---|---|---|---|---|
| `journal_apart` | 2 threads, 2 processes | 3 emits each | 152 thousand | races, resumes and crashes leave a readable append-only log |
| `journal_shared` | 2 threads, 1 process | 2 emits each | violation | the chain is broken for good |
| `dispatch_shared` | 1 job with two workers, 2 actions | budget 2, ceiling 3, 1 finding, 3 dispatches | 2.8 million | only repeats are refused, no slot is lost, nothing is charged unbilled |

Three emits let a thread emit after a loss and after a crash. In
`dispatch_shared` two workers call for one job, which is where rows are lost; a
budget of 2 is spent and given back within three dispatches, the bound
`FewDispatches`, which the lost writes make necessary. One finding lets an action
be admitted, refused, admitted again and refused again. The calls are alike, and
so are the actions. `dispatch_shared` ends when budgets and findings are used up,
so deadlock is not checked there; in `journal_apart` it is, since `Crash` and
`Resume` are always possible.

## 5. `ThesisMonitor` and `TriggerInbox`

Processes that tick one thesis. A tick passes the gate, loads the checkpoint,
asks each source for what it shows from the source's cursor on, creates a
pending trigger per new reference, runs the pending triggers oldest first, and
writes the checkpoint back. Each file operation takes the thesis lock, the tick
does not: a second ticker or the owner may come between any two.

| variable | code |
|---|---|
| `day`, `status`, `stamp` | the clock; the status in `thesis.yaml`; the day each event bears, 0 until a source shows it |
| `inbox` | the trigger files in creation order: reference, status, acknowledging run |
| `checkpoint` | `checkpoint.yaml`: a cursor per source, the day of the last deep review |
| `dropped` | the events some query left out for its limit |
| `alive`, `journal`, `recorded` | OMP children not reaped; runs with a journal entry; runs the recorder holds as complete |
| `pc`, `cutoff`, `snap`, `asked`, `answered`, `got`, `todo`, `made`, `queue`, `run` | per ticker the next step of `tick` and its locals |

| code | actions |
|---|---|
| `tick` (`_tick_gate`, `load_checkpoint`) | `Gate`, `Load` |
| `_query_sources` | `QueryAnswers`, `QueryFails` |
| `_seen_markers`, the rules | `Select` |
| `_persist_triggers`, `create_trigger` | `Create`, `CreateRefused` |
| `_run_pending`, `run_trigger` | `ListPending`, `Launch`, `LaunchFails`, `QueueDone` |
| the child OMP run | `OmpJournal`, `OmpRecord` |
| `_await_omp`, `mark_trigger_processed` | `EndRun`, `Ack` |
| `_advance_checkpoint` | `Save` |
| `pause_thesis`, `resume_thesis`, `close_thesis` | `SetStatus` |
| time, news, death of a ticker | `NextDay`, `Publish`, `Crash` |

Abstractions. `Event` is what passes a rule's relevance filter. A source shows an
event on the day the event bears; late filings would be a question to the
source, not to this code. `created_at` order is the order in the inbox.
`recent_hashes` is left out: each marker in it belongs to a stored trigger. The
FINRA and price rules are not modelled, they compare numbers and end in the same
`create_trigger`. A child that is reaped takes no further step. A run id is
random in the code; here it may be used again once nothing refers to it. A
reference to an invalidator hit carries the summary of what it hit, which is
`Wrap`.

`TriggerInbox` is what a user may expect of the inbox: one trigger per
reference, none lost or reordered, each acknowledged at most once.

Properties. `NoEventLost`: an event behind the cursor has its trigger or was
left out by a limit. `AckedByItsRun`: a processed trigger names a run that
completed and wrote the entry of this very trigger, although runs that failed or
outlived their ticker may have written one too. Both hold for any number of
tickers (proved). `ImplementsInbox` holds for one ticker: two may both read the
inbox before either writes, and trigger an event twice. `EventsProcessed`: while
the thesis stays active, whatever a source shows ends as a processed trigger.

| run | bounds | distinct states | shows |
|---|---|---|---|
| `thesis_monitor` | 1 ticker, 1 source, 2 events, limit 1, 2 days, 1 crash | 507,086 | no event lost, the inbox kept, every event processed at last |
| `thesis_refire` | 1 ticker, 1 event that names an invalidator, 2 wraps | violation | an invalidator hit feeds itself |

Two events of one source and a limit of one are what a cursor can go wrong
about; two days put an event at, before and after it; two run ids let a stale
run of a trigger lie beside the present one. The two events differ in nothing, so
`InOrder` has the first shown first; it excludes only relabelled behaviours.
Deadlock is not checked: a closed thesis stops its ticker.

`thesis_refire`: `_handle_invalidator` reads the references of earlier triggers,
those it created itself included, and a hit bears the summary of what it hit, so
the next tick hits the hit. Each trigger costs an OMP run.

Fairness. The worker loops for ever and is restarted (`WF` of a tick). A source
that fails, a child that is not launched or ends without its entry or without
completing are outages that end: over and over tried, they succeed (`SF`). The
clock, the news, the owner and crashes are free.

## 6. `Bridge`

One run of the agent between the extension and its bridge process, with the row
of the run in `runs.sqlite`.

| variable | code |
|---|---|
| `call` | `index.ts`: per request not yet made, waiting for a permit, granted one, pending, waiting for the termination of its run, answered |
| `permits`, `permitQueue` | the variables of that name in `createBridgeClient` |
| `proc`, `spawns`, `closed` | the present child process, numbered; `closed` |
| `term`, `termChild` | the promise in `terminatedRuns`: at its first or second abort, over; the bridge the timed-out call was sent to |
| `endFails` | `agent_end` was rewritten to a failure |
| `bridge` | `pi_bridge.py`: lines not yet read, what the main thread waits in, whether `_sessions` has the run, its recorder, the future of each tool call |
| `row`, `owner` | the status of the run's row, the bridge that inserted it |
| `losses`, `faults` | counters of the bounded failures |

| code | actions |
|---|---|
| `callBridge`, `acquire`, `release` | `CallTool`, `Granted`, `CallStart`, `CallNote`, `CallEnd`, `Send`, `Settle` |
| `ensureBridge`, `recycle`, `markDead` | in `Send` and `Recycle`, `BridgeLost` |
| timers and the termination they begin in `callBridge` | `ToolTimeout`, `Timeout`, `CallAbort`, `AfterAbort`, `AfterSecondAbort` |
| `close` | `Close` |
| `_handle_tool_call`, `_run_tool_call` | `ReadTool`, `StartTool`, `FinishTool` |
| `_pi_event_observe`, `_ensure_observe_session` | `ReadEvent` |
| `_pi_event_agent_end`, `_drain_futures`, `_complete_agent_end`, `_fail_agent_end` | `ReadLast`, `Complete`, `DrainExpires`, `FailLate`, `FailRun` |
| `_abort_run`, `_teardown_failed_run`, `finalize_failed_run` | `ReadLast`, `FailRun`, `Teardown` |

Abstractions. An answer is delivered when it is written. A killed bridge does
nothing more. Research calls of the Director on the same bridge are there only as
the recycling they may cause (`BridgeLost`). The death of the host, the drain at
the end of input, and `tool.invoke`, which takes no permit, are not modelled.

Properties. `PermitsConserved`: permits and holders add up and nobody waits for
a free permit. `PoolNotOversubscribed`: a bridge never has more calls than
threads, though the client gives up on calls that are still running.
`CompletedRunQuiet`, `AcceptedCallHasSession`: the end of a run and its calls.
`TerminalRowStays`: a closed row is not written again. `EndedRunClosed`: an
acknowledged end leaves the row closed, with its exceptions spelled out; a bridge
that replaced another in the middle of a run has no recorder for it, and its
acknowledged end leaves the row open. `CallsReturn`: every call comes back.

Run `bridge`: three tool calls on two permits, a start, an end, a late event, two
aborts; two bridges, one lost for an outside reason, one storage error;
1,156,727 distinct states. Two permits and three calls are the least with a queue
and a pool that is not a single thread; two bridges are one to lose and one to
repeat the abort on; spawns and writes may fail at any time. The tool calls are
alike and are made in order (`InOrder`); an observability event before the end
does what `agent_start` does and less, so only late ones are made (`LateNote`).
Deadlock is not checked: a run makes finitely many calls.

Fairness. Only the client's event loop: its timers fire and its continuations
run. The bridge may hang for ever.

## 7. `DirectorLoop`

The turn loop of the Director in the extension, composed with `ResearchKernel`:
a call of the Director or of a child is a call of the kernel's client, step by
step, and one runs at a time.

| variable | code |
|---|---|
| those of `ResearchKernel` | the rows, and the call in progress |
| `noted` | `evidence_ids` of the session row |
| `loop` | `at`: where the extension is; `prompt`, `job`: what the model was told to do, and for which job; `wave`: what a call is about; `batch`: the jobs of dispatched children; `stage`: the last inspected stage; `lost`: the answer will not come; counters of bounded failures |

| code | actions |
|---|---|
| `startResearch`, `resumeResearch` | `LoopInit`, `HostDies` |
| `advanceOnAgentEnd` | `AdvanceOver`, `AdvanceFetch`, `AdvanceFirst`, `AdvanceCommittee`, `AdvanceStopped`, `AdvanceDecide`, `AdvanceDrive` |
| `freezeWave`, `seedTrio`, the answers awaited | `FreezeAnswer`, `SeedAnswer`, `DecideAnswer`, `StartAnswer` |
| `planTaskCall` | `PlanSource`, `PlanTrio`, `PlanAnswer` |
| tools of the main session | `Finalize`, `Cancel`, `CallAnswer` |
| the children | `ChildRecords`, `ChildSubmits`, `ChildrenEnd` |
| `recordTaskResult` | `FileAnalysis`, `CloseChild`, `ChildDone`, `FileAnswer`, `CloseAnswer`, `FailAnswer` |
| `trioState`, `deriveState`; `stage_for_session` | `TrioDone`, `MirrorStage`; `KernelStage` |
| failures | `BridgeDies`, `AnswerLost`, `InspectFails`, `HostDies` |

Abstractions. One source child per batch. A batch is recorded in the order of
its jobs. `attach_job_runtime` is left out, it changes no modelled field. Whether
a committee envelope is valid is the choice between `FileAnalysis` and
`CloseChild`. The stage gates apply to the tools the prompts name. The runner is
not modelled; a session it left behind is one of the initial states, because
only it ever fills `evidence_ids` (`runner.py:1885`).

Properties. `StagesAgree`: the two stage gates read different fields and come to
one stage. `PromptServable`: what the model is told to do it can do, in the new
sessions of `/research`, which note no evidence, as in resumed ones. It excepts
one prompt, `RepeatedFetch`: after a freeze, while no evidence is noted, the
Director asks for more SEC work although the stage is `COMMITTEE` or `FINAL`, and
both gates refuse it. A session `/research` started comes to that prompt once its
first committee has had its turn, and again after every turn until somebody
cancels it: this is `GateReached`, which `director_gate` violates.
`SessionEnds`: a session comes to its end through any lost call, answer or host,
unless a role's job ended without its analysis (`Spent`) or a source job is held
by nobody (`Orphaned`): no code replaces these, and each blocks its session until
the user cancels it.

| run | bounds | distinct states | shows |
|---|---|---|---|
| `director_loop` | 12 jobs, 2 waves, 1 finding, 1 outage, 1 stray child | 387,817 | the gates agree, every prompt but the repeated fetch can be done, the session ends |
| `director_gate` | 8 jobs, 2 waves, no outage | violation | a session `/research` started never comes to its decision |

Twelve jobs are two trios and room for further source jobs, which a repeated
fetch prompt opens; `MaxParallel` and `CommitteeParallel` are those of the
default policy. One outage reaches every place where a call can be lost; the
resumption after it is a run of its own. New sessions are disturbed like resumed
ones. `OneVerdict` keeps dossiers that leave residuals, since a decision with a whole
trio may go either way whatever the dossier says. Deadlock is not checked: a
loop that is over stops.

Fairness. The kernel answers and the Director acts on every answer and every end
of a turn (`WF` of `Progress`): these are awaited calls and host events. The model
and its children do at last what they are asked if they can again and again
(`SF`): a model that never obeys defeats any driver. Nothing obliges a turn to
cancel or a child to leave its job open.

## 8. Proofs

### `ResearchKernelProofs`

`ResearchKernelProofs` proves, for every value of the constants, that
`SnapshotsGrounded` is an invariant and that the five properties follow. The
properties alone are not inductive: a call may be about to save a row it read
long ago. The invariant therefore speaks of the calls too (`CallOK`): a session
row held by a call cites only stored freezes, a job row held by a call has the
type and wave of the stored one, a listed ledger is still part of the ledger,
and no two calls are creating the same job. It is kept because the store only
grows in what these facts speak of.

The argument has two halves. `StoreStep` is the six kinds of store operation,
and `StoreGrows`, `StoreStaysGrounded`, `HeldStaysGrounded` show once for all
that any of them keeps what other calls hold. `CallStep` is what the acting call
holds next; the lemmas `JobReads` to `TrackWrites` show it action by action.
`ActionsAreSteps` collects them, `StepKeepsInv` and `NextInv` conclude.

Assumptions: `BoundsAssumption` and `CallsAssumption`, evaluated by every run.

### `SingleCallProofs`

`OneCall` says that at most one call of the kernel runs at a time, which may die
between any two of its steps. Under it: `TerminalJobsStay`, `CompletedWhole`
and `ImplementsLifecycle`. Grounded rows are not enough for them, since a row
saved from an old read undoes whatever came in between. The invariant
`RowsCurrent` adds that what the call holds is the row of the store, but for the
fields it changes (`SessionCurrent`, `JobCurrent`, one clause per place of a
call), and that analyses are results of completed jobs (`JobsDone`).

From it every step is one of a dozen moves of one row (`OneMove`, proved with the
invariant in `StepsAreMoves`): the session goes on, is cancelled, catches up with
a wave, is settled, ended, links a dossier, tracks a freeze, files an analysis or
gets its answer; or one job that is not terminal is saved. The three properties
speak of moves only. For the refinement, `JobMoveHears` and `FilingHears` show
that what is heard on a wave stays heard, and each move is mapped to the action
of `SessionLifecycle` it implements, or to a stutter.

### `WholeCallProofs`

With `OneCall` and no call cut short (`~MayCrash`): `FreezeCoversWave`,
`AnalysesFiled`, `NoPartialTrio`. Each relates tables that a call writes one
after the other, so each invariant says what the call in progress still owes:
`FreezesWhole` that a stored freeze not yet tracked is the one the call is about
to track, and that a finding about to be saved is of a wave beyond every freeze;
`FiledOrFiling` that an analysis not in its run is in the call's hands;
`TrioOrStarting` that the open jobs of an incomplete committee were started by
the call that still has the missing roles to do. The lemmas `JobFlow` to
`DirectorFlow` say of each action where a call goes and which table it writes;
most actions need no more than that.

`NoPartialTrio` is not kept with `retry_job` among the calls, and the theorem
excludes it: after a refused role has rolled the started jobs back, a retry opens
one of them alone. The Director never retries a committee job.

### `JournalProofs`

For any number of threads and processes, under `WorkersApart`: `TypeOK`,
`JournalReadable`, `LostOnlyToAnother` and `ImplementsLog`. That the table is
readable is not inductive: a thread may hold a number that would leave a gap.
`IInv` therefore says, for some `n`, that the table is numbered `1..n` and each
row continues the one before it (`RowsOK`); that a thread listed a prefix of it,
that its process's log has the length of that prefix while it is about to append,
and that the number it was given is one past it (`ThreadOK`); and which rows can
be its own (`EventsOK`). Since a number given is never past `n + 1`, an insert
either extends the table by one or finds its number taken; in the second case the
row there is missing from the listing and was stored by another thread. The
refinement follows: `SaveKept` is `Record` of a new event, every other step a
stutter.

### `ToolDispatchProofs`

`GInv`: every count noted in a row or in a row some call holds is at most the
present one and was admitted (`Known`), so a refusal, which compares a noted
count with the present one, is of an action admitted at that very count. It
survives lost updates because losing a note only forgets. `BillsCovered` is the
like of it for budgets: the row of a job and every copy of it that a call will
write have at least what the job was not billed (`NoSlotIsTaken`). It survives
lost updates because an older row has more slots and bills are only ever added.
Both hold of any overlap of calls. `SInv(j)` is about a job whose calls one
worker makes (`Sole`): the row a call holds is still the stored one, except for
the action it is about to note (`CallExact`), and the row has noted the latest
admission of every action (`Level`); an action admitted at the present count is
therefore one the gate will refuse (`SoleCallerExact`, whose `Exact` TLC has also
checked on two jobs with a worker each).
Each action has one short lemma; `QuietStep`, `SavingStep` and `ExactStep` say
what the untouched rows and calls keep. `SessionNotOvercharged` compares the
session's counter with the calls that were billed. These are kept as a set
(`Billed`, the dispatches of each job numbered from 1), so that a new bill is an
added element; neither the counter nor the copy of it another call has read
(`service`) is ever above their number.

Assumptions on constants: `ProcessAssumption`, `EmitsAssumption`,
`JobAssumption` and `LimitsAssumption`, evaluated by the runs.

### `ThesisMonitorProofs`

For any sets of tickers, sources and events and any number of crashes: `TypeOK`,
`NoEventLost`, `AckedByItsRun`; for one ticker `ImplementsInbox`. `NoEventLost`
is not inductive, since a tick writes back a checkpoint it computed from a copy
and from what it was told. `PointOK` says of the stored checkpoint and of every
tick's copy that it is not ahead of the clock and past no event that is unseen.
`HeardOK` says that what a tick was told is complete up to its cutoff, and
`PlaceOK` where it is at each step: in its hands, among the references still to
create, or in the inbox. `CheckpointStep` then shows that the advanced
checkpoint is such a point again. The clock matters: an event shown later bears
a day that no cursor has passed. `RunOK` says that a tick about to acknowledge
has seen its own run finish. The refinement needs that a reference still to
create is not in the inbox, which only another ticker could falsify.

### `BridgeProofs`

For any numbers of tool calls, events, permits, bridges, losses and storage
errors: `TypeOK`, `PermitsConserved`, `PoolNotOversubscribed`,
`CompletedRunQuiet`, `AcceptedCallHasSession`, `TerminalRowStays`,
`EndedRunClosed`. `IInv` has
six parts beyond types and permits. `QueueOK`: exactly the queued calls wait,
each once. `BridgeOK`: what the present bridge has of a tool call, as a line or
a future, belongs to a call that still holds its permit. `TermOK`: once a run is
terminated its tool calls are only on the bridge it is about to lose.
`FirstOK`, `StartOK`: `agent_start` is the first line of the run, so that a
bridge that forgot the run is not told of it again. `RowOK`: a live recorder has
an open row, and a completed run is unknown to the bridge and has no calls.

The proof has two sides. `SettleCounts` shows that calls which end give back
what they held and pass on as much as others wait for; from it every action
keeps `ClientGood` (`StepGood`). `NewGood`, `WriteGood` and `WorkGood` show that
a new bridge, one that is written to and one that reads or works keep
`BridgeGood`; one lemma per action fits it to one of them. `PoolBounded` follows
because the unfinished calls of a bridge are among the holders. `EndCloses`
rests on one more invariant, `OpenOK`: bridges are numbered upwards, and the one
that opened a row that is still open has its recorder, unless storage failed;
`EndAnswered` shows that nothing but the handling of `agent_end` answers it.

Assumption: `BridgeAssumption` (the kinds of request are distinct).

### `DirectorLoopProofs`

For any numbers of jobs, waves, findings and of calls, answers and hosts that
die. `LoopMoves` shows that a step of the loop is a step of the kernel, or gives
a call up, or leaves the rows alone; with `OneCaller`, `RowsCurrent` and
`OneMove` carry over from `SingleCallProofs`, so that nothing has to be proved
again of the kernel's own steps.

`StagesAgree` does not follow from the kernel alone, which would let a caller
open a job of any wave or freeze wave 2 first. It rests on the order in which
the Director makes its calls, kept by `Staged`: the frozen waves are `1..latest`;
a session that has not frozen is early; a session in `targeted_research` has
heard its trio and researches `latest + 1`; no job, session wave or row a call
holds is ahead of that (`Top`, `Reaches`); and a decision freezes nothing while
it is made. `Staged`, `RowsCurrent` and `LoopTypeOK` together are inductive
(`LInv`; TLC finds no violation of it on the instance of `director_loop`). There is one lemma for each
group of kernel steps (`JobStepStaged` to `DirectorStepStaged`), for each call
that is begun (`StartStaged` to `CancelBeginStaged`) and for each part of the
loop (`AdvanceStaged` to `FailuresStaged`). `StagedAgree` then compares the two
gates status by status. For `LoopTypeOK`, `FirstIsLeast` shows that the job the
Director records next is one of the batch.

`PromptServable` speaks of a turn, but what its prompt rests on is decided by the
answer before it, so `PInv` adds three parts to `LInv`. `FirstJob`: job 1 is for
ever a source job of wave 1, so before the first freeze a fetch names the job it
finds open (`FirstJobIsFirst`, `FetchServes`). `Waits` says how far the
call the Director waits for has brought the session: a decision is made of an
analyzing session that has no source job of the next wave, and leaves it
`targeted_research` or `synthesizing`; a freeze leaves the session before the
wave, or `freezing` on it with nobody heard; a source job is opened, and a
committee seeded, with the session as it is. A lost answer only forgets what
`Waits` promises of a decision. `QueuesSource` says that no committee job is
queued: with `JobsDone`, a role that is not heard then has a running job to
dispatch, no job yet, or is spent (`TrioServes`). `StepsOfCall` lists the steps a
call can take from where it is, `KernelKeepsWaits` takes `Waits` through them, and
`AdvanceServes` and `AnswerServes` show each prompt from it.

Assumption: `OneCaller`, evaluated by the runs.

### What is not proved

Liveness under fairness is beyond the prover: `EventsProcessed`, `CallsReturn`
and `SessionEnds` are model-checked only. Every invariant and every other action
property of a passing run is a theorem, under the assumptions named above.

## 9. Plan

Done: `ResearchKernel` with `SessionLifecycle`, `Journal` with `AppendOnlyLog`,
`ToolDispatch`, `ThesisMonitor` with `TriggerInbox`, `Bridge`, `DirectorLoop`.

To model next:

1. `Director` (`director.py`): the coverage, novelty and budget stops as
   operators, checked against a reference definition over small inputs.
   `ResearchKernel`'s `MayAuthorize` then becomes its abstraction.
2. `Runner` (`runner.py`): the in-process wave loop and its resume after a crash,
   composed with `ResearchKernel` as `DirectorLoop` is.
3. As far as state goes: SEC branch ledger (`app/sec/discovery`), raw archive
   (`app/storage`), token refresh (`app/robinhood/auth.py`).

### Not modelled

Data clients, fact readers, valuation, analytics and rendering compute functions
of their inputs: no order of events, no shared state, and floating-point numbers
that TLC has not. Agents, synthesis and evaluations turn text into text; the
modelled services only see whether a result exists and is accepted. These parts
are most of the repository's lines.
