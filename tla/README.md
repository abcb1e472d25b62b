# Harness control: a formal model

This directory holds TLA+ modules for the Hermes plugin in `src/harness_control`,
TLC configurations that check them on small instances, and TLAPS proofs that hold
for every instance. Run everything from this directory:

    tlc -config RunRestart.cfg MCRunLifecycle     # one run
    tlapm EventLogProofs.tla                      # one proof module

`PROJECT.json` lists the runs, the source lines each definition stands for, the
hazards the properties are aimed at, and for each property a *slip*: an operator
in the module, headed `Slip:`, that changes one definition the way a plausible bug
would. Put in that definition's place, it makes TLC report the property violated.
Nothing else refers to a slip.

## 1. Inventory

The plugin starts ACPX child processes, one per prompt, follows their JSON output
in a thread each, keeps what they print in memory and in SQLite, answers cursor
queries about it, and, from a gateway, edits a progress notice and asks the host
once to inject a completion message.

| Component | State | Operations | Talks to |
|---|---|---|---|
| Run supervision, `controller.py` | `_runs` (bounded, ordered), one `RunRecord` per run with its lock, state, child, thread | `prompt`, `_store_run`, `_collect_prompt` (a thread per run), `_persist_run_state`, `close_now`, `status` | the store; the child (poll, signals, its pipe); `unload` |
| Durable run store, `store.py` | table `runs`, table `events`, ordered by `updated_at` | `create` (prunes), `update`, `append` (prunes), `events`, `status`, recovery when opened | called by every thread of every controller on the data directory |
| Event buffer and cursors, `controller.py`, `store.py` | two deques, their byte count, base cursor; rows and the columns of their run | `_append_event`, `events`, `RunStore.append`, `RunStore.events` | a reader that follows `next_cursor` |
| Progress watchers, `progress.py` | `_watchers`, a stop event each, `_unloading` | `start`, `_watch`, `_finish`, `_edit`, `close`, the delivery gate | `controller.events`; host calls (edit, inject) |
| Plugin tool surface, `plugin.py` | none of its own | `register` and the configuration loaders; the handlers: argument checks, workspace policy, approval gate, launch; `harness_prompt` after the launch, `unload` | all of the above; the host |
| Control commands, `controller.py` | `_control_processes`, keyed by pid | `_run_control_sync`, two `_drain_stream` threads each, `_terminate_popen`, `close_now`'s sweep | a short-lived child; `close_now` |
| ACPX argument vectors, `acpx.py` | none | pure | |
| Workspace policy, `workspace.py` | the resolved allowlist | pure | the file system |
| Tool schemas, `schemas.py` | none | constants | |
| End-to-end check script, `scripts/` | none | drives an installed Hermes once | |

**What is hard.** Prompt calls may be on any thread or event loop, and each is cut in
pieces by `await` and by locks. There are two dictionaries of the same runs (memory
and SQLite) that evict by different orders, by different copies of the state, at
different times. State is copied under a lock and written after it. An unload may come
at any point of a prompt; afterwards, threads of the unloaded controller go on, and the
next controller may open the same database. Hermes may die between any two
transactions. Cursors handed out by memory are later answered by SQLite. Watchers hang
in host calls while `unload` must end. A control process is terminated by its own
timeout and by an unload at the same time, by a pid that the system may hand out again
as soon as either has read the exit status, and a process may outlive the last wait, the one
after SIGKILL. Sessions and prompts are a language model's words and stand unquoted in an argument
vector. While a human is asked to approve a turn, the path it is for may come to lead elsewhere.

**What makes each component correct.**
Run supervision: no limit is exceeded, no active run loses its place, a refused prompt
leaves nothing, unload leaves no child it did not send SIGKILL, a stored outcome was earned and stays.
Event log: both tiers hold a contiguous newest part within both limits, agree with each
other, and a reader sees one stream in which nothing is skipped in silence or repeated, for as
long as either tier keeps the run.
Watchers: the final edit follows all output that is kept, the completion is tried once where the
host takes one, nothing is delivered after unload, and unload ends.
Control commands: an answer tells the output it claims to tell, cut at the right end; a
live process can be found by an unload; every command is answered.
Tool surface: what is started is what was asked for, for a path that passed the operator's
policy, with the operator's permission mode, and unrestricted only if the operator allows that for
this harness in this worktree.

## 2. Modules

| Module | Models | Extends, instantiates |
|---|---|---|
| `RunLifecycle` | run supervision, and the `runs` table | |
| `MCRunLifecycle` | symmetry of runs | `RunLifecycle` |
| `RunLifecycleProofs` | theorems: types, capacity, retention, cancellation; what rows, records and children say of one another | `RunLifecycle` |
| `RunLedger` | abstract: what the table of runs promises | instantiated by `RunLifecycle` |
| `RunLedgerProofs` | theorems: `RunLifecycle` implements `RunLedger`; prompts are answered, exits recorded, `close_now` ends | `RunLifecycleProofs`, `Numbers` |
| `EventLog` | the event buffer, the `events` table, a reader | instantiates `CursorStream` |
| `CursorStream` | abstract: what README.md promises a reader | |
| `MCEventLog` | three kinds of lines | `EventLog` |
| `EventLogProofs` | theorems: both tiers, and the reader under failures | `EventLog`, `Numbers` |
| `EventStreamProofs` | theorems: `EventLog` implements `CursorStream`, its fairness included; readers reach the end | `EventLogProofs` |
| `ProgressManager` | watchers, `harness_prompt` after the launch, `unload` | instantiates `HostDelivery` |
| `HostDelivery` | abstract: what a chat may hear of its runs, and in which order | |
| `ProgressManagerProofs` | theorems: the table, the gate, the drain; `ProgressManager` implements `HostDelivery`; stopped watchers leave, completions are tried, `close()` returns | `ProgressManager`, `Numbers` |
| `ControlCommand` | control processes, their drains, their table, `close_now`'s sweep | |
| `MCControlCommand` | symmetry, output bounds | `ControlCommand` |
| `ControlCommandProofs` | theorems: pids, the table, the sweep, answers; commands and processes come to their end | `ControlCommand` |
| `ToolCall` | configuration, one tool call up to its process, argument vectors, workspace policy | |
| `MCToolCall` | configurations and a small directory tree | `ToolCall` |
| `ToolCallProofs` | theorems: what is started was vetted, and is read as it was asked | `ToolCall`, `Numbers` |
| `Numbers` | lemmas: induction as a fact about sets of numbers and finite sets | |

The components meet in few places, and each is modelled on one side. `close_now` sweeps
control processes and runs one after the other and shares no state between the two:
`ControlCommand` has one half, `RunLifecycle` the other. `ToolCall` ends where a process is
started, `RunLifecycle` begins there. `ProgressManager` sees the controller through what
`events()` may answer: pages and expiry as in `EventLog`; an eviction to a row that has fewer events
than memory had (failed appends) or still says "running" (an update that failed or is late); a run
no tier knows; and a store that fails now and then. It does not repeat *when* the other modules
allow these: evictions and prunings come at any time once a run is not running.

### RunLifecycle

Every thread is a program counter: `caller[r]` (prompt and `_store_run`), `collector[r]`
(`_collect_prompt`), `closer` (`close_now`). A step ends where another thread can see or
change something: a lock released, a transaction committed, a child polled.

| Code | Model |
|---|---|
| `_runs` of every controller, insertion order | `runs`, `runOrder`, `Dict(i)` |
| `RunRecord.state` | `state[r]`; `"lost"` once its Hermes process died |
| the row's `state`, the order of `updated_at` | `row[r]`, `rowOrder` |
| a dictionary copied under the lock and written later | `snap[r]` (own threads), `closeSnap` (`close_now`) |
| the child | `proc[r]`: alive, killed (sent SIGKILL but not yet gone), or its exit status |
| `prompt` | `Call`, `Spawn`, `Register` or `RefuseFull`, `Summarise`, `StoreCreate` or `StoreRejects`, `Unregister`, `Abandon`, `MakeThread`, `StartThread` |
| `_collect_prompt` | `CollectEvent`, `ReadEof`, `CollectorRaises`, `Finish`, `Snapshot`, `Persist` |
| `close_now` | `Close`, `ClosePoll`, `CloseCancel`, `CloseKill`, `CloseSnapshot`, `ClosePersist`, `CloseJoin`, `CloseReturn` |
| `RunStore.__init__` on an existing database | `Open` |

Decisions:
- Orders are sets of pairs `<<earlier, later>>`. Recovery gives all its rows one
  timestamp, so they tie, and either may be pruned first. Apart from that the clock
  behind `updated_at` is taken to move forward.
- `Register` and `StoreCreate` evict at most one run, where the code loops. That is the
  same as long as the limits hold before, which `CapacityRespected` says.
- The end of the output and the exit of the child are independent: a child may close its
  output and live, a grandchild may keep the pipe open.
- `_terminate_popen` (SIGTERM, a wait, SIGKILL, a wait whose timeout is suppressed) is one step. It
  leaves the child dead with any status, since it may handle SIGTERM and exit 0, or `"killed"`:
  sent SIGKILL and not gone yet. Such a child still counts as live (`LiveChild`), and exits later
  or never. The poll before and the mark `cancelled` are steps of their own in `close_now`.
- `close_now` goes through its records in any order.
- A store failure (a locked database) and a thread that cannot start are the faults that
  `MaxFaults` bounds. A fault in `update` is swallowed, as the code does.
- Two controllers never *open* side by side in one process: `Open` follows an unload or a
  crash. Threads of the older controller do go on beside the newer one.

`RunLedger` is the abstract specification of the table: what a run's row may say from one look
to the next. Of the tools only `harness_events` shows rows, once memory has let go of the run; the
next controller's recovery reads them all. A row is `asked` for, recorded
(in a free place or in that of a run that is over), settled once by its own controller, perhaps
written once more by a thread of an unloaded one, and called interrupted when a controller
opens on it still running. `RunLifecycle` maps to it by its rows and the progress of callers
(`Standing`); records, copies, orders, children and threads are gone.

### EventLog

One run, one collector, one reader. An event is the number of its output line, so
what a cursor names can be compared with what it should name. A line has two sizes, raw
(what memory charges, cut to `MaxLineBytes`) and as JSON (what SQLite charges, which
may exceed `max_event_bytes` by itself). Sizes are kept as stretches laid end to end
(`from`, `to`): the sum the code's loops compute is then a difference, `Bytes`, which a
proof can handle without induction over a sum.

`AppendMemory` is `_append_event` under the record's lock; `AppendStore` is the one
transaction of `RunStore.append` with its pruning; `AppendFails` is the exception that
`_append_event` swallows. The reader is `_watch`'s: it goes on at `next_cursor`, moves to
the oldest cursor when told its own has expired, asks again after any other error.
`Lookup`, `ReadMemory`, `ReadColumns`, `ReadRows` are the separate looks `events` takes at
shared state; the two SELECTs of `RunStore.events` are in no transaction. `Forget` lets the
record go (`_store_run` evicts it for a newer run); `MayForgetLive` allows it while the collector
still runs, which happens to cancelled runs and after an unload. `Prune` deletes the run's row and
its events (`_prune_runs_for_capacity`, in the `create` of the same newer run); from then on a
look into the store is answered with "unknown run_id" (`Refused`), even between the two SELECTs,
and an append finds no row. `passed` is history: what the last page with events went up to.

`CursorStream` is the abstract specification: events get cursors 0, 1, 2, …; an answer holds the
events from the asked cursor on, none left out, and is empty only at the end; a late
reader is told. A run may be let go (`LetGo`): then the reader is owed nothing more, and gets no
event. `EventLog` maps to it by its own `total`, `cursor`, `asked`, `page`, and keeps the run while
either tier has it (`Kept`).

### ProgressManager

One watcher thread per run (`watch[r]`), the handler that starts it (`handler[r]`),
unload (`closer`). The controller is what `events()` shows of it: how many events a run has,
the oldest kept, its state, and which `tier` answers. `RunEvicted` moves a run that is not running
from memory to its row, which may have counted fewer events, and may be stale: it says "running" until
`RowCatchesUp`, or for ever. `RunPruned` takes the row away. `Poll` asks once: an expired cursor is
recovered from; after any other error, be it that no tier can answer (`Unanswered`) or that the store
fails (`faults`), the watcher waits and asks the same again. Host calls are pairs of steps
(`Edit`/`EditReturns` …) between which the thread hangs; whether the host accepted is only
logged by the code, and not modelled. A host without a callable `inject_message` (`injects`) gets no
completion attempt. `_watchers_lock` is held from `Insert` to `StartWatcher`, and otherwise within
one step. The throttling of edits is a free choice. `CloseGate`, `CloseStop`, `CloseJoin`,
`CloseDrop`, `ControllerClose` are `unload` in its order.

`HostDelivery` is the abstract specification of what a chat hears: at most one notice, edits
while the run goes on, one final edit, one completion, one host call at a time and in this
order; the last two only of a run that is over and read to the end of what is kept of it; none
begun when the gate is shut. `ProgressManager` maps to it by the calls its handlers and watchers are in.

### ControlCommand

| Code | Model |
|---|---|
| `_run_control_sync` on a worker thread | `call[c]`: `Spawn`, `List`, `StartDrains`, `WaitReturns` or `TimesOut`, `Join` (stdout, stderr), `Pop`, `Judge`, `Answer` |
| its two drain threads | `drain[c][s]`: `Read` (a chunk of up to `ChunkBytes`, and the overflow flag), `Extend`, `Cut` (stderr), `DrainEnds` |
| `_terminate_popen`, by the worker or by `close_now` | `stage[a]`: `Look`, `Send`, `Look`, `Send`, `LastWait` |
| the process, and what the system knows of it | `child[c]`, `pid[c]`, `told[c]` |
| `_control_processes` | `table`: pid to command |
| `close_now`'s second loop | `Close`, `Sweep`, `CloseReturn` |

Decisions:
- A process whose exit status was read is reaped, and its pid may be given to the next one.
  A signal goes to whatever holds the pid when it is sent. That is why the table may hold
  another command under a pid than the one that is about to be popped.
- SIGTERM and SIGKILL do not end a process in the same step; it may outlive both graces.
- A drain holds no lock between setting the flag, extending its buffer and cutting it, and each is
  a step: `Judge` and `Answer` may look in between, at a drain that outlived its join.
- `late` remembers such a drain, so that `AnswerTellsOutput` can say what the answer may lack, and
  hold too much of, then. `taken` remembers whose entry another command's `Pop` took out, which is
  the exception in `LiveControlIsListed`.
- Bytes are numbers in the order of output, so what a buffer kept of a stream can be told.

### ToolCall

One configuration, one call.

| Code | Model |
|---|---|
| `register`, the loaders, `HarnessSpec.__post_init__` | `Register` |
| a handler up to its `await`: argument checks, `WorkspacePolicy.validate`, permission mode | `Receive`; the path the policy returned is `vetted` |
| `_request_harness_approval` | `GateAnswers`, `Rule` |
| `build_acpx_argv` | `Build`, `Argv`, `Command` |
| `_spawn_process` | `Spawn` |
| the file system meanwhile | `PathMoves` |

Decisions:
- Arguments are told apart by whether they are usable. Sessions and prompts are any of `Texts`, some of
  which look like options and verbs of ACPX; nothing quotes them, and there is no `--` in front of them.
- A path is what it resolves to (`Real`), the parts of that, and whether git calls it the root of a
  worktree. The policy looks once. The vector and the process resolve the path again, and between the
  policy and the process a part of it may be replaced by a link or go away: `place` is what it
  leads to by now, `moved` remembers that it ever led elsewhere.
- Hermes' gate may say yes now, which allows this harness in this worktree; it may be switched off,
  which allows every turn; an approval given earlier, for a session or for good, may have the same rule
  key; or it says no, or cannot be imported. The rule key names the harness and the directory and
  no session (`Rule`). `allowed` is what the operator allows.
- The action `list` of `build_acpx_argv` is left out: only `HarnessController.list_sessions` uses it,
  which no tool calls.
- `SessionRead`, `VerbRead` and `After` read the vector back the way ACPX does (external; from
  `tests/test_acpx_command.py`): an option that takes a value takes the argument after it, whatever it
  says, so a model, or a session behind `-s`, named like an option is no option. The last word of a
  prompt or of `sessions close` is the model's own and behind no option. What ACPX makes of one that
  looks like an option cannot be told from this repository, so the properties look at all words but
  that one (`Governed`), and say that it stands where ACPX looks for a word of its own (`EndsOwn`).

`LaunchIsAsAsked` compares what was asked with what is understood and never with how the vector was
built.

## 3. Runs

A symmetry set (`RunSymmetry`) is used in safety runs only. Deadlock is not
checked: every system here may stop (all prompts answered, the reader at the end).

| Run | Instance | Shows |
|---|---|---|
| `run_restart` | 2 runs, 1 place, 2 controllers, 1 fault, unload, crash | `TypeOK`, `CapacityRespected`, `ActiveRunsRetained`, `RefusedLeavesNothing`, `OutcomeIsEarned`, `SweptRunsAreDead`, and, while the plugin is loaded, `SettledRowAgrees` and `LiveChildIsSupervised`; that no thread is stuck (`ThreadsGoOn`); that the rows implement `RunLedger` (`LedgerSpec`) |
| `run_liveness` | 2 runs, 1 place, 1 fault, unload, crash | `PromptSettles`, `CloseCompletes`, `ExitIsRecorded`, and `CancelledNeverCompleted`, of record and row |
| `unload_in_flight` | 1 run | finding 1 |
| `stale_unload_write` | 1 run, 2 controllers | finding 2 |
| `event_stream` | 5 lines of 3 kinds, 3 events, 5 bytes, pages of 2, an ended run evicted and pruned | `TypeOK`, `BufferSound`, `SkipsOnlyExpired`, and that the log implements `CursorStream` with its liveness |
| `event_faults` | 4 lines, 2 faults, crash, record and row let go at any time | `RowsSound`, `StoreFollows`, `NothingTwice`, `ReaderDrains`, and that no reader is stuck (`ReaderGoesOn`) |
| `torn_read` | 4 lines, 2 events | finding 3 |
| `watch_run` | 1 run, 3 events, pages of 1, expiry, eviction to a row that may be stale or short, 2 failed reads, pruning, unload, a host with `inject_message` or without | `TypeOK`, `StoppedWatchersLeave`, `CompletionDelivered`; that the host calls implement `HostDelivery` (`DeliverySpec`) |
| `watch_pair` | 2 runs, no events, no eviction, unload | `SweepReachesAll`, `TableIsExact`, `CloseReturns`; that the lock keeps nobody for good (`ThreadsGoOn`) |
| `control_race` | 2 commands, 2 pids, no output, pipes that stay open, 1 thread that cannot start | `TypeOK`, `LiveControlIsListed`, `SweptControlsAreDead` |
| `control_answer` | 1 command, 4 bytes to each stream in chunks of up to 3, limit 2 | `AnswerTellsOutput`, `CommandsAnswered`, `ControlProcessesEnd`, and that no thread is stuck (`ThreadsGoOn`) |
| `tool_calls` | 720 configurations, 7 tools, 4 texts for sessions and prompts, 8 values of `cwd`, 6 paths they lead to, first and later | `LaunchIsAsAsked`, `PermissionIsOperators` |

Four properties are in no run of their own, because a refinement that a run checks says as
much: `OutcomesStick` (`LedgerSpec`), and `FinalEditDrained`, `CompletionOnce` and
`NothingAdmittedAfterUnload` (`DeliverySpec`). Each is a theorem all the same.

**Why these bounds.** The interesting contention needs one run more than places: two for one
place, of which one must give way, also across a restart; no property depends on which of
several runs gives way first, and the theorems have any number of runs and places. Two
controllers show everything one can leave to the next. One fault reaches every error path; two
events lost in a row (`event_faults`) make the numbering of the tiers drift by more than one.
Three kinds of lines are one that fits, one larger in SQLite than in memory, and one cut in
memory that SQLite cannot keep at all; four or five of them overrun both the limit of events and
the limit of bytes. Pages of two, or one, leave something for the next. Watchers share only
their table, its lock, and the unload that sweeps it: `watch_pair` has two of them and no
output, which neither the table nor the lock depends on, and `watch_run` one with everything it
can meet; `ProgressManagerProofs` has all their properties but `ThreadsGoOn` for any number.
Three events in pages of one let the oldest expire under the reader, and leave some to drain
after the end. Two control commands are what it takes for a pid to be handed out twice, and for
two processes to be swept; output and the end of it are what one command sees by itself, so
`control_race` has neither (`PipesMayEnd` is FALSE: each drain outlives its join) and
`control_answer` has one command with twice the limit, which chunks meet exactly, cross and
exceed at once (a chunk of 3 over a limit of 2, where the code has 8192 bytes over its limit).
Two failed reads of the store let a watcher meet them before and after the end. `watch_pair` leaves
eviction out, which touches neither table nor lock.
`MCToolCall`'s paths are a root, a worktree under it (also reached by a link and, as a relative path,
refused), a directory inside that, a plain directory, a file, and a worktree elsewhere: each condition
of the policy fails for one of them alone, and a path that moves may come to lead to any of them, or
to none. Its texts are a plain one, an option with a value, a permission and a verb. Its
configurations hold a model named like an option and a command with an empty argument. All bounds are
in guards and named as constants: `MaxInstances` and `MaxFaults` of `RunLifecycle`, `MaxLines` and
`MaxFaults` of `EventLog`, `MaxEvents` and `MaxFaults` of `ProgressManager`, `MaxBytes` and
`MaxThreadFaults` of `ControlCommand`.

**Fairness.** `RunLifecycle!Fairness`: a thread whose next step waits for nobody takes it.
Nothing is assumed of children, of the pipe, of callers or of the operator; a collector may
hang in `readline` for ever, and `CloseCompletes` holds still. `EventLog!FairSpec`:
`store.append` returns, and the reader polls on; lines need not come, nor end.
`ProgressManager!FairSpec`: the plugin's threads run; host calls may hang for ever, and the
properties that need one to return say so. `ControlCommand!FairSpec`: workers and
`close_now` run, and the system ends what SIGKILL hit; pipes may stay open for ever.

## 4. Where the code does not do what is said of it

1. **An unload does not see a prompt in flight** (`unload_in_flight`). `prompt` awaits
   `_spawn_process` and only then registers the record; `close_now` terminates what
   `_runs` holds. The child that was spawned before and registered after the unload lives
   on, against "terminated on plugin unload" (README.md, Safety boundaries).
2. **A finished run is called interrupted** (`stale_unload_write`). `close_now` and the
   collector both copy the state under `record.lock` and write it after. The older copy,
   "running", may be written last; at the next start recovery marks the completed run
   "Hermes stopped before this harness run completed" (store.py:84).
3. **Events are skipped without an error** (`torn_read`). `RunStore.events` checks the
   cursor in one SELECT and reads the rows in another. What is pruned in between is
   missing from the answer, against "Expired cursors return an explicit error".

The models also contain these, which no run singles out:
- A failed `store.append` is swallowed, and the store numbers events by its own count: from
  then on every cursor names a later event in the store than in memory (why
  `PageAnswersCursor` is claimed only of runs without faults, through `CursorStream`, and why
  `StoreFollows` says `faults = 0`). `NothingTwice` holds even so.
- An event may be answered from memory before SQLite has it. After a crash the reader's
  cursor is beyond the newest, and refused (`Beyond`).
- `_store_run` may evict a record that has finished before its row says so; `create`
  then finds nothing to prune and refuses a prompt though no run is active
  (`StoreRejects`). `SettledRowAgrees` says that this passes once the collector is done.
- `close_now` joins `record.thread`, which `prompt` assigns before it starts it. `join`
  raises on such a thread (`CloseJoin`, closer `"raised"`), and the remaining threads are not
  joined. `CloseCompletes` counts that as an end.
- Once newer prompts have evicted a finished run from memory and pruned its row, every reader is
  told "unknown run_id", whatever it had still to read. Both happen in one `_store_run`; with
  `max_runs` of 1 they always hit the same run. `ReaderDrains` and `CursorStream` owe nothing then.
- A watcher of such a run asks again until an unload stops it: `_watch` retries every error that is
  not an expired cursor. So does one whose run's row says "running" of a run that has ended, because
  its update failed and was swallowed (for good) or has been overtaken (until it is written), and one
  that has read more events from memory than the store counted. There is no completion then
  (`Lost(r)` in `CompletionDelivered`); the watcher ends when stopped (`StoppedWatchersLeave`).
- A host without a callable `inject_message` gets no completion attempt, and only a log line says so.
- `_terminate_popen` suppresses the timeout of its wait for a child it sent SIGKILL. A prompt that
  raised, and `close_now`, may leave such a child alive (`RefusedLeavesNothing`, `SweptRunsAreDead`
  and `SweptControlsAreDead` say "sent SIGKILL").
- A run that completed between the poll of `close_now` and its mark is "cancelled" in memory, and its
  row may go from cancelled to completed when the collector writes last. `CancelledNeverCompleted` is
  about children that lived when their run was cancelled.
- A command pops its entry of `_control_processes` by pid, after its process was reaped. When
  the pid was handed out again meanwhile, the entry is the other command's, whose process no
  unload will find; and a signal sent by pid may reach it. `LiveControlIsListed` names the
  case; `ControlProcessesEnd` says that its own timeout still ends such a process.
- When a drain thread cannot be started, the command raises and its process stays listed: only
  an unload ends it (the exception in `ControlProcessesEnd`).
- A drain that outlives its join goes on reading while the answer is put together: without an
  error, output may be missing, and stderr may exceed its limit by a chunk that was appended and not
  cut off yet (`late` in `AnswerTellsOutput`).
- The policy passes a path once, and ACPX gets what that path resolves to later: "the validated path"
  (README.md, Safety boundaries) holds as long as it resolves to itself (`~moved` in
  `LaunchIsAsAsked`).
- An approval is remembered for a harness and a directory. It shows the session and does not depend on
  it, so one that stands covers every session of that harness there.
- A prompt, or the session of `harness_close`, may look like an option of ACPX and is not protected by
  `--` (`Governed`).

## 5. Proofs

The proofs assume only what the modules' `ASSUME`s say of the constants: limits are
positive, sizes are positive, bounds are naturals, `Runs` is finite, paths resolve to paths,
worktrees are directories, and the agent of a configuration is the name of a profile and none of the words of ACPX's
command line (`ConfigsAssumption`: an agent called `prompt` would be read as the verb).

Every invariant and every safety action property of the passing runs is a theorem, but for
those that speak of `ENABLED`, and so is every refinement. All nine liveness
properties and the fairness of `StreamSpec` are theorems too, from hypotheses on `ENABLED`
(below). `SkipsOnlyExpired` and the
refinement of `CursorStream` are proved where appends succeed (`Calm`).

**`RunLifecycleProofs`** proves, for any number of runs, places, controllers and faults:
`TypeOK`, `CapacityRespected` and `ActiveRunsRetained`. Neither of the last two is
inductive. The invariant `Control` adds what each thread may rely on:
- `HomeInv`: a record has a state while its caller or its threads can use it;
- `DictInv`: a running run past `Register` is in the dictionary, one that was never registered
  or was refused is not;
- `ThreadInv`: collectors belong to launched runs, and past the loop the state has left
  `"running"`;
- `CopyInv`, `CloserInv`: a copy waiting to be written may be old, but if the record still
  says running, so does the copy. This is what keeps a late write from taking the row of an
  active run out of protection.

Capacity is then a counting argument: a set that is full loses one element before it
gains one.

It then proves `OutcomeIsEarned`, `RefusedLeavesNothing`, `SweptRunsAreDead`,
`SettledRowAgrees`, `LiveChildIsSupervised`, `CancelledNeverCompleted` and `OutcomesStick`.
Lemmas say, once, who writes what: `RowsWritten`, `ChildrenStay`, `CallersMove`, `StatesMove`, `CopiesMove`, `CollectorsMove`.
The invariant `Outcomed` adds to `Control`:
- `BirthInv`: no child before `Spawn`, no row before `StoreCreate`. That an exit status is
  final rests on it: only a prompt whose run never had a child spawns one. A refused prompt's child,
  if it lives, was sent SIGKILL;
- `EarnInv`: "completed" is true in the record, in both kinds of copies, and in the row; the
  copies are why the property of the row alone is not inductive;
- `SweepInv`: `close_now` works only while its controller is closing, so nothing it writes
  reaches a loaded plugin's rows; and what it is done with is dead or was sent SIGKILL;
- `AgreeInv`: in a loaded plugin, a collector's copy is the state its record keeps.

`CancelledNeverCompleted` speaks of everything after a moment, so its proof carries another invariant from
that moment on: `NeverCompletes(r)`, that neither record, nor row, nor a copy waiting to be written calls
the run completed, and that its collector can decide on nothing else. It holds when a run is cancelled with
a live child, because a run that is called completed anywhere has exited (`EarnInv`), and every step,
crashes and restarts included, keeps it.

**`RunLedgerProofs`** proves that `RunLifecycle` implements `RunLedger`, with every unload, crash and
restart. Most steps stutter; those that write rows are taken one by one (`CreatesRecord`,
`OutcomesSettle`, `CopiesWriteLate`, `CrashDies`, `OpenReopens`). `LedgerInv` adds what a row will
say first: the record of a prompt under way is running unless `close_now` cancelled it, and in a
loaded plugin always running; and that a row has the outcome of a loaded controller's own run
only when its collector is done, so that the outcome is not written a second time.

**`EventLogProofs`** proves all of `TypeOK`, `BufferSound`,
`RowsSound`, `StoreFollows` and `NothingTwice`, for any lines and limits, with
crashes, failures and early eviction allowed. The invariant `LogInv` adds:
- `Packed`: sizes lie end to end. `PackedEvict` then shows that what an eviction loop
  subtracts from its counter is what it removed, and `NewestStays` that it stops before an
  event that fits;
- in `StoreInv`, an event is at least as new as its cursor and older than
  `diskTotal + faults`: each failure moves the numbering by one;
- in `PaceInv`, where the collector is between the two appends;
- in `ReaderInv`, that what was delivered (`passed`) lies before the cursor by the numbering of the
  tier that will answer next. It is needed because after a failure the two
  numberings differ, and a reader crosses from one to the other once. `NothingTwice` then holds of
  every answer, one that is equal to the answer before included.

`EvictionDecides` says that the loops of both tiers end, whatever they hold and count, and in one
way only. The model states what such a loop leaves by a predicate, so this is what makes an append
an action that is always possible and has one outcome.

**`EventStreamProofs`** proves `StreamRefinement`: as long as no append fails, the record is
kept while its collector runs and Hermes lives (`Calm`), every step of `EventLog` is a step of
`CursorStream` or a stutter; and `SkipsOnlyExpired`. The run may be evicted and pruned. `StreamInv` says
that the store answers only when the collector has ended, so its two SELECTs see the same rows, or
none when the run was pruned between them, and its numbers are the buffer's.
`MemoryDelivers` and `StoreDelivers` show that a page of either tier is the page the abstract stream would give. Outside `Calm` the refinement is false, which `torn_read` shows.
`StreamLiveness` adds the fairness of `CursorStream`, and so has `StreamSpec` as a whole.

**`ProgressManagerProofs`** proves `TypeOK`, `SweepReachesAll`, `TableIsExact`, `FinalEditDrained`,
`CompletionOnce` and `NothingAdmittedAfterUnload` for any number of watchers. `WatchInv` adds that
after the sweep nobody is between the two halves of `start` (`CloseInv`); that a watcher
belongs to a handler that has answered (`ThreadInv`); that only an unloaded controller
calls a run over whose output still comes, so that a watcher on its way to the final edit
either has read everything or may not edit any more (`DrainInv`); and that a completion comes
after the edit (`OnceInv`). `DeliveryRefinement` shows that the host calls implement
`HostDelivery`; `NoticeInv` is what it needs beyond `WatchInv`: a notice is edited only where there
is one, and no event expires that was not there, so a run read to its end stays so, also when its row
turns out to have fewer events.

**`ControlCommandProofs`** proves `TypeOK`, `LiveControlIsListed`, `SweptControlsAreDead` and
`AnswerTellsOutput` for any number of commands and pids and any output. `ControlInv` adds: two
processes have one pid only when one of them is reaped (`ProcInv`); who is in
`_terminate_popen`, and for whom (`StageInv`); what lives after its wait or its termination was
sent SIGKILL (`KillInv`); and that a buffer is the first, or the last, bytes of what was
read but for the chunk in hand, with at most that chunk too many while stderr is not cut (`OutputInv`,
with lemmas on a chunk of any size).

**`ToolCallProofs`** proves `StartedAsVetted` for every configuration, request, set of paths and way
they come to lead elsewhere: a started process has the vector of its own call, the call passed every
check and its path the policy, an unrestricted turn is one the operator allows, and the process is in
that very directory unless the path has moved. From this it proves `LaunchIsAsAsked` and
`PermissionIsOperators`, which speak of how the vector is read.
`IsRead` is a recursive function over the arguments; that it is defined everywhere
(`ReadingIsDefined`) is shown with the least argument at which it would not be (`LeastNumber` of
`Numbers`), since the library's induction theorems cannot be used. The vector is then laid out token by
token (`ArgumentsLaid`), and read from the left: options and their values (`OptionsRead`), then the
verb's words (`CommandWordsRead`). Nothing is assumed of sessions, prompts, models, commands and paths:
they stand where an option takes them, or are the last word, which is looked at only for where it
stands.

### Liveness

The provers cannot look inside `ENABLED`. The liveness theorems have it as a hypothesis,
`[]GuardsEnable`, an operator of each proof module that says, per fair action, "when this guard holds,
the action is `ENABLED`". Each is implied (`GuardsAreWeaker`) by an invariant of the component's
module, `ThreadsGoOn` or `ReaderGoesOn`, that TLC checks on an instance, and which states something on its own:
no thread is ever stuck on what the others hold or have left. What is proved is the rest:
that the guard holds whenever it must (from the safety invariants), that others neither undo
nor delay what a thread has done, and that it needs boundedly many steps.

Each proof has a rank: the steps a thread has before it at most. One lemma says that the
thread's own step lowers it and no other step raises it (`PromptAdvances`, `CommandAdvances`,
`StoppedAdvances`), one that it falls from `n` to `n - 1` (`PromptFalls`, `CommandFalls`,
`WatcherFalls`), and the theorem chains the few values it has.

Where a thread loops over all runs, watchers or events, its rank has no bound known in advance,
and the chain is an induction over a temporal formula: if every state with at most `n` steps left
leads to the goal, so does every state with `n + 1`. The library's induction theorems cannot be
used for that, and TLA+ does not let a set be built from a temporal formula. So each of these theorems
names the set, `\E S \in SUBSET Nat : \A n \in Nat : n \in S <=> Reaches(n)`. This hypothesis
restricts nothing: a temporal formula is true or false of a behaviour, and whichever numbers it is true
of, they are a set. That the set holds 0, and `n + 1` with `n`, is proved, and `AllNumbers` (or
`AllElements`, for subsets of `Runs`) of `Numbers` then says that it holds all.

- `PromptLiveness`: every prompt is answered. `OrderInv` shows that a full dictionary or store
  that has something to evict has an oldest one, so that eviction is possible: orders of rows
  are rebuilt at every recovery, and a set with no oldest member would leave nothing to evict.
- `ExitLiveness`: an observed exit is recorded, by the collector's three last steps.
- `AnswerLiveness`, `ProcessLiveness`: a command is answered and its process ends. The rank counts
  `_run_control_sync` and the stages of `_terminate_popen` apart, because the second runs within
  the first; a process that was sent SIGKILL needs the system's fairness (`KilledExit`).
- `LeaveLiveness`: a stopped watcher leaves unless it hangs in a host call for ever. `StopInv`:
  only `close()` stops watchers, and once it has, nobody holds `_watchers_lock` to start one.
- `StreamLiveness`: while there is news the reader goes round from `Lookup` to an answer, and every
  answer but that of the first SELECT is the news (`NewsIsTold`, `LooksTell`). No rank is needed.
- `DrainLiveness`: once no more events come, a reader gets to the end. The rank is what is left to
  read. One round from `Lookup` to an answer lowers it (`RoundGetsNearer`); between its two SELECTs the
  reader may be sent round again, by events pruned meanwhile or because Hermes died. Unlike
  `StreamLiveness` it does not assume `Calm`: appends may fail. A run that neither tier keeps owes
  nothing more.
- `CloseLiveness` of `RunLedgerProofs`: `close_now` ends. The rank counts five steps for every record still
  to cancel, one for every collector to join, and the place in the loop (`Work`).
- `CompletionLiveness`: the completion of a watched run is tried. The rank counts two steps for each
  event not yet read, because after a page, or an expired cursor, the watcher goes through its loop again,
  three for each read of the store that may still fail, because it waits and goes round again then, and
  the way from there to the attempt (`Owed`). `OutcomeInv` says that before an unload a watcher with a
  session key, and a host that takes completions, does not leave without its attempt. A run that is lost
  to its watcher (`Lost`) is excepted.
- `CloseLiveness` of `ProgressManagerProofs`: `close()` returns. First it gets the lock: whoever holds it lets
  go, by `AllElements` over the handlers that may; then it joins, one watcher less each time.

Left to TLC: `ThreadsGoOn` (of three modules) and `ReaderGoesOn`, which say what is `ENABLED`. No module
here uses a RECURSIVE operator.

## 6. Not modelled

- The wording of notices, summaries and errors, and the JSON of answers: no state depends
  on it. The clock that throttles edits is a free choice.
- `schemas.py` is constant tables, `scripts/verify_real_hermes_dispatch.py` a test that drives an
  installed Hermes; neither has behaviour of the plugin.
- File permissions, and the creation of the SQLite schema.
- A second Hermes *process* on one profile. Its `_recover_interrupted` marks the first one's
  active runs; the code has no protection against it, and no document promises any, so there is
  nothing to hold it to. A second controller in one process is modelled.
- Several readers of one run: they share nothing but the log.
- A system clock that goes back between writes of `updated_at`.
- The limit on threads of `asyncio.to_thread`: a control command may wait for a worker before
  it starts, which delays it and changes nothing else.
- Windows: `_terminate_popen` and the spawn use process groups on POSIX only; there the
  children of a child are not reached, which no property claims.

## 7. Plan

Done: the life of a run first, because everything else hangs on it; then the log, the
watchers, control commands, the tool surface; the three refinements and their proofs; the safety
proofs; liveness, of loops over all runs and events too. What is left is small: a model of two processes on
one data directory, once the code says what it wants to promise there; and the composition of
`RunLifecycle` with `ControlCommand` under one `close_now`, which would show only that the two halves
do not meet.
