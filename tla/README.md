# managed-e2b: TLA+ specifications, model checking and proofs

`managed_e2b` keeps the lifecycle of E2B sandboxes: it creates them at a bounded
rate, records each of them in a sqlite table, keeps a heartbeat while they are in
use, kills them at the end of a `with` block and reaps what crashed processes leave
behind. Sandboxes are billed for as long as they run, so what the library must get
right is *who may kill what, and when is a sandbox known to be dead*, with several
threads of several processes on one database, and an E2B service whose calls fail.

This directory models that in TLA+, checks it with TLC on small instances, and proves
with TLAPS, for any number of sandboxes, threads and processes, every safety property
the passing runs check and the refinement of an abstract specification.

All source lines below refer to `managed_e2b/core.py` unless another file is named.


## 1. Inventory

### 1.1 Components

| component | state it keeps | operations | what makes it correct |
|---|---|---|---|
| State machine (`models.py:20-64`) | none | `can_transition_to` | the graph every write follows |
| `SandboxDB`, table `sandboxes` (250-368) | one row per sandbox: state, `last_heartbeat` | `upsert`, `set_state`, `heartbeat`, `try_claim_for_kill`, `list_stale_running`, `list_state`, `all_tracked` | a row says CLEANED only of a dead sandbox; writes are legal transitions; what is alive can be found |
| `SandboxDB`, table `port_forwards` (387-415) | forwards per sandbox | `record_port_forward`, `list_port_forwards`, `delete_port_forwards` | forwards do not outlive the sandbox |
| `SandboxDB`, table `snapshots` (369-386), `save`, `cleanup_snapshots` | snapshots taken and not deleted | record, list, forget | no snapshot is lost or deleted twice |
| `acquire`, `restore_from_snapshot`, `_create` (1162-1345) | `_inflight`, the heartbeat, a permit | the `with` blocks | a held sandbox is left alone; the end of a block kills it; no exit leaks a sandbox or a permit |
| `SandboxHandle` (465-665), `resume_sandbox`, `_release` | sandboxes held without a block | `pause`, `resume`, `fork`, `resume_sandbox`, `_release`, `expose_port`, `close_port` | a handle's sandbox is tracked by `_inflight` and the table; what a handle revives is tracked again |
| `_kill_one`, `_confirm_dead` (1190-1262) | none of its own | claim, kill, confirm, mark CLEANED, delete forwards | never CLEANED without confirmation; killers exclude or tolerate each other |
| `reap`, `reconcile`, `shutdown` (1391-1544) | the lists they read once | sweeps over CLEANING, stale and foreign sandboxes, `_inflight` | everything dead or abandoned is cleaned in the end, nothing in use is touched |
| `Limiter` (423-439) | free permits | `slot` | permits balance on every path |
| `RateLimiter`, `AsyncRateLimiter` (441-463, `_async.py:28-50`) | time of the next create | `slot` | creates are at least an interval apart |
| `_Heartbeat`, `AsyncHeartbeat` (918-948, `_async.py:52-93`) | a thread or task per sandbox | beat, fail, stop | a held row never goes stale, an abandoned one does |
| `prewarm` (1032-1150) | `_template_ready`, `_template_alias`, a lock per name, build permits | reuse, build, retry, rename | one build per template, no broken template handed out, prewarm ends |
| Async lifecycle (`async_core.py`) | the same in one event loop, and kill tasks | the same, with cancellation at every `await`; `_atexit_shutdown` | the same, also when tasks are cancelled and the loop ends |
| Pydantic models (`models.py:67-187`) | none | `transition_to`, validators | inputs refused before any E2B call |
| Reverse tunnel (`expose_local`, 696-915) | a server in the sandbox, a forward, a client here, tokens | start, probe, try again | it returns only with a working tunnel, it ends, and a retry can succeed |
| Binary cache (60-206) | two files in `~/.cache` | look, run, delete, download, unpack, try out | several callers end up with a binary that runs |
| Stage in/out, `run_script`, `mount_tos`, configuration, errors, examples | none | pure I/O | out of scope |

### 1.2 How they interact

* Threads of one process share the `SandboxLifecycle` object: `_inflight`, the
  limiters, the template maps. Processes share nothing but the sqlite file and the
  E2B account. sqlite transactions (`_tx`, 271-279) are the unit of atomicity
  between processes; an E2B call is atomic on E2B's side but its answer may be lost.
* `acquire` calls `prewarm`, `_create` (create limiter, `Sandbox.create`, `upsert`),
  starts a heartbeat, waits for the run limiter, yields, and in its `finally` stops
  the heartbeat and calls `_kill_one`.
* `_kill_one` is called by block ends, `_release`, `reap`, `reconcile` and
  `shutdown`. The compare-and-set `try_claim_for_kill` is the only thing between two
  killers, and CLEANING may be claimed again on purpose. `force=True`, of the
  foreign loop of `reap` and the first loop of `shutdown`, skips the claim.
* The heartbeat is the only message between a worker and the reapers of other
  processes: it decides what `list_stale_running` returns.

### 1.3 Behaviours that are hard to test

Two killers of one sandbox; a sweep that works on a list it read some kills ago; a
check and a write of `set_state` in two transactions; a crash or an interrupt between
`Sandbox.create`, the row, `_inflight` and the heartbeat; a kill whose answer is an
error although the sandbox died, and a confirmation that cannot be had; heartbeats
that come late or fail; heartbeats nothing stops; forced kills beside claimed ones;
two threads that prewarm one template and a build that never answers; a task cancelled
at any `await`, with a kill that goes on without it; a loop that ends with kills under
way; a retry that meets what its first attempt left running; cleanups that overlap. `PROJECT.json`
lists each one under "hazards", at the line where it bites, with the properties that
would catch it.


## 2. Modules

```
SandboxState                 the state machine of models.py
  SandboxLifecycle           processes, threads, table, E2B: blocks, handles, kills, sweeps
    MCSandboxLifecycle         instances for TLC
    SandboxLifecycle_proofs    theorems: types, CLEANED means dead, held sandboxes, legal writes
      SandboxHolding_proofs      theorems: _inflight, heartbeats, permits, ends of blocks, forwards
        SandboxLedger_proofs       theorem: the refinement of SandboxLedger
  AsyncLifecycle             the same of async_core.py: tasks, cancellation, end of the loop
    MCAsyncLifecycle, AsyncLifecycle_proofs
SandboxLedger                abstract: what is billed and what the books say of it
                             (SandboxLifecycle implements it: Ledger == INSTANCE ... WITH)
HeartbeatTiming              interval and window arithmetic, one row, one holder
    MCHeartbeatTiming, HeartbeatTiming_proofs
TemplatePrewarm              prewarm of several threads or tasks and processes
    MCTemplatePrewarm, TemplatePrewarm_proofs
RateLimiter                  slots of the create limiter
  SnapshotTracker            save, restore_from_snapshot, cleanup_snapshots
    MCSnapshotTracker, SnapshotTracker_proofs
BinaryCache                  ensure_cached_binary
  ChiselTunnel               expose_local
    MCChiselTunnel, ChiselTunnel_proofs
```

`HeartbeatTiming` justifies what `SandboxLifecycle` takes for granted: without the
fault `"late"`, the row of a live heartbeat never goes stale.

### 2.1 SandboxLifecycle

**State.** `e2b[s]` is what E2B does with a sandbox, and bills (none, running,
paused, dead). `row[s]` is the state column. `stale` is the set of RUNNING rows that
`list_stale_running` would return; time itself is not in this module. Per process:
`inflight` (`_inflight`), `permits` (`_run_limiter`), `beats` and `strays`, the
heartbeats that somebody stops and those of
`restore_from_snapshot` (1336) and `resume` (579) which nobody does, nor one whose start was interrupted (1310). Per thread: `pc`, and `target`, the sandbox of the call it is in. Per worker: `cur`, the sandbox of its block, and
`handles`. Per janitor, a thread that sweeps: `job`, the loop it is in, `todo`, the
list that loop read once, `tracked` and `killed`. `lost` is a history variable: sandboxes
whose creator died between `Sandbox.create` and `upsert`.

**Actions**: one per E2B call or transaction.

| actions | code |
|---|---|
| `Create`, `Record`, `RecordFails`, `Register`, `EnterBody`, `Exit` | `_create` 1162-1188, `acquire` 1264-1322, `restore_from_snapshot` 1324-1345 |
| `PauseCall`, `PauseGet`, `PausePut`, `ResumeCall`, ... | `pause`, `resume` 562-582 with the two transactions of `set_state` 293-310 |
| `ForkCall`, `AdoptCall`, `RecordHandle`, `Release` | `fork` 541-560, `resume_sandbox` 1347-1359, `_release` 1361-1369 |
| `ExposePort`, `ClosePort`, `DeletePorts` | 594-665 and 1224-1228, the row of the forward only |
| `Claim`, `ClaimRefused`, `Kill`, `KillFails`, `ConfirmDead`, `ConfirmFails`, `CleanGet`, `CleanPut` | `_kill_one` and `_confirm_dead` 1190-1262 |
| `ReapBegin`, `Visit`, `ReapStale`, `ReapForeign`, `SweepEnd` | `reap` 1440-1524 |
| `ReconcileBegin`, `ReconcileCleaning`, `ShutdownBegin`, ... | `reconcile` 1391-1438, `shutdown` 1526-1544 |
| `InterruptCreate`, `InterruptRecorded`, `InterruptHeartbeat`, `InterruptBlock`, `InterruptCall` | an exception or `KeyboardInterrupt` in a worker, at each place with its own clean-up |
| `Expire`, `Heartbeat`, `E2BTimeout`, `ForeignCreate`, `Crash`, `Restart` | time, the heartbeat threads, E2B, other users of the account, the operating system |

**Abstractions.** One clone per `fork` call (a call for more repeats the loop body).
The pages of `Sandbox.list` are one list. Validation of arguments is left out.
A kill that fails may or may not have killed. A handle outlives its block where that matters: if the claim at the end of
the block was refused because the row says PAUSED, the application may keep the handle (`"keep"` in `Api`, `KeepPaused`) and
`resume()` it later. `reap` reads `all_tracked` (1453) and the first list (1464) in one step, and the loops after that read theirs when they start. `sandbox.is_running()` answers "no" of
a paused sandbox, as E2B does; this is why pausing has to be excluded in one theorem
below. `Api` says which calls the application makes and `Faults` which faults occur, so
that each run asks its question of the smallest program that can answer it.

### 2.2 HeartbeatTiming

One row and its holder, in seconds. `driver` chooses `_Heartbeat` or
`AsyncHeartbeat`; they compute the interval differently at `stale_timeout <= 10`. `lag` is how late
each wake-up may be (sub-second truncation of `int(time.time())` included: any lag of at least
one second covers it), `budget` how many beats may fail in a row. A heartbeat cannot survive every number of failures, so some have to be excluded:
`Endurable` takes those that leave room for one beat in a window which holds as many as the code means it to hold (`stale // 4`: four; the task at
10 seconds: two). It does not mention the interval the code computes, so that an interval too long for its window makes
`HeldNeverStale` fail (the mutant `HalfInterval`) instead of emptying the initial states.

### 2.3 TemplatePrewarm

The workers of several processes that call `prewarm`, all threads (`core.py:1032`) or all tasks
(`async_core.py:460`); `driver` says which. Threads are preempted between any two reads and writes, tasks
only at an `await`, but they are cancelled there. Per process: the ready map, the alias map, the
locks per name and the build slots (derived from the program counters). Outside, on E2B: the
`status` of each template. `Rename` is the second name a broken template is rebuilt
under; `Second` bounds how many the clock can produce. E2B may finish a build at any time, also after its
caller gave up. `PollReady` is an answer "ready" of `get_build_status`. `PollRefused` is the other way to `Reuse`: an
exception of `build_in_background` whose text has "already" or "not in waiting" (1107-1112) is taken for "ready" whatever the
status is. `taken` is a history variable: the templates that were not ready when this happened.

### 2.4 SandboxLedger and the refinement

The abstract promise, without threads, heartbeats, lists or retries. An account is `absent`, `pending`
(created, about to be recorded), `tracked`, `settled`, or, if its creator did not get to record it,
`lost` (it died) or `dropped` (it killed the sandbox itself). What is tracked stays so until it is
settled, only what E2B no longer bills is settled, and nothing is opened again.

`SandboxLifecycle!KeepsLedger` is that specification under the mapping `Account`: CLEANED is settled, any other row is
tracked, and without a row it depends on E2B, on `AboutToRecord` and on `lost`; `billed` is what runs or
is paused. Every claim, kill, confirmation, retry, heartbeat and sweep is a stutter but for two: a kill may `Stop` the
bill and `CleanPut` must `Settle`. A kill that is believed without being confirmed breaks it, and so does anything that
writes over CLEANED. It is checked in `core` and proved (`KeepsTheBooks`) for every application without `pause`, `resume` and `purge`.
With these it does not hold. `resume_sandbox` writes RUNNING over whatever row a paused sandbox has by then (1355), the two
transactions of `set_state` write PAUSED or RUNNING over the CLEANED a sweep has put between them, and the forced loop of `reap(purge_foreign=True)` writes CLEANED
for a sandbox whose creator has yet to record it. Without a paused sandbox `resume_sandbox` is a call for somebody else's sandbox, which
the books are not about.

### 2.5 AsyncLifecycle

**State.** `e2b`, `row`, `stale`, `ports`, `lost` are those of `SandboxLifecycle`. `proc[p]` is an event loop: whether it runs,
ends, or `_atexit_shutdown` is at work, with `_inflight`, the heartbeat tasks and what `_atexit_shutdown` still has to mark.
`task[o]` is an owner: a step, its block, the call it is in, its handles. `kill[<<p, s>>]` is the task that kills
`s` at the end of a block or for `_release`; it outlives its owner's interest. `sweep[j]` is a task in `reap`, `reconcile` or `shutdown`.
`calls` is the program under study (which calls each task makes), chosen at the start.

| actions | code (`async_core.py`) |
|---|---|
| `Create`, `Record`, `RecordFails`, `EnterBody` | `_create` 335-356, `acquire` 510-537 |
| `Exit`, `LeaveBlock`, `BlockEnds` | the `finally` of `acquire` 538-550 and of `restore_from_snapshot` 568-577 |
| `ForkCall`, `AdoptCall`, `RecordHandle`, `Release`, `Released`, `Forward` | 97-114, 579-599, 147-221 |
| `Claim`, `Kill`, `Confirm`, `CleanGet`, `CleanPut`, `DeletePorts` | `_kill_one`, `_confirm_dead` 359-406 |
| `ReapBegin`, `ReconcileBegin`, `ShutdownBegin`, `Visit`, `NextLoop` | 621-732 |
| `CancelCreate`, `CancelBlock`, `CancelCall`, `CancelSweep` | `CancelledError` at an `await`, where its clean-up differs |
| `LoopEnd` | `asyncio.run` cancels all tasks, kills and heartbeats among them |
| `Atexit`, `MarkLook`, `MarkRead`, `MarkWrite`, `Exited` | `_atexit_shutdown` 734-741, in three transactions a row |

Code between two awaits is one action: `Record` writes the row, adds to `_inflight`, starts the heartbeat and takes a free
permit, because nothing is awaited in between. A cancelled `to_thread(upsert)` is `WrittenOrNot`: the thread writes all the
same or never ran. A cancellation in `hb.stop()` is swallowed there (`_async.py:78`), which is why the kill task is always started; the mutant
`LeaveAtStop` lets it out. `AdoptCall` connects to any live sandbox that no task has, whatever its row says; `resume_sandbox` then writes
RUNNING over it (`async_core.py:579-591`). `shutdown` cancels the heartbeats and awaits each of them (`downBeats`) before it reads `_inflight`
(`downInflight`); other tasks run in between. `BlockEnds` is allowed while the kill goes on: `wait_for(shield(...), 120)` timed out or was
cancelled.

### 2.6 RateLimiter and SnapshotTracker

`RateLimiter` has the lock that is held through the sleep, `gap` (what is left until `next_allowed`) and for each
caller where it is in `slot()`. Times are ticks relative to the present, so that the state is finite. A sleeper may
wake late and may be interrupted. `since` is a history variable.

`SnapshotTracker` extends it: the snapshots on E2B (`alive`), table `snapshots` (`rows`), and for each caller the step of `save`
(532), `restore_from_snapshot` up to its create call (1332) or `cleanup_snapshots` (1371) it is at. Deletion on E2B
and in sqlite are two steps; each may fail or be the last of its process.

### 2.7 BinaryCache and ChiselTunnel

`BinaryCache` has the two files, `chisel` and `chisel.gz`, as what they are worth (none, a stub, cut short, whole, blocked by the
antivirus), and where each caller is in `ensure_cached_binary` (99-161): between its look at the file (`Miss`) and the
truncation of the archive (`StartFetch`, when the server has answered) others go on. Writing a binary that a client runs fails (ETXTBSY, `UnpackFails`). There is no lock in the code and none in the model.

`ChiselTunnel` extends it with `expose_local`: the server on `chisel_port`, its forward, the clients, and the `link` that makes
`sandbox_port` answer. All of them are told apart only by their token: of this call (`mine`) or of an
earlier one (`old`). No error path of the code stops anything, so none of the model's does. `Retries` says what the application
does after a failure. `died` is a history variable: the client the server lets in has died.


## 3. Runs

| run | question | result |
|---|---|---|
| `core` | Two workers of a crashing process on one permit, another process that reaps and reconciles, with interrupts (also inside `hb.start()`), failing calls, failed first writes and E2B timeouts: `TypeOK`, `CleanedIsDead`, `HeldNeverClaimed`, `LiveIsReapable`, `PermitsBalance`, `EveryWriteLegal`, and the refinement `KeepsLedger` | pass, 0.8 M states |
| `handles` | pause, resume (also by a handle kept after its block), fork, resume_sandbox, _release against a reaper, with interrupts and late heartbeats: `HeldOrResumed` | pass, 1.9 M |
| `sweeps` | Two reapers and a block end on the same sandboxes, with failing calls: `BlockEndKills`, `PortsDieWithSandbox` | pass, 1.0 M |
| `purge` | The forced kills of `reap(purge_foreign=True)` and `shutdown`, with crashes and a stranger's sandbox: `CleanedIsDead`, `LiveIsReapable`, `HeartbeatMeansHeld` | pass, 0.8 M |
| `live` | Every RUNNING row is CLEANED in the end: `RunningEndsCleaned` | pass, 71 k |
| `heartbeat` | Both intervals at six timeouts, with lag and failed beats: `HeldNeverStale`, `DeathIsNoticed` | pass, 5 k |
| `prewarm` | Two threads or two tasks, two templates, one build slot, failed and refused builds: `TypeOK`, `BuiltOnce`, `ReadyIsUsable`, `ReturnedIsUsable`, `PrewarmEnds` | pass, 193 k |
| `async` | Five programs of tasks cancelled anywhere, a loop that ends or crashes: `TypeOK`, `CleanedIsDead`, `HeldNeverKilled`, `HeldIsInflight`, `LiveIsReapable`, `BlockEndKills` | pass, 1.1 M |
| `tunnel` | Two callers, one cache, any two of seven faults: `TypeOK`, `ReturnedRecovers`, `CallEnds`, `RetrySucceeds` | pass, 94 k |
| `snapshots` | save, restore and overlapping cleanups with failures, interrupts and crashes: `TypeOK`, `SnapshotsTracked`, `GrantsSpaced`, `CleanupWorks`, `RestoreEnds` | pass, 6 k |
| `handle_reaped` | `HandleNeverReaped` | violated |
| `tunnel_retry` | `RetrySucceeds` of an application that calls again in the same sandbox | violated |

**Bounds.** Two sandboxes are enough for a block and a second block, a clone or a
stranger's sandbox; every hazard of the list involves one sandbox and at most three
actors, and each run has the actors its question needs: two workers of one process
where they share a permit, two janitors where killers meet. A sandbox id is used once, as
on E2B, so histories are finite without any counter; nothing else bounds the length
of a behaviour, and processes crash and restart without limit. `MaxConcurrent` is 1,
where waiting happens. `MaxBuild` is 1 for the same reason; that
the lock alone keeps two builds of one name apart where there are more slots is in the proof of `NamesAreBuiltOnce`. `HeartbeatTiming` is bounded because age stops one second after stale; its six
timeouts contain the smallest legal one (10), where the two drivers differ, the next three, around the
step from two seconds to three, and two where the interval is larger. In `async` one owner is enough: what
tasks of one loop do to each other goes through `_inflight`, the table and the kill tasks, and the janitor of the same
loop and the one of another process are there to interfere; each of the five programs has the calls of one hazard. `snapshots` has one snapshot that
is kept and one that is not, and an `Interval` of two ticks, so that a sleep can be interrupted halfway. `MaxFaults = 2` in `tunnel` is
one fault for each of two callers, or a second one in the retry of the first; after
the last one the program is on its own, which is what a liveness property needs.

**Deadlock.** Checked in every run but `tunnel` and `tunnel_retry`, where a caller that has its tunnel
does nothing any more. An idle program can always begin again or let E2B act;
where all sandboxes of the instance are used up the janitors still sweep and time still
passes.

**Fairness.** `SandboxLifecycle!Fairness`: a thread of a live process goes on (weak
fairness of its own steps); a body ends; waiters of the run limiter get a permit
(strong: permits come and go, and a `threading.Semaphore` wakes a waiter for each); a kill and a confirmation
tried again and again succeed now and then (strong: without this E2B may refuse for ever and
nobody can kill the sandbox); an application reaps again and again, as the README of the
repository tells it to do ("call from a timer/loop"); time passes. Nothing is assumed of
processes: they may stay down. `TemplatePrewarm!Fairness`: threads go on, and strong fairness of
taking a lock or a slot. Nothing is assumed of E2B: the deadlines of `_poll_template_status`
(1102) and `_build_with_timeout` (1127) must do the work. `HeartbeatTiming`: time passes. `SnapshotTracker`: callers go on, time passes, cleanups are
started again and again and neither E2B nor sqlite fails for ever, and a waiting caller is not passed over for ever in the
limiter's lock (the property is about one caller, and `threading.Lock` promises no order: this is an assumption on the platform; the
`asyncio.Lock` is first come, first served). `ChiselTunnel`: calls, downloads and chisel's own
reconnection answer, the user puts the binary on the white list, and the application tries again; where it may take a new
sandbox, it does so at last (strong). `AsyncLifecycle` states no liveness.


## 4. What the code does and its documents deny

Two are `violation` runs, and `PROJECT.json` quotes the document of each:

1. **fork and resume_sandbox have no heartbeat** (`handle_reaped`). Their sandboxes are reaped
   under their users once they are `stale_timeout` old. (The async `resume_sandbox` starts one, the async `fork`
   does not.)
2. **"Put it on the white list and try again" does not work in the same sandbox** (`tunnel_retry`). The first call has
   started a server with a token of its own before it finds that the binary is blocked. Nobody stops that server; the retry draws a new token, its server
   cannot bind the port, its client is refused. `close_port(8082)` helps, and so does a new sandbox: the run `tunnel` has both
   and passes.

The models show more, each by adding a call to a run or by taking a restriction from a property:

3. **resume does not join _inflight**, although the repository's README (219) says that all methods that produce a
   sandbox do. It matters for a handle used after its block: the block found the sandbox PAUSED, so that its claim was refused, and discarded
   the id (1320); `resume()` (570-581) then writes RUNNING and starts a heartbeat nothing stops. Neither `shutdown` nor any `reap` finds
   the sandbox as long as the process lives. `HeldOrResumed`, which the run `handles` checks, says that this is
   the only case. (`HeldIsInflight` in the run `handles`; without the repeated use of the handle, `"keep"`, it holds.)
4. **A refusal is taken for "ready".** Where `build_in_background` raises with "already" or "not in waiting" in its text,
   `_poll_template_status` returns "ready" (1107-1112) without asking for the status, against the comment at 1060-1061, and `prewarm` caches and
   returns a template that may be broken or half built. The comment at 1108 says that version 2.34.0 of the SDK does not raise there:
   this is a defence against a later one. (`ReadyIsUsable` and `ReturnedIsUsable` without `taken` in `Good`; with it, they say that no other
   template is ever answered that E2B has not built.)
5. **Forced kills write CLEANED over RUNNING**, the very jump the README (217) gives as an example of what is rejected:
   `_kill_one(force=True)` skips the claim and writes with `upsert` (1215-1220), which checks no transition. `resume_sandbox` (1355) likewise writes
   RUNNING over any row. (`EveryWriteLegal` with `shutdown`.)
6. **A paused sandbox survives the end of its block.** The claim (332) takes RUNNING and CLEANING rows only, the graph
   (`models.py:57`) also lets PAUSED go to CLEANING. No sweep lists PAUSED rows. (`BlockEndKills` with `Api = {"acquire", "pause"}`.)
7. **set_state checks and writes in two transactions.** A claim between the two is overwritten by
   PAUSED. (`EveryWriteLegal` with `pause` and `reap`.)
8. **max_concurrent does not bound RUNNING sandboxes.** They are created, and their rows written, before the run limiter (1302, 1312).
9. **Ready before alias.** A thread on the fast path of `prewarm` can get the broken name between the two assignments (1093,
   1094). Tasks cannot: `ReturnedIsUsable` is about them.
10. **A cached binary is not looked at closely.** `check=False` (123): a file cut above 1 MB by a killed installation
   runs, dies, and is returned for ever. `Undisturbed` excludes it from `RetrySucceeds`.
11. **Discarded and not marked.** When a loop ends during the kill at the end of a block, the kill is cancelled while
   its owner swallows the cancellation (`async_core.py:548`) and discards the id. `_atexit_shutdown` then
   leaves the row RUNNING, and only staleness brings it back. Its `try` is around the loop (736): one refused transition leaves all other rows unmarked.
12. **A snapshot whose record fails is not taken back** (`save`, 535-538), unlike a sandbox whose record fails (`_create`): `lost` in
   `SnapshotTracker`.
13. **A heartbeat nothing stops.** An interrupt between the start of the thread in `hb.start()` and the `try` after it (1310-1311, 1337-1338) leaves
   a heartbeat that `acquire` does not stop; that of a restored sandbox keeps its RUNNING row fresh, so that no reap of any process takes it
   while this one lives. (`HeartbeatMeansHeld` with `"hbstart"` in `Faults`.)

What holds only of some applications is stated with its restriction rather than
reported: `PortsDieWithSandbox` and `HeldNeverClaimed` do not survive forced kills or late
heartbeats; the repository's README warns of the forced kills of `purge_foreign` ("careful").


## 5. Proofs

`tlapm` checks every obligation of eight modules, the ones whose names end in `_proofs`. The assumptions on constants are
`ConstantsAssumption`, `WorkersFinite`, `AsyncAssumption`, `TasksDiffer`, `PrewarmAssumption`, `NamesDiffer`, `TimingAssumption`,
`LimiterAssumption`, `TrackerAssumption`, `CacheAssumption` and `TunnelAssumption`, which TLC evaluates in every run of their modules.
Three of them say more than what type a constant has. `WorkersFinite`: a process has finitely many threads (its permits are counted
by `Cardinality`). `NamesDiffer`: the name of a rebuilt template, which ends in `-r` and digits of the clock, is never the canonical name
of another one, which ends in twelve digits of a hash. `TasksDiffer`: a kill task is not a task that sweeps. The last column is what a
theorem assumes besides, about the application and its faults.

| theorem | statement | further assumption |
|---|---|---|
| *SandboxLifecycle_proofs* | | |
| `TypeCorrect` | `Spec => []TypeOK` | none |
| `NoFalseClean` | `Spec => []CleanedIsDead` | `pause` is not used |
| `HeldLeftAlone` | `Spec => []HeldNeverClaimed` | `Plain` |
| `WritesAreLegal` | `Spec => EveryWriteLegal` | `Plain` |
| *SandboxHolding_proofs* | | |
| `HeldOrResumedStays` | `Spec => []HeldOrResumed` | `shutdown` is not used |
| `HeldStaysInflight` | `Spec => []HeldIsInflight` | nor `resume` by a handle kept after its block |
| `HeartbeatsAreHeld` | `Spec => []HeartbeatMeansHeld` | `restore` and `resume` are not used, no interrupt inside `hb.start` |
| `NothingLiveIsForgotten` | `Spec => []LiveIsReapable` | `pause` is not used |
| `BlockEndsKill` | `Spec => BlockEndKills` | `pause` is not used, no interrupts |
| `PortsGoWithSandbox` | `Spec => []PortsDieWithSandbox` | `Plain`, no interrupts, no crashes |
| `PermitsAreBalanced` | `Spec => []PermitsBalance` | none |
| *SandboxLedger_proofs* | | |
| `KeepsTheBooks` | `Spec => KeepsLedger` | `pause`, `resume`, `purge` are not used |
| *AsyncLifecycle_proofs* | | |
| `TypeCorrect`, `CleanedRowsAreDead`, `NothingLiveIsForgotten`, `HeldStaysInflight`, `BlocksAreLeftAlone`, `BlockEndsKill` | `Spec => []TypeOK`, `[]CleanedIsDead`, `[]LiveIsReapable`, `[]HeldIsInflight`, `[]HeldNeverKilled`, `BlockEndKills` | none |
| *TemplatePrewarm_proofs* | | |
| `TypeCorrect`, `NamesAreBuiltOnce`, `ReadyStaysUsable`, `TasksGetBuiltTemplates` | `Spec => []TypeOK`, `[]BuiltOnce`, `[]ReadyIsUsable`, `[]ReturnedIsUsable` | none |
| *HeartbeatTiming_proofs* | | |
| `TwoBeatsPerWindow` | both intervals leave room for two beats in a window | none |
| `NeverStale` | `Spec => []HeldNeverStale` | none |
| *SnapshotTracker_proofs* | | |
| `TypeCorrect`, `NoSnapshotLost`, `GrantsAreSpaced` | `Spec => []TypeOK`, `[]SnapshotsTracked`, `GrantsSpaced` | none |
| *ChiselTunnel_proofs* | | |
| `TypeCorrect`, `ReturnedTunnelsRecover` | `Spec => []TypeOK`, `[]ReturnedRecovers` | none |

`Plain`: blocks, port forwards, `reap` and `reconcile` (no handles, no forced kills), and
heartbeats in time. Items 5 and 7 of section 4 show that `WritesAreLegal`, and item 1 that the claim behind `HeldLeftAlone`,
fail without it. The runs keep the further assumptions of the theorems about their properties. Each is there because the code breaks the property without it: a paused sandbox is "not running" and is listed by nobody;
`shutdown` empties `_inflight` of what is still held; `resume` does not join it; `restore_from_snapshot` and `resume` start heartbeats that
nobody stops, and so does an interrupt inside `hb.start`; an interrupt in the clean-up of a block leaves its sandbox to the reapers; an
interrupt or a crash between the last two steps of `_kill_one` leaves forwards of a CLEANED sandbox.

* **TypeCorrect.** `Typed` is `TypeOK` and `Shape`: a thread inside a call has a target in
  `Sid`, a worker inside a block has a `cur`. Without `Shape` the updates of
  `row[target[t]]` cannot be typed.
* **NoFalseClean.** CLEANED is written by the last step of `_kill_one` only. `Known`: whatever a row, a
  list or a thread names has been created on E2B. `Dead`: no sandbox is paused, a CLEANED row
  means dead, and so does a thread past its confirmation. That this knowledge does not go out of date
  is a fact about all actions (`E2BEvolves`: dead is for ever). "Not running" implies "dead" only because the
  sandbox was created (`Known`) and is not paused, which is the reason for the assumption.
* **HeldLeftAlone, WritesAreLegal.** `Kept` has three parts. `Ownership`: a sandbox is in
  at most one block, a worker has no other target than its own sandbox, no sweep is forced. `Untouched`:
  while a worker has its sandbox in a block, the row is RUNNING, it is not stale, a heartbeat runs,
  and *no list a sweep is working on contains it*. `Claimed`: who is past its claim finds the row CLEANING
  or CLEANED. The list is the crux: a sweep does not look at `last_heartbeat` again
  when it claims, so the row must never have been stale since it was written.
* **HeldOrResumedStays, HeldStaysInflight.** `Owned`: the sets `Mine(w)` of two workers, what they have in a block, a handle or a call under way,
  are disjoint, and nobody creates what another one has. Hence what a step takes out of `_inflight` (`Owned` says it is its own
  worker's) is not what another one holds, and `Listed` is inductive. `Listed` says of each sandbox that is held where it is `Backed`: in `_inflight`,
  or, `Excused`, by the heartbeat of a `resume` after the block. The second theorem rules the excuse out.
* **HeartbeatsAreHeld.** `BeatsHeld`: a heartbeat belongs to a worker whose block has that sandbox; `NoStrays` needs the assumption.
  A heartbeat is stopped before `cur` is forgotten on every exit, also by an interrupt.
* **NothingLiveIsForgotten.** `Booked`: who is billed and has no row is lost or about to get it; no step deletes a row
  (`CreationRule`), and with `Unpaused` and `Dead` a row is RUNNING or CLEANING as long as the sandbox lives.
* **BlockEndsKill.** `Engaged`: a worker past its claim has a CLEANING or CLEANED row. That it stays so is `RowsComeBack`: only a
  worker that has the sandbox, and is not killing it, writes RUNNING again. A killer that is refused or whose
  confirmation fails then leaves CLEANING; with CLEANED, `NoFalseClean` makes the sandbox dead.
* **PortsGoWithSandbox.** From `Kept`: no forward is added once a sandbox is claimed, as its worker is out of the block or is killing
  it; and only a thread that moves on to delete the forwards marks a row CLEANED.
* **PermitsAreBalanced.** The free permits and the workers inside a body add up to `MaxConcurrent`. `WorkerPermits` is the case analysis of
  the exits; a crash gives the process new permits and takes all its workers out.
* **KeepsTheBooks.** The refinement, action by action. `Recorded` is what the mapping needs beyond `Known`, `Dead`, `Booked` and `Owned`:
  a sandbox about to be recorded has no row and is not lost (`FreshRows`), a lost one never gets a row (`LostRows`), and every killer
  and list that writes without looking names a sandbox with a row (`NamedRows`). `KillBooked`, `BlockBooked`, `HandleBooked`,
  `InterruptBooked`, `SweepBooked`, `OutsideBooked` and `CrashBooked` show for each group of actions which abstract step it is: `Create`
  and `ForkCall` are `Start`, `Record` and `RecordHandle` are `Track`, a failed first write is `Drop`, interrupts and crashes are `Lose`, `Kill` may be `Stop`,
  `CleanPut` is `Settle` or, the second time, nothing.
* **The async lifecycle.** `Minded` is one inductive invariant for all six theorems. `Known` is as above; here "lost" and
  `BeingMade` also count cancellations. `Owned`: what two tasks have in hand is disjoint (`Separate`), a task whose
  loop has ended has no more than the block it comes out of (`EndedLoops`), and `Listed`. `Engaged` is about the kills that go on
  without their owner: a kill has a row (`KillsBooked`), the row of a block at its end, once claimed, is
  CLEANING or CLEANED (`EndingClaimed`), as nobody else can adopt its sandbox, and a block at its end has a dead or CLEANING sandbox or a kill at work (`EndingKilled`). `Untouched`, where nobody purges or shuts down: from its create to the
  end of its block a sandbox is on no sweep's list, under no kill, and not among the rows `_atexit_shutdown` of any process marks; its row is not
  stale and its heartbeat runs. The async properties carry their own restrictions (`~ Calling("purge")`), as `calls` is a variable there.
* **NamesAreBuiltOnce.** `Locked`: two workers of one process past the lock have different names, and who is past it has a name that is not ready.
  The second part needs that a name becomes ready at the hands of the holder of its own lock only; `NamesDiffer` enters here, because
  a rebuilt template is entered under its second name. It shows besides that the third look at `_template_ready`, under the
  build slot, never finds anything in a process on its own.
* **ReadyStaysUsable, TasksGetBuiltTemplates.** `Usable`: an alias points to itself or to a template that is `Good`, ready on E2B or
  `taken` for that after a refusal, and good is for ever (`GoodForEver`). The step `alias` of a thread, between the two assignments, is the one
  exception (item 9 of section 4).
* **NeverStale.** `Timed` is `TypeOK`, `Fits` (the failures in a row and the lag fit the window, which follows from `Endurable` because the
  intervals of the code are no longer than the share of a beat) and `AgeExplained`: the age of the row is accounted for by the time since the last wake-up and
  by the beats that failed since.
* **GrantsAreSpaced.** Every step of `SnapshotTracker` is one of eight as far as the limiter goes
  (`StepsOfLimiter`). `Limited` is preserved by these: `Sleepers`, who sleeps has the lock of its process and
  sleeps to the end of the gap or longer, and `Spaced`, the gap and the time since the last grant add up
  to the interval at least. A grant comes with no gap left (`GrantLate`), hence a whole interval after the last. The
  lock held through the sleep is needed: two sleepers would wake with one gap.
* **NoSnapshotLost.** `Erased`: who is about to forget a row has deleted its snapshot, and a deleted id does not come
  back. This holds for every caller at once, so that overlapping cleanups do no harm.
* **ReturnedTunnelsRecover.** `Held` has `Linked`, who holds `sandbox_port` is a running client with the token of
  the server, and the invariant itself. The probe sees the link only; `Linked` is what makes a successful
  probe say something about the processes behind it.

Only model-checked are the seven liveness properties (`RunningEndsCleaned`, `DeathIsNoticed`, `PrewarmEnds`, `CallEnds`, `RetrySucceeds`,
`CleanupWorks`, `RestoreEnds`): liveness under fairness and `ENABLED` are out of the prover's reach. Every run
keeps the assumptions of the theorems about its safety properties, so that none of these rests on the instance alone. No module uses recursive operators.


## 6. Not modelled

* Staging, `run_script`, `mount_tos`, `tunnel_local_http`, the ssh command, configuration and error classes, examples and
  tests: input and output without state of the library.
* The validators of `models.py`: conditions on the arguments of one call.
* The pages of `Sandbox.list`. In `reap` the loop ends at the first page without a new foreign sandbox (1512), so
  `purge` may miss some; sandboxes in the table are swept without that list.
* `pause` and `resume` of async handles, and liveness of the async lifecycle.
* What one read stands for: `reap` reads `all_tracked` (1453) and the CLEANING rows (1464) in one step of the models.
* Async writes that outlive their task: at the last write of a kill (`async_core.py:378-380`) a cancellation comes after the write that the thread
  completes anyway, not before it. `_create` has both orders (`WrittenOrNot`).
* An application that calls `resume_sandbox` for a sandbox whose kill its own process has not finished.
* Ports told apart: `ports` says whether a sandbox has a forward. A second `expose_local` for another port of the same
  sandbox, which meets the first one's server on the default `chisel_port`, is not modelled either.
* Downloads have no timeout in the code (`urlretrieve`); `Fairness` of `ChiselTunnel` takes it that they end.
* How close two create calls come after grants that are an interval apart: the code leaves it open.


## 7. Plan

Every safety property of a passing run has its theorem. What is left:

1. Theorems with weaker assumptions, where TLC agrees: `HeldLeftAlone` and `WritesAreLegal` for workers that also fork and release handles.
2. A refinement of `SandboxLedger` by `AsyncLifecycle`, from `Minded`.
3. Models: `pause` and `resume` of async handles; the pages of `reap`, in a run of their own.
