-------------------------- MODULE SandboxLifecycle --------------------------
(***************************************************************************)
(* The synchronous SandboxLifecycle of core.py: the threads of several     *)
(* processes that share one sqlite file and one E2B account create, hold,  *)
(* pause, fork, adopt and kill sandboxes, while reap, reconcile and        *)
(* shutdown sweep what others left behind.  A step is one call on E2B, one *)
(* sqlite transaction, or a stretch of thread-local work; what lies        *)
(* between two steps is where threads interleave and where processes die.  *)
(***************************************************************************)
EXTENDS SandboxState, Naturals, FiniteSets

CONSTANTS
  Sid,            \* sandbox ids E2B may hand out, each at most once
  Foreign,        \* the ids of sandboxes somebody else creates on the account
  Process,        \* operating system processes, each with one SandboxLifecycle
  Mortal,         \* the processes that may crash
  Worker,         \* threads that run acquire, restore_from_snapshot, fork, ...
  Janitor,        \* threads that run reap, reconcile and shutdown
  ProcOf,         \* the process of each thread
  MaxConcurrent,  \* max_concurrent: permits of the run limiter
  Api,            \* the calls the application makes
  Faults,         \* the faults that occur
  NoSid           \* no sandbox

Thread == Worker \cup Janitor

ApiCalls == {"acquire", "restore", "pause", "resume", "fork", "adopt",
             "release", "expose", "close_port",
             "keep",  \* the application keeps the handle of a sandbox it left PAUSED
             "reap", "purge", "reconcile", "shutdown"}

FaultKinds == {"interrupt",  \* KeyboardInterrupt, or an exception, in a worker
               "hbstart",    \* KeyboardInterrupt inside hb.start()
               "rpc",        \* an E2B call fails
               "db",         \* the first write of a row fails
               "timeout",    \* E2B kills a sandbox at the end of its timeout
               "late"}       \* a heartbeat comes later than stale_timeout

ASSUME ConstantsAssumption ==
  /\ Foreign \subseteq Sid
  /\ Mortal \subseteq Process
  /\ Worker \cap Janitor = {}
  /\ ProcOf \in [Thread -> Process]
  /\ MaxConcurrent \in Nat \ {0}
  /\ Api \subseteq ApiCalls
  /\ Faults \subseteq FaultKinds
  /\ NoSid \notin Sid

\* A process has finitely many threads.
ASSUME WorkersFinite == IsFiniteSet(Worker)

VARIABLES
  e2b,       \* E2B's own view of each sandbox: the truth about what is billed
  row,       \* the state column of each row of table sandboxes, "none" without a row
  stale,     \* RUNNING rows with last_heartbeat older than stale_timeout
  ports,     \* sandboxes with a row in table port_forwards
  up,        \* the processes that are running
  inflight,  \* _inflight of each process
  beats,     \* heartbeats of each process that the end of a with block stops
  strays,    \* heartbeats of each process that nothing stops
  permits,   \* free permits of each process's run limiter
  pc,        \* what each thread is about to do
  cur,       \* the sandbox of the with block each worker is in
  via,       \* the call that opened the block: "acquire" or "restore"
  target,    \* the sandbox of the call (_kill_one, fork, adopt) a thread is in
  handles,   \* sandboxes each worker got from fork or resume_sandbox
  job,       \* the loop of the sweep each janitor is in
  todo,      \* the rows that loop has not visited yet
  tracked,   \* all_tracked() as the current reap read it
  killed,    \* killed_ids of the current reap
  lost       \* history: created, and their creator died before the row was written

dbVars      == <<row, stale, ports>>
processVars == <<up, inflight, beats, strays, permits>>
workerVars  == <<cur, via, handles>>
janitorVars == <<job, todo, tracked, killed>>

vars == <<e2b, dbVars, processVars, pc, target, workerVars, janitorVars, lost>>

-----------------------------------------------------------------------------

KillSteps  == {"claim", "kill", "confirm", "cleanGet", "cleanPut", "ports"}
CallSteps  == {"pauseGet", "pausePut", "resumeGet", "resumePut", "forked", "adopting"}
WorkerSteps == {"idle", "created", "recorded", "waiting", "body"} \cup CallSteps \cup KillSteps
JanitorSteps == {"idle", "sweep"} \cup KillSteps

ReapLoops   == {"reapCleaning", "reapStale", "reapForeign"}
ForcedLoops == {"reapForeign", "downInflight"}
Loops       == ReapLoops \cup {"recStale", "recCleaning",
                               "downInflight", "downCleaning", "downStale"}

Live == {"running", "paused"}

TypeOK ==
  /\ e2b \in [Sid -> Live \cup {"none", "dead"}]
  /\ row \in [Sid -> {"none", "running", "paused", "cleaning", "cleaned"}]
  /\ stale \subseteq Sid
  /\ ports \subseteq Sid
  /\ up \subseteq Process
  /\ inflight \in [Process -> SUBSET Sid]
  /\ beats \in [Process -> SUBSET Sid]
  /\ strays \in [Process -> SUBSET Sid]
  /\ permits \in [Process -> Nat]
  /\ pc \in [Thread -> WorkerSteps \cup JanitorSteps]
  /\ cur \in [Worker -> Sid \cup {NoSid}]
  /\ via \in [Worker -> {"acquire", "restore"}]
  /\ target \in [Thread -> Sid \cup {NoSid}]
  /\ handles \in [Worker -> SUBSET Sid]
  /\ job \in [Janitor -> Loops \cup {"none"}]
  /\ todo \in [Janitor -> SUBSET Sid]
  /\ tracked \in [Janitor -> SUBSET Sid]
  /\ killed \in [Janitor -> SUBSET Sid]
  /\ lost \subseteq Sid

Init ==
  /\ e2b = [s \in Sid |-> "none"]
  /\ row = [s \in Sid |-> "none"]
  /\ stale = {} /\ ports = {} /\ lost = {}
  /\ up = Process
  /\ inflight = [p \in Process |-> {}]
  /\ beats = [p \in Process |-> {}]
  /\ strays = [p \in Process |-> {}]
  /\ permits = [p \in Process |-> MaxConcurrent]
  /\ pc = [t \in Thread |-> "idle"]
  /\ cur = [w \in Worker |-> NoSid]
  /\ via = [w \in Worker |-> "acquire"]
  /\ target = [t \in Thread |-> NoSid]
  /\ handles = [w \in Worker |-> {}]
  /\ job = [j \in Janitor |-> "none"]
  /\ todo = [j \in Janitor |-> {}]
  /\ tracked = [j \in Janitor |-> {}]
  /\ killed = [j \in Janitor |-> {}]

-----------------------------------------------------------------------------
(* Shared pieces of the actions.                                           *)

At(t, step) == ProcOf[t] \in up /\ pc[t] = step
Goto(t, step) == pc' = [pc EXCEPT ![t] = step]
Call(t, s, step) == target' = [target EXCEPT ![t] = s] /\ Goto(t, step)

\* SandboxDB.upsert of a state; last_heartbeat is fresh or no longer looked at.
WriteRow(s, state) ==
  /\ row' = [row EXCEPT ![s] = state]
  /\ stale' = stale \ {s}

\* Mutation: a sweep that forgets the rows a failed kill left behind.
NoRows(state) == {}

\* SandboxDB.list_state.
RowsIn(state) == {s \in Sid : row[s] = state}

AllTracked == {s \in Sid : row[s] # "none"}

\* What Sandbox.connect leaves of a sandbox: a paused one is resumed.
Connected(x) == IF x = "paused" THEN "running" ELSE x

\* Mutation: acquire forgets hb.start().
BeatingNever(s) == FALSE

\* A heartbeat thread runs for s.
Beating(s) == \E p \in up : s \in beats[p] \cup strays[p]

-----------------------------------------------------------------------------
(* acquire and restore_from_snapshot, up to the body of the with block.    *)

\* Sandbox.create returned inside _create: E2B has a sandbox, h is still None.
Create(w, s, api) ==
  /\ api \in Api \cap {"acquire", "restore"}
  /\ At(w, "idle") /\ s \notin Foreign /\ e2b[s] = "none"
  /\ e2b' = [e2b EXCEPT ![s] = "running"]
  /\ cur' = [cur EXCEPT ![w] = s]
  /\ via' = [via EXCEPT ![w] = api]
  /\ Goto(w, "created")
  /\ UNCHANGED <<dbVars, processVars, target, handles, janitorVars, lost>>

\* _create writes the RUNNING row and returns the handle.
Record(w) ==
  /\ At(w, "created")
  /\ WriteRow(cur[w], "running")
  /\ Goto(w, "recorded")
  /\ UNCHANGED <<e2b, ports, processVars, target, workerVars, janitorVars, lost>>

\* The write failed: _create kills the sandbox, ignores a failure of that
\* kill, and raises.
RecordFails(w) ==
  /\ "db" \in Faults /\ At(w, "created")
  /\ \/ e2b' = [e2b EXCEPT ![cur[w]] = "dead"] /\ lost' = lost
     \/ "rpc" \in Faults /\ e2b' = e2b /\ lost' = lost \cup {cur[w]}
  /\ cur' = [cur EXCEPT ![w] = NoSid]
  /\ Goto(w, "idle")
  /\ UNCHANGED <<dbVars, processVars, target, via, handles, janitorVars>>

\* Mutation: the id never joins _inflight.
ForgetInflight(w, s) == UNCHANGED inflight

JoinInflight(w, s) == inflight' = [inflight EXCEPT ![ProcOf[w]] = @ \cup {s}]

\* _inflight.add and hb.start with its immediate heartbeat.
Register(w) ==
  LET p == ProcOf[w] IN
  /\ At(w, "recorded")
  /\ JoinInflight(w, cur[w])
  /\ \/ /\ via[w] = "acquire"
        /\ beats' = [beats EXCEPT ![p] = @ \cup {cur[w]}] /\ UNCHANGED strays
     \/ /\ via[w] = "restore"
        /\ strays' = [strays EXCEPT ![p] = @ \cup {cur[w]}] /\ UNCHANGED beats
  /\ stale' = stale \ {cur[w]}
  /\ Goto(w, "waiting")
  /\ UNCHANGED <<e2b, row, ports, up, permits, target, workerVars, janitorVars, lost>>

\* Mutation: a semaphore that does not block.
UnboundedPermits(p) == TRUE

FreePermit(p) == permits[p] > 0

\* _run_limiter.slot() is entered and the generator yields.
EnterBody(w) ==
  LET p == ProcOf[w] IN
  /\ At(w, "waiting") /\ FreePermit(p)
  /\ permits' = [permits EXCEPT ![p] = @ - 1]
  /\ Goto(w, "body")
  /\ UNCHANGED <<e2b, dbVars, up, inflight, beats, strays, target, workerVars,
                 janitorVars, lost>>

\* Mutation: a heartbeat that goes on after its block.
KeepBeating(w) == UNCHANGED beats

StopBeating(w) == beats' = [beats EXCEPT ![ProcOf[w]] = @ \ {cur[w]}]

\* Leaving the block: the permit goes back, the heartbeat of acquire stops,
\* and the finally clause calls _kill_one on the handle.
LeaveBlock(w, free) ==
  /\ permits' = [permits EXCEPT ![ProcOf[w]] = @ + free]
  /\ StopBeating(w)
  /\ Call(w, cur[w], "claim")
  /\ UNCHANGED <<e2b, dbVars, up, inflight, strays, workerVars, janitorVars>>

\* Mutation: the permit is not given back.
ExitWithPermit(w) ==
  /\ At(w, "body")
  /\ LeaveBlock(w, 0)
  /\ lost' = lost

Exit(w) ==
  /\ At(w, "body")
  /\ LeaveBlock(w, 1)
  /\ lost' = lost

-----------------------------------------------------------------------------
(* What a worker may do with a handle, in the body of its block or, with a  *)
(* handle of fork or resume_sandbox, outside one.                          *)

\* Where a worker is between two calls, and the handles it has there.
Base(w) == IF cur[w] = NoSid THEN "idle" ELSE "body"
Holds(w, s) ==
  \/ At(w, "idle") /\ s \in handles[w]
  \/ At(w, "body") /\ s \in handles[w] \cup {cur[w]}

Done(w) == Call(w, NoSid, Base(w))

\* handle.pause: the call on E2B, then set_state in two transactions.
PauseCall(w, s) ==
  /\ "pause" \in Api /\ Holds(w, s) /\ e2b[s] = "running"
  /\ e2b' = [e2b EXCEPT ![s] = "paused"]
  /\ Call(w, s, "pauseGet")
  /\ UNCHANGED <<dbVars, processVars, workerVars, janitorVars, lost>>

\* handle.resume: connect resumes the sandbox, then set_state.
ResumeCall(w, s) ==
  /\ "resume" \in Api /\ Holds(w, s) /\ e2b[s] \in Live
  /\ e2b' = [e2b EXCEPT ![s] = Connected(@)]
  /\ Call(w, s, "resumeGet")
  /\ UNCHANGED <<dbVars, processVars, workerVars, janitorVars, lost>>

\* set_state reads the row; StateTransitionError goes to the caller.
SetStateGet(w, get, state, put) ==
  /\ At(w, get)
  /\ \/ CanTransitionTo(row[target[w]], state) /\ Call(w, target[w], put)
     \/ ~ CanTransitionTo(row[target[w]], state) /\ Done(w)
  /\ UNCHANGED <<e2b, dbVars, processVars, workerVars, janitorVars, lost>>

PauseGet(w)  == SetStateGet(w, "pauseGet", "paused", "pausePut")
ResumeGet(w) == SetStateGet(w, "resumeGet", "running", "resumePut")

PausePut(w) ==
  /\ At(w, "pausePut")
  /\ WriteRow(target[w], "paused")
  /\ Done(w)
  /\ UNCHANGED <<e2b, ports, processVars, workerVars, janitorVars, lost>>

\* The new heartbeat of resume belongs to no with block.  The handle it returns
\* is another one for a sandbox the worker has already, and _inflight is left
\* as it is, also when the block of the sandbox is over.
ResumePut(w) ==
  /\ At(w, "resumePut")
  /\ WriteRow(target[w], "running")
  /\ strays' = [strays EXCEPT ![ProcOf[w]] = @ \cup {target[w]}]
  /\ Done(w)
  /\ UNCHANGED <<e2b, ports, up, inflight, beats, permits, workerVars, janitorVars, lost>>

\* handle.fork: E2B returned the clone, which has no row yet.
ForkCall(w, s, clone) ==
  /\ "fork" \in Api /\ Holds(w, s) /\ e2b[s] = "running"
  /\ clone \notin Foreign /\ e2b[clone] = "none"
  /\ e2b' = [e2b EXCEPT ![clone] = "running"]
  /\ Call(w, clone, "forked")
  /\ UNCHANGED <<dbVars, processVars, workerVars, janitorVars, lost>>

RecordForward(s) == ports' = ports \cup {s}

\* expose_port records a forward, also for a sandbox that has died: without a
\* command none of its calls on E2B is fatal.  close_port deletes the forward.
ExposePort(w, s) ==
  /\ "expose" \in Api /\ Holds(w, s)
  /\ RecordForward(s)
  /\ UNCHANGED <<e2b, row, stale, processVars, pc, target, workerVars, janitorVars, lost>>

ClosePort(w, s) ==
  /\ "close_port" \in Api /\ Holds(w, s) /\ s \in ports
  /\ ports' = ports \ {s}
  /\ UNCHANGED <<e2b, row, stale, processVars, pc, target, workerVars, janitorVars, lost>>

-----------------------------------------------------------------------------
(* resume_sandbox and _release, outside a with block.                      *)

\* Sandbox.connect on a sandbox that was left paused, or on somebody else's.
\* The application adopts no sandbox one of its running threads holds.
AdoptCall(w, s) ==
  /\ "adopt" \in Api /\ At(w, "idle") /\ e2b[s] \in Live
  /\ row[s] = "paused" \/ s \in Foreign
  /\ \A v \in Worker : s \notin handles[v] \cup {cur[v], target[v]}
  /\ e2b' = [e2b EXCEPT ![s] = Connected(@)]
  /\ Call(w, s, "adopting")
  /\ UNCHANGED <<dbVars, processVars, workerVars, janitorVars, lost>>

\* The clone of fork, or the sandbox of resume_sandbox, gets a RUNNING row
\* (whatever state an existing row is in by now) and joins _inflight; no
\* heartbeat starts.
RecordHandle(w) ==
  /\ At(w, "forked") \/ At(w, "adopting")
  /\ WriteRow(target[w], "running")
  /\ JoinInflight(w, target[w])
  /\ handles' = [handles EXCEPT ![w] = @ \cup {target[w]}]
  /\ Done(w)
  /\ UNCHANGED <<e2b, ports, up, beats, strays, permits, cur, via, janitorVars, lost>>

Release(w, s) ==
  /\ "release" \in Api /\ Holds(w, s) /\ s # cur[w]
  /\ handles' = [handles EXCEPT ![w] = @ \ {s}]
  /\ Call(w, s, "claim")
  /\ UNCHANGED <<e2b, dbVars, processVars, cur, via, janitorVars, lost>>

-----------------------------------------------------------------------------
(* _kill_one, by a worker that has the sandbox object or by a janitor that *)
(* only has the id and reconnects for every call.                          *)

Forced(t) == t \in Janitor /\ job[t] \in ForcedLoops

\* The claim refuses a PAUSED row, so the sandbox outlives its block, and the
\* application may use the handle again.  Handles of other rows are forgotten:
\* resume() raises on CLEANING and CLEANED ones, and those of an interrupted
\* kill that are still RUNNING are still in _inflight.
KeepPaused(w) ==
  /\ "keep" \in Api /\ pc[w] \in KillSteps /\ row[target[w]] = "paused"
  /\ handles' = [handles EXCEPT ![w] = @ \cup {target[w]}]

\* A worker goes on after its block, or where it called _release.
LeaveKill(w) ==
  /\ Call(w, NoSid, IF cur[w] = target[w] THEN "idle" ELSE Base(w))
  /\ cur' = [cur EXCEPT ![w] = IF @ = target[w] THEN NoSid ELSE @]
  /\ handles' = handles \/ KeepPaused(w)
  /\ UNCHANGED <<via, janitorVars>>

\* _kill_one returns; a worker then drops the id from _inflight.
Return(t) ==
  \/ /\ t \in Worker
     /\ LeaveKill(t)
     /\ inflight' = [inflight EXCEPT ![ProcOf[t]] = @ \ {target[t]}]
  \/ /\ t \in Janitor
     /\ Call(t, NoSid, "sweep")
     /\ UNCHANGED <<inflight, workerVars, janitorVars>>

\* _kill_one raises: a worker skips the discard, a sweep is given up.
Raise(t) ==
  /\ UNCHANGED inflight
  /\ \/ t \in Worker /\ LeaveKill(t)
     \/ /\ t \in Janitor
        /\ Call(t, NoSid, "idle")
        /\ job' = [job EXCEPT ![t] = "none"]
        /\ todo' = [todo EXCEPT ![t] = {}]
        /\ tracked' = [tracked EXCEPT ![t] = {}]
        /\ killed' = [killed EXCEPT ![t] = {}]
        /\ UNCHANGED workerVars

\* try_claim_for_kill changed the row, or left it alone.
Claim(t) ==
  /\ At(t, "claim") /\ row[target[t]] \in Claimable
  /\ WriteRow(target[t], "cleaning")
  /\ Goto(t, "kill")
  /\ UNCHANGED <<e2b, ports, processVars, target, workerVars, janitorVars, lost>>

ClaimRefused(t) ==
  /\ At(t, "claim") /\ row[target[t]] \notin Claimable
  /\ Return(t)
  /\ UNCHANGED <<e2b, dbVars, up, beats, strays, permits, lost>>

\* Sandbox.kill, or connect and kill: a sandbox that is gone stays gone.
Kill(t) ==
  /\ At(t, "kill")
  /\ e2b' = [e2b EXCEPT ![target[t]] = "dead"]
  /\ Goto(t, "confirm")
  /\ UNCHANGED <<dbVars, processVars, target, workerVars, janitorVars, lost>>

\* The exception is logged and the sandbox left as it is; a janitor's connect
\* may have resumed it before the call failed.
KillFails(t) ==
  /\ "rpc" \in Faults /\ At(t, "kill")
  /\ \/ e2b' = e2b
     \/ t \in Janitor /\ e2b' = [e2b EXCEPT ![target[t]] = Connected(@)]
  /\ Goto(t, "confirm")
  /\ UNCHANGED <<dbVars, processVars, target, workerVars, janitorVars, lost>>

\* Mutation: kill() is believed without a look at is_running().
KillBelieved(t) == TRUE

\* is_running answers for the object, which a paused sandbox does not; connect
\* answers for the id, and finds no sandbox or resumes it.
SeenDead(t) == IF t \in Worker THEN e2b[target[t]] # "running"
                               ELSE e2b[target[t]] \notin Live

ConfirmDead(t) ==
  /\ At(t, "confirm") /\ SeenDead(t)
  /\ Goto(t, IF Forced(t) THEN "cleanPut" ELSE "cleanGet")
  /\ UNCHANGED <<e2b, dbVars, processVars, target, workerVars, janitorVars, lost>>

\* Three answers "still running", or errors that say nothing: the row is left
\* for the next sweep.
ConfirmFails(t) ==
  /\ At(t, "confirm")
  /\ "rpc" \in Faults \/ ~ SeenDead(t)
  /\ \/ t \in Worker /\ e2b' = e2b
     \/ t \in Janitor /\ e2b' = [e2b EXCEPT ![target[t]] = Connected(@)]
  /\ Return(t)
  /\ UNCHANGED <<dbVars, up, beats, strays, permits, lost>>

\* set_state(CLEANED) reads the row: StateTransitionError unless it may become
\* CLEANED.
CleanGet(t) ==
  /\ At(t, "cleanGet")
  /\ \/ /\ CanTransitionTo(row[target[t]], "cleaned")
        /\ Goto(t, "cleanPut")
        /\ UNCHANGED <<inflight, target, workerVars, janitorVars>>
     \/ /\ ~ CanTransitionTo(row[target[t]], "cleaned")
        /\ Raise(t)
  /\ UNCHANGED <<e2b, dbVars, up, beats, strays, permits, lost>>

\* upsert CLEANED: the second half of set_state, or all of the forced path.
CleanPut(t) ==
  /\ At(t, "cleanPut")
  /\ WriteRow(target[t], "cleaned")
  /\ \/ Forced(t) /\ Return(t)
     \/ /\ ~ Forced(t) /\ Goto(t, "ports")
        /\ UNCHANGED <<inflight, target, workerVars, janitorVars>>
  /\ UNCHANGED <<e2b, ports, up, beats, strays, permits, lost>>

\* Mutation: delete_port_forwards is forgotten.
ForgetPorts(t) ==
  /\ At(t, "ports")
  /\ Return(t)
  /\ UNCHANGED <<e2b, dbVars, up, beats, strays, permits, lost>>

DeletePorts(t) ==
  /\ At(t, "ports")
  /\ ports' = ports \ {target[t]}
  /\ Return(t)
  /\ UNCHANGED <<e2b, row, stale, up, beats, strays, permits, lost>>

-----------------------------------------------------------------------------
(* reap, reconcile and shutdown: loops over lists of rows read once.       *)

Begin(j, loop, list) ==
  /\ At(j, "idle")
  /\ job' = [job EXCEPT ![j] = loop]
  /\ todo' = [todo EXCEPT ![j] = list]
  /\ Goto(j, "sweep")
  /\ UNCHANGED <<e2b, dbVars, processVars, target, workerVars, lost>>

\* reap holds _reaper_lock of its process to the end.
ReapBegin(j) ==
  /\ "reap" \in Api
  /\ \A k \in Janitor : ProcOf[k] = ProcOf[j] => job[k] \notin ReapLoops
  /\ Begin(j, "reapCleaning", RowsIn("cleaning"))
  /\ tracked' = [tracked EXCEPT ![j] = AllTracked]
  /\ UNCHANGED killed

ReconcileBegin(j) ==
  /\ "reconcile" \in Api
  /\ Begin(j, "recStale", stale)
  /\ UNCHANGED <<tracked, killed>>

ShutdownBegin(j) ==
  /\ "shutdown" \in Api
  /\ Begin(j, "downInflight", inflight[ProcOf[j]])
  /\ UNCHANGED <<tracked, killed>>

\* The loop calls _kill_one on its next row.
Visit(j, s) ==
  /\ At(j, "sweep") /\ s \in todo[j]
  /\ todo' = [todo EXCEPT ![j] = @ \ {s}]
  /\ killed' = [killed EXCEPT ![j] = IF job[j] \in ReapLoops THEN @ \cup {s} ELSE @]
  /\ Call(j, s, IF Forced(j) THEN "kill" ELSE "claim")
  /\ UNCHANGED <<e2b, dbVars, processVars, workerVars, job, tracked, lost>>

\* One loop is done and the next one reads its list.
NextLoop(j, from, to, list) ==
  /\ At(j, "sweep") /\ job[j] = from /\ todo[j] = {}
  /\ job' = [job EXCEPT ![j] = to]
  /\ todo' = [todo EXCEPT ![j] = list]
  /\ UNCHANGED <<e2b, dbVars, up, beats, strays, permits, pc, target, workerVars,
                 tracked, killed, lost>>

ReapStale(j) ==
  /\ NextLoop(j, "reapCleaning", "reapStale", stale \ killed[j])
  /\ UNCHANGED inflight

\* Candidates are what E2B lists and the reap did not find tracked when it began.
ReapForeign(j) ==
  /\ "purge" \in Api
  /\ NextLoop(j, "reapStale", "reapForeign",
              {s \in Sid : e2b[s] \in Live} \ (tracked[j] \cup killed[j]))
  /\ UNCHANGED inflight

ReconcileCleaning(j) ==
  /\ NextLoop(j, "recStale", "recCleaning", RowsIn("cleaning"))
  /\ UNCHANGED inflight

\* _inflight.clear(), whatever was added since the snapshot.
ShutdownCleaning(j) ==
  /\ NextLoop(j, "downInflight", "downCleaning", RowsIn("cleaning"))
  /\ inflight' = [inflight EXCEPT ![ProcOf[j]] = {}]

ShutdownStale(j) ==
  /\ NextLoop(j, "downCleaning", "downStale", stale)
  /\ UNCHANGED inflight

SweepEnd(j) ==
  /\ At(j, "sweep") /\ todo[j] = {}
  /\ job[j] \in {"reapStale", "reapForeign", "recCleaning", "downStale"}
  /\ job' = [job EXCEPT ![j] = "none"]
  /\ tracked' = [tracked EXCEPT ![j] = {}]
  /\ killed' = [killed EXCEPT ![j] = {}]
  /\ Goto(j, "idle")
  /\ UNCHANGED <<e2b, dbVars, processVars, target, workerVars, todo, lost>>

-----------------------------------------------------------------------------
(* Time, E2B and the processes.                                            *)

\* A RUNNING row has had no heartbeat for stale_timeout.  A heartbeat thread
\* that runs comes in time, and Register follows the write of the row at
\* once, unless the fault "late" occurs.
Expire(s) ==
  /\ row[s] = "running" /\ s \notin stale
  /\ \/ "late" \in Faults
     \/ /\ ~ Beating(s)
        /\ \A w \in Worker : ~ (At(w, "recorded") /\ cur[w] = s)
  /\ stale' = stale \cup {s}
  /\ UNCHANGED <<e2b, row, ports, processVars, pc, target, workerVars, janitorVars, lost>>

\* A heartbeat: UPDATE ... WHERE state = 'running'.
Heartbeat(s) ==
  /\ s \in stale /\ Beating(s)
  /\ stale' = stale \ {s}
  /\ UNCHANGED <<e2b, row, ports, processVars, pc, target, workerVars, janitorVars, lost>>

\* E2B kills a sandbox at the end of the timeout it was created with.
E2BTimeout(s) ==
  /\ "timeout" \in Faults /\ e2b[s] = "running"
  /\ e2b' = [e2b EXCEPT ![s] = "dead"]
  /\ UNCHANGED <<dbVars, processVars, pc, target, workerVars, janitorVars, lost>>

\* Somebody else creates a sandbox on the same account.
ForeignCreate(s) ==
  /\ s \in Foreign /\ e2b[s] = "none"
  /\ e2b' = [e2b EXCEPT ![s] = "running"]
  /\ UNCHANGED <<dbVars, processVars, pc, target, workerVars, janitorVars, lost>>

\* KeyboardInterrupt before h is assigned: finally finds h None, or there is no
\* finally yet.
InterruptCreate(w) ==
  /\ "interrupt" \in Faults /\ At(w, "created")
  /\ lost' = lost \cup {cur[w]}
  /\ cur' = [cur EXCEPT ![w] = NoSid]
  /\ Goto(w, "idle")
  /\ UNCHANGED <<e2b, dbVars, processVars, target, via, handles, janitorVars>>

\* Between _create and the heartbeat: restore_from_snapshot has no try there,
\* whether or not the id has joined _inflight.
InterruptRecorded(w) ==
  /\ "interrupt" \in Faults /\ At(w, "recorded") /\ lost' = lost
  /\ \/ via[w] = "acquire" /\ LeaveBlock(w, 0)
     \/ /\ via[w] = "restore"
        /\ inflight' = inflight \/ JoinInflight(w, cur[w])
        /\ cur' = [cur EXCEPT ![w] = NoSid]
        /\ Goto(w, "idle")
        /\ UNCHANGED <<e2b, dbVars, up, beats, strays, permits, target, via, handles,
                       janitorVars>>

\* hb.start() has started its thread, but the try after it is not entered:
\* nothing stops the heartbeat, and only acquire calls _kill_one.
InterruptHeartbeat(w) ==
  /\ "hbstart" \in Faults /\ At(w, "recorded")
  /\ JoinInflight(w, cur[w])
  /\ strays' = [strays EXCEPT ![ProcOf[w]] = @ \cup {cur[w]}]
  /\ stale' = stale \ {cur[w]}
  /\ \/ via[w] = "acquire" /\ Call(w, cur[w], "claim") /\ cur' = cur
     \/ /\ via[w] = "restore" /\ Goto(w, "idle") /\ target' = target
        /\ cur' = [cur EXCEPT ![w] = NoSid]
  /\ UNCHANGED <<e2b, row, ports, up, beats, permits, via, handles, janitorVars, lost>>

\* In the wait for the run limiter, or in a call made in the body.
InterruptBlock(w) ==
  /\ "interrupt" \in Faults /\ ProcOf[w] \in up /\ cur[w] # NoSid
  /\ \/ pc[w] = "waiting" /\ LeaveBlock(w, 0)
     \/ pc[w] \in CallSteps /\ LeaveBlock(w, 1)
  /\ lost' = IF pc[w] = "forked" THEN lost \cup {target[w]} ELSE lost

\* In a call made outside a block, or inside _kill_one.
InterruptCall(w) ==
  /\ "interrupt" \in Faults /\ ProcOf[w] \in up
  /\ pc[w] \in KillSteps \/ (pc[w] \in CallSteps /\ cur[w] = NoSid)
  /\ LeaveKill(w)
  /\ lost' = IF pc[w] = "forked" THEN lost \cup {target[w]} ELSE lost
  /\ UNCHANGED <<e2b, dbVars, processVars>>

\* The process dies without running anything more; sqlite and E2B stay.
Crash(p) ==
  LET died == {t \in Thread : ProcOf[t] = p}
      idle(f, v) == [t \in DOMAIN f |-> IF t \in died THEN v ELSE f[t]]
  IN
  /\ p \in Mortal \cap up
  /\ up' = up \ {p}
  /\ inflight' = [inflight EXCEPT ![p] = {}]
  /\ beats' = [beats EXCEPT ![p] = {}]
  /\ strays' = [strays EXCEPT ![p] = {}]
  /\ permits' = [permits EXCEPT ![p] = MaxConcurrent]
  /\ pc' = idle(pc, "idle") /\ target' = idle(target, NoSid)
  /\ cur' = idle(cur, NoSid) /\ handles' = idle(handles, {})
  /\ job' = idle(job, "none") /\ todo' = idle(todo, {})
  /\ tracked' = idle(tracked, {}) /\ killed' = idle(killed, {})
  /\ lost' = lost \cup {cur[w] : w \in {v \in Worker \cap died : pc[v] = "created"}}
                  \cup {target[w] : w \in {v \in Worker \cap died : pc[v] = "forked"}}
  /\ UNCHANGED <<e2b, dbVars, via>>

Restart(p) ==
  /\ p \in Process \ up
  /\ up' = up \cup {p}
  /\ UNCHANGED <<e2b, dbVars, inflight, beats, strays, permits, pc, target, workerVars,
                 janitorVars, lost>>

-----------------------------------------------------------------------------

KillStep(t) ==
  \/ Claim(t) \/ ClaimRefused(t) \/ Kill(t) \/ KillFails(t)
  \/ ConfirmDead(t) \/ ConfirmFails(t)
  \/ CleanGet(t) \/ CleanPut(t) \/ DeletePorts(t)

BlockStep(w) ==
  \/ \E s \in Sid, api \in {"acquire", "restore"} : Create(w, s, api)
  \/ Record(w) \/ RecordFails(w) \/ Register(w) \/ EnterBody(w) \/ Exit(w)

HandleStep(w) ==
  \/ \E s \in Sid :
       \/ PauseCall(w, s) \/ ResumeCall(w, s) \/ \E clone \in Sid : ForkCall(w, s, clone)
       \/ ExposePort(w, s) \/ ClosePort(w, s) \/ AdoptCall(w, s) \/ Release(w, s)
  \/ PauseGet(w) \/ PausePut(w) \/ ResumeGet(w) \/ ResumePut(w) \/ RecordHandle(w)

InterruptStep(w) ==
  \/ InterruptCreate(w) \/ InterruptRecorded(w) \/ InterruptHeartbeat(w)
  \/ InterruptBlock(w) \/ InterruptCall(w)

SweepBegin(j) == ReapBegin(j) \/ ReconcileBegin(j) \/ ShutdownBegin(j)

SweepStep(j) ==
  \/ \E s \in Sid : Visit(j, s)
  \/ ReapStale(j) \/ ReapForeign(j) \/ ReconcileCleaning(j)
  \/ ShutdownCleaning(j) \/ ShutdownStale(j) \/ SweepEnd(j)

Environment ==
  \/ \E s \in Sid : Expire(s) \/ Heartbeat(s) \/ E2BTimeout(s) \/ ForeignCreate(s)
  \/ \E p \in Process : Crash(p) \/ Restart(p)

Next ==
  \/ \E t \in Thread : KillStep(t)
  \/ \E w \in Worker : BlockStep(w) \/ HandleStep(w) \/ InterruptStep(w)
  \/ \E j \in Janitor : SweepBegin(j) \/ SweepStep(j)
  \/ Environment

Spec == Init /\ [][Next]_vars

\* Threads of a running process make progress, bodies end, time passes, an
\* application reaps again and again, and E2B does not fail for ever.
Fairness ==
  /\ \A w \in Worker : WF_vars(Record(w) \/ Register(w) \/ Exit(w)) /\ SF_vars(EnterBody(w))
  /\ \A t \in Thread : WF_vars(KillStep(t)) /\ SF_vars(Kill(t)) /\ SF_vars(ConfirmDead(t))
  /\ \A j \in Janitor : WF_vars(ReapBegin(j) \/ SweepStep(j))
  /\ \A s \in Sid : WF_vars(Expire(s))

FairSpec == Spec /\ Fairness

-----------------------------------------------------------------------------
(* Properties.                                                             *)

\* A worker has run the body of its block partly: it holds a permit.
InBody(w) ==
  /\ cur[w] # NoSid
  /\ pc[w] = "body" \/ pc[w] \in CallSteps \/ (pc[w] \in KillSteps /\ target[w] # cur[w])

\* Its sandbox is registered and it has not begun to leave the block.
InBlock(w) == ProcOf[w] \in up /\ (pc[w] = "waiting" \/ InBody(w))

\* No false clean ("do not mark CLEANED what is not dead", _kill_one): a row
\* says CLEANED only of a sandbox E2B no longer runs, whatever kills, errors,
\* interrupts and crashes came in between.
CleanedIsDead == \A s \in Sid : row[s] = "cleaned" => e2b[s] = "dead"

\* "Active tasks are never reaped": while a worker is in a with block, its
\* row stays RUNNING and no reap or reconcile of any process is killing its
\* sandbox, also when the list they sweep was read long ago.
HeldNeverClaimed ==
  \A w \in Worker : InBlock(w) =>
    /\ row[cur[w]] = "running"
    /\ \A t \in Thread : pc[t] \in KillSteps => target[t] # cur[w]

\* A sandbox we created and E2B still bills is always in reach of a later
\* sweep: its row is RUNNING or CLEANING, unless the row is about to be
\* written, or its creator died just before that.
LiveIsReapable ==
  \A s \in Sid \ Foreign : e2b[s] \in Live =>
    \/ row[s] \in {"running", "cleaning"}
    \/ s \in lost
    \/ \E w \in Worker : (pc[w] = "created" /\ cur[w] = s) \/ (pc[w] = "forked" /\ target[w] = s)

\* "with-exit auto-kills and confirms dead": when a worker comes out of the
\* kill at the end of its block, the sandbox is dead or its row is CLEANING and
\* the next sweep tries again.
BlockEndKills ==
  [][\A w \in Worker :
       ProcOf[w] \in up' /\ pc[w] \in KillSteps /\ pc'[w] = "idle"
         => e2b'[target[w]] = "dead" \/ row'[target[w]] = "cleaning"]_vars

\* "The state machine is enforced on every write path": after its first
\* write a row moves along can_transition_to only, whoever writes it.
EveryWriteLegal ==
  [][\A s \in Sid : row[s] # "none" => CanTransitionTo(row[s], row'[s])]_vars

\* What a worker holds, by a with block or by a handle.
HeldBy(w) == handles[w] \cup (IF InBlock(w) THEN {cur[w]} ELSE {})

\* _inflight misses nothing an exiting process must kill ("all methods that
\* produce a sandbox, resume among them, join _inflight, so that atexit and
\* shutdown can clean it"): the sandboxes its workers hold are in it while
\* their rows are RUNNING.
HeldIsInflight ==
  \A w \in Worker : ProcOf[w] \in up =>
    \A s \in HeldBy(w) : row[s] = "running" => s \in inflight[ProcOf[w]]

\* What holds of it: the only RUNNING sandboxes a worker holds that _inflight
\* misses are the ones a handle resumed after their block had given them up,
\* and those have a heartbeat.
HeldOrResumed ==
  \A w \in Worker : ProcOf[w] \in up =>
    \A s \in HeldBy(w) : row[s] = "running" =>
      s \in inflight[ProcOf[w]] \cup (handles[w] \cap strays[ProcOf[w]])

\* A heartbeat proves that somebody holds the sandbox: no RUNNING row is kept
\* fresh, and so out of reach of reap, when no worker has the sandbox any more.
HeartbeatMeansHeld ==
  \A s \in Sid : row[s] = "running" /\ Beating(s) =>
    \E w \in Worker : ProcOf[w] \in up /\ s \in handles[w] \cup {cur[w], target[w]}

\* "Active tasks are never reaped", for the handles of fork and
\* resume_sandbox: no janitor is killing a sandbox a worker holds that way.
HandleNeverReaped ==
  \A w \in Worker, j \in Janitor :
    ProcOf[w] \in up /\ pc[j] \in KillSteps => target[j] \notin handles[w]

\* A CLEANED row has no port forward left, except under a killer that is
\* about to delete them.
PortsDieWithSandbox ==
  \A s \in ports : row[s] = "cleaned" =>
    \E t \in Thread : pc[t] = "ports" /\ target[t] = s

\* No path out of a block loses or doubles a permit of the run limiter.
PermitsBalance ==
  \A p \in Process :
    permits[p] + Cardinality({w \in Worker : ProcOf[w] = p /\ InBody(w)}) = MaxConcurrent

\* No orphan leak: a sandbox with a RUNNING row is dead and CLEANED in the end,
\* whether its worker leaves the block, is interrupted or dies with its
\* process, and however often kills and confirmations fail on the way.
RunningEndsCleaned ==
  \A s \in Sid : row[s] = "running" ~> row[s] = "cleaned"

-----------------------------------------------------------------------------
(* The abstract promise, and the refinement mapping.                       *)

Own == Sid \ Foreign

\* A creator is about to write the first row of s.
AboutToRecord(s) ==
  \E w \in Worker : (pc[w] = "created" /\ cur[w] = s) \/ (pc[w] = "forked" /\ target[w] = s)

Account(s) ==
  CASE row[s] = "cleaned" -> "settled"
    [] row[s] \notin {"none", "cleaned"} -> "tracked"
    [] row[s] = "none" /\ e2b[s] = "none" -> "absent"
    [] row[s] = "none" /\ e2b[s] # "none" /\ s \in lost -> "lost"
    [] row[s] = "none" /\ e2b[s] # "none" /\ s \notin lost ->
         IF AboutToRecord(s) THEN "pending" ELSE "dropped"

Ledger == INSTANCE SandboxLedger WITH
  Sandbox <- Own,
  account <- [s \in Own |-> Account(s)],
  billed <- {s \in Own : e2b[s] \in Live}

\* Threads, crashes, sweeps and failing calls together keep the promise of
\* SandboxLedger: nothing recorded falls off the books, nothing alive is
\* settled, and nothing settled is opened again.
KeepsLedger == Ledger!Spec

=============================================================================
