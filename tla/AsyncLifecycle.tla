--------------------------- MODULE AsyncLifecycle ---------------------------
(***************************************************************************)
(* AsyncSandboxLifecycle of async_core.py: the tasks of an event loop per  *)
(* process.  Nothing preempts a task between two awaits, but a task may be *)
(* cancelled at every await; the kill at the end of a block is a task of   *)
(* its own that its owner stops waiting for after 120 s or when cancelled; *)
(* and a loop that ends cancels all tasks and leaves _atexit_shutdown to   *)
(* mark in sqlite what is still in _inflight.                              *)
(***************************************************************************)
EXTENDS SandboxState, Naturals, FiniteSets

CONSTANTS
  Sid, NoSid,
  Process,        \* operating system processes, with one event loop each
  Mortal,         \* the processes that may end or crash
  Owner,          \* tasks that run acquire, restore_from_snapshot, ...
  Janitor,        \* tasks that run reap, reconcile and shutdown
  ProcOf,
  MaxConcurrent,
  Scenarios,      \* which calls each task makes: the programs that are looked at
  Faults          \* "cancel", "slow" (120 s pass), "rpc", "db"

ASSUME AsyncAssumption ==
  /\ NoSid \notin Sid /\ Mortal \subseteq Process
  /\ Owner \cap Janitor = {} /\ ProcOf \in [Owner \cup Janitor -> Process]
  /\ Scenarios \subseteq [Owner \cup Janitor ->
       SUBSET {"acquire", "fork", "adopt", "release", "expose",
               "reap", "purge", "reconcile", "shutdown"}]
  /\ MaxConcurrent \in Nat \ {0}

\* The task of a kill is none of the tasks that sweep.
ASSUME TasksDiffer == Janitor \cap (Process \X Sid) = {}

VARIABLES
  calls,                   \* the scenario
  e2b, row, stale, ports,  \* E2B, and the tables, as in SandboxLifecycle
  proc,   \* of each process: its loop, _inflight, heartbeat tasks, atexit's list
  task,   \* of each owner: where it is, its block, the call it is in, its handles
  sweep,  \* of each janitor: the loop it is in and the sets it works on
  kill,   \* the step of _kill_one each kill task, or janitor, is at
  lost    \* history: created, and the row was never written

dbVars == <<row, stale, ports>>
vars   == <<calls, e2b, dbVars, proc, task, sweep, kill, lost>>

\* The task that kills s at the end of a block, or for _release.
KillTask == Process \X Sid
Killer   == KillTask \cup Janitor

CallSteps == {"forked", "adopting", "releasing"}
KillSteps == {"claim", "kill", "confirm", "cleanGet", "cleanPut", "ports"}

\* The loop that follows each loop of reap, reconcile and shutdown.
Following ==
  [reapCleaning |-> "reapStale",    reapStale    |-> "reapForeign", reapForeign |-> "none",
   recStale     |-> "recCleaning",  recCleaning  |-> "none",
   downBeats    |-> "downInflight",
   downInflight |-> "downCleaning", downCleaning |-> "downStale",   downStale   |-> "none"]
ReapLoops   == {"reapCleaning", "reapStale", "reapForeign"}
ForcedLoops == {"reapForeign", "downInflight"}

NewProc  == [loop |-> "running", inflight |-> {}, beats |-> {}, marks |-> {}, mark |-> NoSid]
NewTask  == [at |-> "idle", cur |-> NoSid, target |-> NoSid, handles |-> {}]
NoSweep  == [job |-> "none", todo |-> {}, target |-> NoSid, tracked |-> {}, done |-> {}]

MaybeSid == Sid \cup {NoSid}

TypeOK ==
  /\ calls \in Scenarios
  /\ e2b \in [Sid -> {"none", "running", "dead"}]
  /\ row \in [Sid -> {"none", "running", "cleaning", "cleaned"}]
  /\ stale \subseteq Sid /\ ports \subseteq Sid /\ lost \subseteq Sid
  /\ proc \in [Process -> [loop: {"running", "ending", "look", "read", "write", "down"},
                           inflight: SUBSET Sid, beats: SUBSET Sid,
                           marks: SUBSET Sid, mark: MaybeSid]]
  /\ task \in [Owner -> [at: {"idle", "created", "waiting", "body", "ending"} \cup CallSteps,
                         cur: MaybeSid, target: MaybeSid, handles: SUBSET Sid]]
  /\ sweep \in [Janitor -> [job: DOMAIN Following \cup {"none"}, todo: SUBSET Sid,
                            target: MaybeSid, tracked: SUBSET Sid, done: SUBSET Sid]]
  /\ kill \in [Killer -> KillSteps \cup {"none", "raised"}]

Init ==
  /\ calls \in Scenarios
  /\ e2b = [s \in Sid |-> "none"] /\ row = [s \in Sid |-> "none"]
  /\ stale = {} /\ ports = {} /\ lost = {}
  /\ proc = [p \in Process |-> NewProc]
  /\ task = [o \in Owner |-> NewTask]
  /\ sweep = [j \in Janitor |-> NoSweep]
  /\ kill = [k \in Killer |-> "none"]

-----------------------------------------------------------------------------

Awake(p) == proc[p].loop \in {"running", "ending"}
At(o, step) == Awake(ProcOf[o]) /\ task[o].at = step
Idle(o) == proc[ProcOf[o]].loop = "running" /\ task[o].at = "idle"

\* A handle, and the sandbox of the block from its body.
Holds(o, s) ==
  \/ Idle(o) /\ s \in task[o].handles
  \/ At(o, "body") /\ s \in task[o].handles \cup {task[o].cur}

\* Between two calls an owner is in its block or outside one.
Back(o) == [task[o] EXCEPT !.at = IF task[o].cur = NoSid THEN "idle" ELSE "body",
                           !.target = NoSid]

WriteRow(s, state) == row' = [row EXCEPT ![s] = state] /\ stale' = stale \ {s}
RowsIn(state) == {s \in Sid : row[s] = state}

-----------------------------------------------------------------------------
(* acquire and restore_from_snapshot.                                      *)

\* Sandbox.create has made s; the row is not written yet.
Create(o, s) ==
  /\ "acquire" \in calls[o] /\ Idle(o) /\ e2b[s] = "none"
  /\ e2b' = [e2b EXCEPT ![s] = "running"]
  /\ task' = [task EXCEPT ![o].at = "created", ![o].cur = s]
  /\ UNCHANGED <<dbVars, proc, sweep, kill, lost>>

\* AsyncLimiter: a permit of the run limiter is free.
FreePermit(o) ==
  LET inBody(v) == task[v].cur # NoSid /\ task[v].at \in CallSteps \cup {"body"}
  IN  Cardinality({v \in Owner : ProcOf[v] = ProcOf[o] /\ inBody(v)}) < MaxConcurrent

\* Mutations: no heartbeat task, and no _inflight.
NoHeartbeat(o, s) == proc' = [proc EXCEPT ![ProcOf[o]].inflight = @ \cup {s}]
NotInflight(o, s) == proc' = [proc EXCEPT ![ProcOf[o]].beats = @ \cup {s}]

Register(o, s) ==
  proc' = [proc EXCEPT ![ProcOf[o]].inflight = @ \cup {s}, ![ProcOf[o]].beats = @ \cup {s}]

\* upsert has returned: no await from here to the run limiter.
Record(o) ==
  LET s == task[o].cur IN
  /\ At(o, "created")
  /\ WriteRow(s, "running")
  /\ Register(o, s)
  /\ task' = [task EXCEPT ![o].at = IF FreePermit(o) THEN "body" ELSE "waiting"]
  /\ UNCHANGED <<e2b, ports, sweep, kill, lost>>

RecordFails(o) ==
  LET s == task[o].cur IN
  /\ "db" \in Faults /\ At(o, "created")
  /\ \/ e2b' = [e2b EXCEPT ![s] = "dead"] /\ lost' = lost
     \/ "rpc" \in Faults /\ e2b' = e2b /\ lost' = lost \cup {s}
  /\ task' = [task EXCEPT ![o].at = "idle", ![o].cur = NoSid]
  /\ UNCHANGED <<dbVars, proc, sweep, kill>>

EnterBody(o) ==
  /\ At(o, "waiting") /\ FreePermit(o)
  /\ task' = [task EXCEPT ![o].at = "body"]
  /\ UNCHANGED <<e2b, dbVars, proc, sweep, kill, lost>>

\* Mutation: a cancellation gets out of hb.stop(), and no kill is started.
LeaveAtStop(o) ==
  /\ proc' = [proc EXCEPT ![ProcOf[o]].beats = @ \ {task[o].cur}]
  /\ task' = [task EXCEPT ![o].at = "idle", ![o].cur = NoSid, ![o].target = NoSid]
  /\ UNCHANGED <<e2b, ports, sweep, kill>>

\* The finally clause: the heartbeat is stopped (a cancellation that arrives
\* in hb.stop() is swallowed there) and the kill task created.
LeaveBlock(o) ==
  LET s == task[o].cur  p == ProcOf[o] IN
  /\ proc' = [proc EXCEPT ![p].beats = @ \ {s}]
  /\ kill' = [kill EXCEPT ![<<p, s>>] = "claim"]
  /\ task' = [task EXCEPT ![o].at = "ending", ![o].target = NoSid]
  /\ UNCHANGED <<e2b, ports, sweep>>

Exit(o) ==
  /\ At(o, "body")
  /\ LeaveBlock(o)
  /\ UNCHANGED <<row, stale, lost>>

\* The kill an owner waits for, at the end of its block or in _release.
Awaited(o) == <<ProcOf[o], IF task[o].at = "ending" THEN task[o].cur ELSE task[o].target>>

\* The discard is skipped when the kill raised.
Discard(o, skip) ==
  proc' = IF skip THEN proc ELSE [proc EXCEPT ![ProcOf[o]].inflight = @ \ {Awaited(o)[2]}]

\* The kill is over, or wait_for(shield(kill_t), 120) gives up or is cancelled
\* and the kill goes on without its owner.
BlockEnds(o) ==
  /\ At(o, "ending")
  /\ kill[Awaited(o)] \in KillSteps => Faults \cap {"slow", "cancel"} # {}
  /\ Discard(o, kill[Awaited(o)] = "raised")
  /\ task' = [task EXCEPT ![o].at = "idle", ![o].cur = NoSid]
  /\ UNCHANGED <<e2b, dbVars, sweep, kill, lost>>

-----------------------------------------------------------------------------
(* Handles of fork and resume_sandbox.                                     *)

\* fork: E2B has the clone, which has no row yet.
ForkCall(o, s, clone) ==
  /\ "fork" \in calls[o] /\ Holds(o, s) /\ e2b[s] = "running"
  /\ e2b[clone] = "none"
  /\ e2b' = [e2b EXCEPT ![clone] = "running"]
  /\ task' = [task EXCEPT ![o].at = "forked", ![o].target = clone]
  /\ UNCHANGED <<dbVars, proc, sweep, kill, lost>>

\* resume_sandbox connects to a sandbox that no owner has, whatever its row says
\* (a sweep may be killing it); the process does not kill it itself just now.
AdoptCall(o, s) ==
  /\ "adopt" \in calls[o] /\ Idle(o) /\ e2b[s] = "running"
  /\ \A v \in Owner : s \notin task[v].handles \cup {task[v].cur, task[v].target}
  /\ kill[<<ProcOf[o], s>>] \notin KillSteps
  /\ task' = [task EXCEPT ![o].at = "adopting", ![o].target = s]
  /\ UNCHANGED <<e2b, dbVars, proc, sweep, kill, lost>>

\* The row is written; only resume_sandbox starts a heartbeat, which nothing
\* but shutdown and the end of the loop stops.
RecordHandle(o) ==
  LET s == task[o].target IN
  /\ \/ At(o, "adopting") /\ Register(o, s)
     \/ At(o, "forked") /\ proc' = [proc EXCEPT ![ProcOf[o]].inflight = @ \cup {s}]
  /\ WriteRow(s, "running")
  /\ task' = [task EXCEPT ![o] = [Back(o) EXCEPT !.handles = @ \cup {s}]]
  /\ UNCHANGED <<e2b, ports, sweep, kill, lost>>

\* expose_port and close_port.
Forward(o, s) ==
  /\ "expose" \in calls[o] /\ Holds(o, s)
  /\ ports' = IF s \in ports THEN ports \ {s} ELSE ports \cup {s}
  /\ UNCHANGED <<e2b, row, stale, proc, task, sweep, kill, lost>>

\* _release: the shielded kill, ...
Release(o, s) ==
  /\ "release" \in calls[o] /\ Holds(o, s) /\ s # task[o].cur
  /\ task' = [task EXCEPT ![o].at = "releasing", ![o].target = s, ![o].handles = @ \ {s}]
  /\ kill' = [kill EXCEPT ![<<ProcOf[o], s>>] = "claim"]
  /\ UNCHANGED <<e2b, dbVars, proc, sweep, lost>>

\* ... and the discard.
Released(o) ==
  /\ At(o, "releasing") /\ kill[Awaited(o)] \notin KillSteps
  /\ Discard(o, kill[Awaited(o)] = "raised")
  /\ task' = [task EXCEPT ![o] = Back(o)]
  /\ UNCHANGED <<e2b, dbVars, sweep, kill, lost>>

-----------------------------------------------------------------------------
(* Cancellation of an owner: at each await that handles it differently.    *)

\* What a cancelled to_thread(upsert) leaves: its thread has begun, and writes
\* all the same, or it never will.
WrittenOrNot(s) ==
  \/ WriteRow(s, "running") /\ lost' = lost
  \/ UNCHANGED <<row, stale>> /\ lost' = IF row[s] = "none" THEN lost \cup {s} ELSE lost

\* `except Exception` does not see a CancelledError, and h is still None.
CancelCreate(o) ==
  /\ "cancel" \in Faults /\ At(o, "created")
  /\ WrittenOrNot(task[o].cur)
  /\ task' = [task EXCEPT ![o].at = "idle", ![o].cur = NoSid]
  /\ UNCHANGED <<e2b, ports, proc, sweep, kill>>

CancelBlock(o) ==
  /\ "cancel" \in Faults /\ task[o].cur # NoSid
  /\ \/ (At(o, "waiting") \/ At(o, "releasing")) /\ UNCHANGED <<row, stale, lost>>
     \/ At(o, "forked") /\ WrittenOrNot(task[o].target)
  /\ LeaveBlock(o)

CancelCall(o) ==
  /\ "cancel" \in Faults /\ task[o].cur = NoSid
  /\ \/ At(o, "releasing") /\ UNCHANGED <<row, stale, lost>>
     \/ (At(o, "forked") \/ At(o, "adopting")) /\ WrittenOrNot(task[o].target)
  /\ task' = [task EXCEPT ![o] = Back(o)]
  /\ UNCHANGED <<e2b, ports, proc, sweep, kill>>

-----------------------------------------------------------------------------
(* _kill_one: a kill task has the object, a janitor only the id.           *)

Victim(k) == IF k \in Janitor THEN sweep[k].target ELSE k[2]
Forced(k) == k \in Janitor /\ sweep[k].job \in ForcedLoops
KillAt(k, step) == Awake(IF k \in Janitor THEN ProcOf[k] ELSE k[1]) /\ kill[k] = step

Go(k, step) == kill' = [kill EXCEPT ![k] = step] /\ UNCHANGED sweep

\* A kill task ends; a janitor goes on with its list, or gives up its sweep.
Return(k) ==
  IF k \in Janitor THEN /\ kill' = [kill EXCEPT ![k] = "none"]
                        /\ sweep' = [sweep EXCEPT ![k].target = NoSid]
                   ELSE Go(k, "none")
Raise(k) ==
  IF k \in Janitor THEN /\ kill' = [kill EXCEPT ![k] = "none"]
                        /\ sweep' = [sweep EXCEPT ![k] = NoSweep]
                   ELSE Go(k, "raised")

Claim(k) ==
  /\ KillAt(k, "claim")
  /\ \/ row[Victim(k)] \in Claimable /\ WriteRow(Victim(k), "cleaning") /\ Go(k, "kill")
     \/ row[Victim(k)] \notin Claimable /\ Return(k) /\ UNCHANGED <<row, stale>>
  /\ UNCHANGED <<e2b, ports, proc, task, lost>>

\* kill succeeds, or its exception is logged.
Kill(k) ==
  /\ KillAt(k, "kill")
  /\ \/ e2b' = [e2b EXCEPT ![Victim(k)] = "dead"]
     \/ "rpc" \in Faults /\ e2b' = e2b
  /\ Go(k, "confirm")
  /\ UNCHANGED <<dbVars, proc, task, lost>>

\* Mutation: every error counts for "not found".
AnyErrorIsDeath(k) == TRUE

SeenDead(k) == e2b[Victim(k)] # "running"

Confirm(k) ==
  /\ KillAt(k, "confirm")
  /\ \/ SeenDead(k) /\ Go(k, IF Forced(k) THEN "cleanPut" ELSE "cleanGet")
     \/ ("rpc" \in Faults \/ ~ SeenDead(k)) /\ Return(k)
  /\ UNCHANGED <<e2b, dbVars, proc, task, lost>>

\* set_state(CLEANED) reads the row, ...
CleanGet(k) ==
  /\ KillAt(k, "cleanGet")
  /\ \/ CanTransitionTo(row[Victim(k)], "cleaned") /\ Go(k, "cleanPut")
     \/ ~ CanTransitionTo(row[Victim(k)], "cleaned") /\ Raise(k)
  /\ UNCHANGED <<e2b, dbVars, proc, task, lost>>

\* ... and writes it, as the forced path does without a look.
CleanPut(k) ==
  /\ KillAt(k, "cleanPut")
  /\ WriteRow(Victim(k), "cleaned")
  /\ IF Forced(k) THEN Return(k) ELSE Go(k, "ports")
  /\ UNCHANGED <<e2b, ports, proc, task, lost>>

DeletePorts(k) ==
  /\ KillAt(k, "ports")
  /\ ports' = ports \ {Victim(k)}
  /\ Return(k)
  /\ UNCHANGED <<e2b, row, stale, proc, task, lost>>

-----------------------------------------------------------------------------
(* reap, reconcile and shutdown.                                           *)

List(j, loop) ==
  CASE loop \in {"reapCleaning", "recCleaning", "downCleaning"} -> RowsIn("cleaning")
    [] loop \in {"recStale", "downStale"} -> stale
    [] loop = "reapStale"    -> stale \ sweep[j].done
    [] loop = "reapForeign"  -> IF "purge" \in calls[j]
         THEN {s \in Sid : e2b[s] = "running"} \ (sweep[j].tracked \cup sweep[j].done) ELSE {}
    [] loop = "downInflight" -> proc[ProcOf[j]].inflight
    [] OTHER -> {}

Begin(j, loop) ==
  /\ proc[ProcOf[j]].loop = "running" /\ sweep[j] = NoSweep
  /\ sweep' = [sweep EXCEPT ![j] = [NoSweep EXCEPT !.job = loop, !.todo = List(j, loop),
                                                   !.tracked = Sid \ RowsIn("none")]]
  /\ UNCHANGED <<e2b, dbVars, task, kill, lost>>

\* reap holds _reaper_lock of its process.
ReapBegin(j) ==
  /\ "reap" \in calls[j]
  /\ \A i \in Janitor : ProcOf[i] = ProcOf[j] => sweep[i].job \notin ReapLoops
  /\ Begin(j, "reapCleaning") /\ UNCHANGED proc

ReconcileBegin(j) == "reconcile" \in calls[j] /\ Begin(j, "recStale") /\ UNCHANGED proc

\* All heartbeats are cancelled, each one awaited, before _inflight is read.
ShutdownBegin(j) ==
  /\ "shutdown" \in calls[j]
  /\ Begin(j, "downBeats")
  /\ proc' = [proc EXCEPT ![ProcOf[j]].beats = {}]

Sweeping(j) == Awake(ProcOf[j]) /\ sweep[j].job # "none" /\ kill[j] = "none"

Visit(j, s) ==
  /\ Sweeping(j) /\ s \in sweep[j].todo
  /\ sweep' = [sweep EXCEPT ![j].todo = @ \ {s}, ![j].target = s, ![j].done = @ \cup {s}]
  /\ kill' = [kill EXCEPT ![j] = IF Forced(j) THEN "kill" ELSE "claim"]
  /\ UNCHANGED <<e2b, dbVars, proc, task, lost>>

\* The next loop reads its list, or the sweep is over; _inflight is cleared
\* after the forced kills of shutdown.
NextLoop(j) ==
  LET next == Following[sweep[j].job] IN
  /\ Sweeping(j) /\ sweep[j].todo = {}
  /\ sweep' = [sweep EXCEPT ![j] = IF next = "none" THEN NoSweep
                                   ELSE [@ EXCEPT !.job = next, !.todo = List(j, next)]]
  /\ proc' = IF sweep[j].job = "downInflight"
               THEN [proc EXCEPT ![ProcOf[j]].inflight = {}] ELSE proc
  /\ UNCHANGED <<e2b, dbVars, task, kill, lost>>

\* A sweep is cancelled at an await, its kill left where it is.
CancelSweep(j) ==
  /\ "cancel" \in Faults /\ Awake(ProcOf[j]) /\ sweep[j].job # "none" /\ kill[j] # "cleanPut"
  /\ sweep' = [sweep EXCEPT ![j] = NoSweep]
  /\ kill' = [kill EXCEPT ![j] = "none"]
  /\ UNCHANGED <<e2b, dbVars, proc, task, lost>>

-----------------------------------------------------------------------------
(* The end of a loop, and of a process.                                    *)

Owners(p) == {o \in Owner : ProcOf[o] = p}
KillersOf(p) == ({p} \X Sid) \cup {j \in Janitor : ProcOf[j] = p}
StopSweeps(p) == sweep' = [j \in Janitor |-> IF ProcOf[j] = p THEN NoSweep ELSE sweep[j]]

\* Created by p, and not in the table when its tasks end.
Unwritten(p) == {task[o].cur : o \in {v \in Owners(p) : task[v].at = "created"}}
           \cup {task[o].target : o \in {v \in Owners(p) : task[v].at = "forked"}}

\* asyncio.run returns: all tasks are cancelled once, kills and heartbeats
\* among them.  Owners in a block run their finally clauses, with a new kill
\* task that is not cancelled; those that already wait for one give up.
LoopEnd(p) ==
  LET blocks == {o \in Owners(p) : /\ task[o].cur # NoSid
                                   /\ task[o].at \notin {"created", "ending"}}
      given  == {task[o].cur : o \in {v \in Owners(p) : task[v].at = "ending"}}
      fresh  == {<<p, task[o].cur>> : o \in blocks}
  IN
  /\ p \in Mortal /\ proc[p].loop = "running"
  /\ \A k \in KillersOf(p) : kill[k] # "cleanPut"
  /\ proc' = [proc EXCEPT ![p].loop = "ending", ![p].inflight = @ \ given, ![p].beats = {}]
  /\ task' = [o \in Owner |-> IF o \in blocks
                THEN [NewTask EXCEPT !.at = "ending", !.cur = task[o].cur]
                ELSE IF o \in Owners(p) THEN NewTask ELSE task[o]]
  /\ kill' = [k \in Killer |-> IF k \in fresh THEN "claim"
                               ELSE IF k \in KillersOf(p) THEN "none" ELSE kill[k]]
  /\ StopSweeps(p)
  /\ lost' = lost \cup Unwritten(p)
  /\ UNCHANGED <<e2b, dbVars>>

\* The interpreter exits when the last finally clause has run.
Atexit(p) ==
  /\ proc[p].loop = "ending" /\ \A o \in Owners(p) : task[o].at = "idle"
  /\ proc' = [proc EXCEPT ![p].loop = "look", ![p].marks = proc[p].inflight]
  /\ kill' = [k \in Killer |-> IF k \in KillersOf(p) THEN "none" ELSE kill[k]]
  /\ UNCHANGED <<e2b, dbVars, task, sweep, lost>>

\* _atexit_shutdown looks at a row, ...
MarkLook(p, s) ==
  /\ proc[p].loop = "look" /\ s \in proc[p].marks
  /\ proc' = [proc EXCEPT ![p].marks = @ \ {s},
             ![p].mark = IF row[s] \in {"none", "cleaned"} THEN NoSid ELSE s,
             ![p].loop = IF row[s] \in {"none", "cleaned"} THEN "look" ELSE "read"]
  /\ UNCHANGED <<e2b, dbVars, task, sweep, kill, lost>>

\* ... set_state(CLEANING) reads it again, and may raise: the try is around
\* the loop, which ends; ...
MarkRead(p) ==
  /\ proc[p].loop = "read"
  /\ proc' = IF CanTransitionTo(row[proc[p].mark], "cleaning")
               THEN [proc EXCEPT ![p].loop = "write"]
               ELSE [proc EXCEPT ![p].loop = "look", ![p].marks = {}, ![p].mark = NoSid]
  /\ UNCHANGED <<e2b, dbVars, task, sweep, kill, lost>>

\* Mutation: the wrong state is written.
MarkTimeout(p) ==
  /\ proc[p].loop = "write"
  /\ WriteRow(proc[p].mark, "timeout")
  /\ proc' = [proc EXCEPT ![p].loop = "look", ![p].mark = NoSid]
  /\ UNCHANGED <<e2b, ports, task, sweep, kill, lost>>

\* ... and writes.
MarkWrite(p) ==
  /\ proc[p].loop = "write"
  /\ WriteRow(proc[p].mark, "cleaning")
  /\ proc' = [proc EXCEPT ![p].loop = "look", ![p].mark = NoSid]
  /\ UNCHANGED <<e2b, ports, task, sweep, kill, lost>>

Exited(p) ==
  /\ proc[p].loop = "look" /\ proc[p].marks = {}
  /\ proc' = [proc EXCEPT ![p] = [NewProc EXCEPT !.loop = "down"]]
  /\ UNCHANGED <<e2b, dbVars, task, sweep, kill, lost>>

Crash(p) ==
  /\ p \in Mortal /\ proc[p].loop # "down"
  /\ proc' = [proc EXCEPT ![p] = [NewProc EXCEPT !.loop = "down"]]
  /\ task' = [o \in Owner |-> IF o \in Owners(p) THEN NewTask ELSE task[o]]
  /\ kill' = [k \in Killer |-> IF k \in KillersOf(p) THEN "none" ELSE kill[k]]
  /\ StopSweeps(p)
  /\ lost' = lost \cup Unwritten(p)
  /\ UNCHANGED <<e2b, dbVars>>

Restart(p) ==
  /\ proc[p].loop = "down"
  /\ proc' = [proc EXCEPT ![p] = NewProc]
  /\ UNCHANGED <<e2b, dbVars, task, sweep, kill, lost>>

-----------------------------------------------------------------------------
(* Time, and E2B.                                                          *)

Beating(s) == \E p \in Process : s \in proc[p].beats

\* A heartbeat task of a running loop comes in time (HeartbeatTiming).
Expire(s) ==
  /\ row[s] = "running" /\ s \notin stale /\ ~ Beating(s)
  /\ stale' = stale \cup {s}
  /\ UNCHANGED <<e2b, row, ports, proc, task, sweep, kill, lost>>

-----------------------------------------------------------------------------

OwnerStep(o) ==
  \/ Record(o) \/ RecordFails(o) \/ EnterBody(o) \/ Exit(o) \/ BlockEnds(o)
  \/ RecordHandle(o) \/ Released(o)
  \/ \E s \in Sid : \/ Create(o, s) \/ AdoptCall(o, s) \/ Release(o, s) \/ Forward(o, s)
                    \/ \E clone \in Sid : ForkCall(o, s, clone)

CancelStep(o) == CancelCreate(o) \/ CancelBlock(o) \/ CancelCall(o)

KillStep(k) ==
  Claim(k) \/ Kill(k) \/ Confirm(k) \/ CleanGet(k) \/ CleanPut(k) \/ DeletePorts(k)

SweepStep(j) ==
  \/ ReapBegin(j) \/ ReconcileBegin(j) \/ ShutdownBegin(j)
  \/ NextLoop(j) \/ CancelSweep(j) \/ \E s \in Sid : Visit(j, s)

ExitStep(p) ==
  Atexit(p) \/ MarkRead(p) \/ MarkWrite(p) \/ Exited(p) \/ \E s \in Sid : MarkLook(p, s)

Next ==
  /\ calls' = calls
  /\ \/ \E o \in Owner : OwnerStep(o) \/ CancelStep(o)
     \/ \E k \in Killer : KillStep(k)
     \/ \E j \in Janitor : SweepStep(j)
     \/ \E p \in Process : LoopEnd(p) \/ ExitStep(p) \/ Crash(p) \/ Restart(p)
     \/ \E s \in Sid : Expire(s)

Spec == Init /\ [][Next]_vars

-----------------------------------------------------------------------------
(* Properties.                                                             *)

\* A row says CLEANED only of a sandbox E2B no longer runs ("confirm dead"),
\* wherever kill tasks, sweeps and loops were cancelled.
CleanedIsDead == \A s \in Sid : row[s] = "cleaned" => e2b[s] = "dead"

\* In a block, and not cancelled out of it.
InBlock(o) ==
  task[o].cur # NoSid /\ task[o].at \in CallSteps \cup {"waiting", "body"}

Calling(call) == \E t \in DOMAIN calls : call \in calls[t]

\* "Active long tasks are never reaped": where nobody purges or shuts down,
\* the sandbox of a block nobody has left is RUNNING and under no kill.
HeldNeverKilled ==
  ~ Calling("purge") /\ ~ Calling("shutdown") =>
    \A o \in Owner : InBlock(o) =>
      /\ row[task[o].cur] = "running"
      /\ \A k \in Killer : kill[k] \in KillSteps => Victim(k) # task[o].cur

\* _atexit_shutdown can find all that is still held: until a shutdown, RUNNING
\* sandboxes in the hands of an owner are in _inflight, whichever kill of
\* another block was left behind.
HeldIsInflight ==
  ~ Calling("shutdown") =>
    \A o \in Owner : \A s \in task[o].handles \cup (IF InBlock(o) THEN {task[o].cur} ELSE {}) :
      row[s] = "running" => s \in proc[ProcOf[o]].inflight

\* No cancellation takes a live sandbox out of reach of later sweeps, but the
\* one that arrives between Sandbox.create and the write of the row.
LiveIsReapable ==
  \A s \in Sid : e2b[s] = "running" =>
    \/ row[s] \in {"running", "cleaning"}
    \/ s \in lost
    \/ \E o \in Owner : \/ task[o].at = "created" /\ task[o].cur = s
                        \/ task[o].at = "forked" /\ task[o].target = s

\* A block a task comes out of is dead, left CLEANING for the next sweep, or
\* being killed by the task it gave up waiting for ("the kill goes on in the
\* background"), whatever was cancelled in its finally clause; only the end of
\* the loop takes the kill with it.
BlockEndKills ==
  [][\A o \in Owner :
       /\ Awake(ProcOf[o]) /\ proc'[ProcOf[o]].loop = proc[ProcOf[o]].loop
       /\ task[o].at \notin {"idle", "created"} /\ task[o].cur # NoSid /\ task'[o].cur = NoSid
       => LET s == task[o].cur IN
          \/ e2b'[s] = "dead" \/ row'[s] = "cleaning"
          \/ kill'[<<ProcOf[o], s>>] \in KillSteps]_vars

=============================================================================
