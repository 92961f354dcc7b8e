-------------------------- MODULE AsyncLifecycle_proofs --------------------------
(***************************************************************************)
(* Proofs about AsyncLifecycle, for every set of sandboxes, processes and  *)
(* tasks, every program and every cancellation.                            *)
(***************************************************************************)
EXTENDS AsyncLifecycle, TLAPS

-----------------------------------------------------------------------------
(* Type correctness, one variable after the other.  A task in the middle   *)
(* of a call has the sandbox of the call, and so have a killer and the     *)
(* loop of _atexit_shutdown.                                               *)

Steps == {"idle", "created", "waiting", "body", "ending"} \cup CallSteps
Tasks == [at: Steps, cur: MaybeSid, target: MaybeSid, handles: SUBSET Sid]
Procs == [loop: {"running", "ending", "look", "read", "write", "down"},
          inflight: SUBSET Sid, beats: SUBSET Sid, marks: SUBSET Sid, mark: MaybeSid]
Sweeps == [job: DOMAIN Following \cup {"none"}, todo: SUBSET Sid,
           target: MaybeSid, tracked: SUBSET Sid, done: SUBSET Sid]

RowsTyped ==
  /\ calls \in Scenarios
  /\ e2b \in [Sid -> {"none", "running", "dead"}]
  /\ row \in [Sid -> {"none", "running", "cleaning", "cleaned"}]
  /\ stale \subseteq Sid /\ ports \subseteq Sid /\ lost \subseteq Sid

TasksTyped ==
  /\ task \in [Owner -> Tasks]
  /\ \A o \in Owner : /\ task[o].at \in {"created", "waiting", "body", "ending"} =>
                           task[o].cur \in Sid
                      /\ task[o].at \in CallSteps => task[o].target \in Sid

ProcsTyped ==
  /\ proc \in [Process -> Procs]
  /\ \A p \in Process : proc[p].loop \in {"read", "write"} => proc[p].mark \in Sid

KillsTyped ==
  /\ sweep \in [Janitor -> Sweeps]
  /\ kill \in [Killer -> KillSteps \cup {"none", "raised"}]
  /\ \A j \in Janitor : kill[j] \in KillSteps => sweep[j].target \in Sid

Typed == RowsTyped /\ TasksTyped /\ ProcsTyped /\ KillsTyped

LEMMA TypedIsOK == Typed => TypeOK
BY DEF Typed, TypeOK, RowsTyped, TasksTyped, ProcsTyped, KillsTyped, Tasks, Procs, Sweeps, Steps

LEMMA Fixed ==
  /\ NewTask \in Tasks /\ NewTask.at = "idle" /\ NewTask.cur = NoSid /\ NewTask.handles = {}
  /\ NewProc \in Procs /\ NewProc.loop = "running" /\ NewProc.inflight = {}
  /\ NoSweep \in Sweeps
  /\ \A o \in Owner : ProcOf[o] \in Process
  /\ \A j \in Janitor : ProcOf[j] \in Process
BY AsyncAssumption
DEF AsyncAssumption, NewTask, Tasks, Steps, MaybeSid, NewProc, Procs, NoSweep, Sweeps, Following

LEMMA InitTyped == Init => Typed
<1> SUFFICES ASSUME Init
             PROVE  Typed
  OBVIOUS
<1>1. RowsTyped
  BY DEF Init, RowsTyped
<1>2. TasksTyped
  BY Fixed DEF Init, TasksTyped, CallSteps
<1>3. ProcsTyped
  BY Fixed DEF Init, ProcsTyped
<1>4. KillsTyped
  BY Fixed DEF Init, KillsTyped, KillSteps, Killer
<1> QED BY <1>1, <1>2, <1>3, <1>4 DEF Typed

LEMMA OwnerTasksTyped ==
  ASSUME TasksTyped, NEW o \in Owner, OwnerStep(o) \/ CancelStep(o)
  PROVE  TasksTyped'
<1> USE DEF At, Idle, Tasks, Steps, MaybeSid, CallSteps
<1>1. ASSUME NEW s \in Sid, Create(o, s)
      PROVE  TasksTyped'
  BY <1>1 DEF Create, TasksTyped
<1>2. CASE Record(o) \/ EnterBody(o)
  BY <1>2 DEF Record, EnterBody, TasksTyped
<1>3. CASE RecordFails(o) \/ BlockEnds(o) \/ CancelCreate(o)
  BY <1>3 DEF RecordFails, BlockEnds, CancelCreate, TasksTyped
<1>4. CASE Exit(o) \/ CancelBlock(o)
  BY <1>4 DEF Exit, CancelBlock, LeaveBlock, TasksTyped
<1>5. ASSUME NEW s \in Sid, AdoptCall(o, s) \/ \E clone \in Sid : ForkCall(o, clone, s)
      PROVE  TasksTyped'
  BY <1>5 DEF AdoptCall, ForkCall, TasksTyped
<1>6. ASSUME NEW s \in Sid, Release(o, s)
      PROVE  TasksTyped'
  <2>1. task' = [task EXCEPT ![o].at = "releasing", ![o].target = s, ![o].handles = @ \ {s}]
    BY <1>6 DEF Release
  <2>2. task' \in [Owner -> Tasks]
    <3> DEFINE r == [task[o] EXCEPT !.at = "releasing", !.target = s, !.handles = @ \ {s}]
    <3>1. r \in Tasks
      BY DEF TasksTyped
    <3>2. task' = [task EXCEPT ![o] = r]
      BY <2>1
    <3> HIDE DEF r
    <3> QED BY <3>1, <3>2 DEF TasksTyped
  <2>3. /\ task'[o].at = "releasing" /\ task'[o].target = s
        /\ \A v \in Owner \ {o} : task'[v] = task[v]
    BY <2>1 DEF TasksTyped
  <2> QED BY <2>2, <2>3 DEF TasksTyped
<1>7. Back(o) \in Tasks /\ (Back(o).at \in {"idle", "body"}) /\ (Back(o).at = "body" => Back(o).cur \in Sid)
  BY DEF Back, TasksTyped
<1>8. CASE Released(o) \/ CancelCall(o)
  BY <1>7, <1>8 DEF Released, CancelCall, TasksTyped
<1>9. CASE RecordHandle(o)
  BY <1>7, <1>9 DEF RecordHandle, TasksTyped
<1>10. ASSUME NEW s \in Sid, Forward(o, s)
       PROVE  TasksTyped'
  BY <1>10 DEF Forward, TasksTyped
<1> QED BY <1>1, <1>2, <1>3, <1>4, <1>5, <1>6, <1>8, <1>9, <1>10 DEF OwnerStep, CancelStep

\* The steps of an owner change _inflight and the heartbeats of its process.
OwnProc(o) ==
  /\ \A p \in Process \ {ProcOf[o]} : proc'[p] = proc[p]
  /\ \A p \in Process : /\ proc'[p].loop = proc[p].loop /\ proc'[p].marks = proc[p].marks
                        /\ proc'[p].mark = proc[p].mark

LEMMA OwnerProcsTyped ==
  ASSUME TasksTyped, ProcsTyped, NEW o \in Owner, OwnerStep(o) \/ CancelStep(o)
  PROVE  ProcsTyped' /\ OwnProc(o)
<1>0. ProcOf[o] \in Process
  BY Fixed
<1>1. ASSUME NEW s \in Sid, proc' = [proc EXCEPT ![ProcOf[o]].inflight = @ \cup {s}]
      PROVE  ProcsTyped' /\ OwnProc(o)
  BY <1>0, <1>1 DEF ProcsTyped, Procs, OwnProc
<1>2. ASSUME NEW s \in Sid, Register(o, s)
      PROVE  ProcsTyped' /\ OwnProc(o)
  BY <1>0, <1>2 DEF Register, ProcsTyped, Procs, OwnProc
<1>3. ASSUME NEW s, proc' = [proc EXCEPT ![ProcOf[o]].inflight = @ \ {s}]
      PROVE  ProcsTyped' /\ OwnProc(o)
  BY <1>0, <1>3 DEF ProcsTyped, Procs, OwnProc
<1>4. ASSUME NEW s, proc' = [proc EXCEPT ![ProcOf[o]].beats = @ \ {s}]
      PROVE  ProcsTyped' /\ OwnProc(o)
  BY <1>0, <1>4 DEF ProcsTyped, Procs, OwnProc
<1>5. CASE proc' = proc
  BY <1>5 DEF ProcsTyped, OwnProc
<1>6. CASE Record(o)
  BY <1>2, <1>6 DEF Record, At, TasksTyped
<1>7. CASE RecordHandle(o)
  <2>1. task[o].target \in Sid
    BY <1>7 DEF RecordHandle, At, TasksTyped, CallSteps
  <2> QED BY <1>1, <1>2, <1>7, <2>1 DEF RecordHandle
<1>8. CASE BlockEnds(o) \/ Released(o)
  BY <1>3, <1>5, <1>8 DEF BlockEnds, Released, Discard
<1>9. CASE Exit(o) \/ CancelBlock(o)
  BY <1>4, <1>9 DEF Exit, CancelBlock, LeaveBlock
<1>10. CASE RecordFails(o) \/ EnterBody(o) \/ CancelCreate(o) \/ CancelCall(o)
  BY <1>5, <1>10 DEF RecordFails, EnterBody, CancelCreate, CancelCall
<1>11. ASSUME NEW s \in Sid, \/ Create(o, s) \/ AdoptCall(o, s) \/ Release(o, s) \/ Forward(o, s)
                             \/ \E clone \in Sid : ForkCall(o, s, clone)
       PROVE  ProcsTyped' /\ OwnProc(o)
  BY <1>5, <1>11 DEF Create, AdoptCall, Release, Forward, ForkCall
<1> QED BY <1>6, <1>7, <1>8, <1>9, <1>10, <1>11 DEF OwnerStep, CancelStep

LEMMA ExitProcsTyped ==
  ASSUME ProcsTyped, NEW p \in Process, LoopEnd(p) \/ ExitStep(p) \/ Crash(p) \/ Restart(p)
  PROVE  ProcsTyped' /\ \A q \in Process \ {p} : proc'[q] = proc[q]
<1> USE DEF ProcsTyped, Procs, MaybeSid
<1>1. ASSUME NEW r \in Procs, proc' = [proc EXCEPT ![p] = r], r.loop \notin {"read", "write"}
      PROVE  ProcsTyped' /\ \A q \in Process \ {p} : proc'[q] = proc[q]
  BY <1>1
<1>2. CASE LoopEnd(p)
  <2>1. PICK given : proc' = [proc EXCEPT ![p].loop = "ending", ![p].inflight = @ \ given,
                                          ![p].beats = {}]
    BY <1>2 DEF LoopEnd
  <2> DEFINE r == [proc[p] EXCEPT !.loop = "ending", !.inflight = @ \ given, !.beats = {}]
  <2>2. r \in Procs /\ r.loop = "ending"
    OBVIOUS
  <2>3. proc' = [proc EXCEPT ![p] = r]
    BY <2>1
  <2> HIDE DEF r
  <2> QED BY <1>1, <2>2, <2>3
<1>3. CASE Atexit(p)
  BY <1>3 DEF Atexit
<1>4. CASE MarkRead(p) \/ MarkWrite(p)
  BY <1>4 DEF MarkRead, MarkWrite
<1>5. ASSUME NEW s \in Sid, MarkLook(p, s)
      PROVE  ProcsTyped' /\ \A q \in Process \ {p} : proc'[q] = proc[q]
  <2> DEFINE r == [proc[p] EXCEPT
                     !.marks = @ \ {s},
                     !.mark = IF row[s] \in {"none", "cleaned"} THEN NoSid ELSE s,
                     !.loop = IF row[s] \in {"none", "cleaned"} THEN "look" ELSE "read"]
  <2>1. proc' = [proc EXCEPT ![p] = r]
    BY <1>5 DEF MarkLook
  <2>2. r \in Procs /\ (r.loop \in {"read", "write"} => r.mark \in Sid)
    OBVIOUS
  <2> HIDE DEF r
  <2> QED BY <2>1, <2>2
<1>6. [NewProc EXCEPT !.loop = "down"] \in Procs /\ [NewProc EXCEPT !.loop = "down"].loop = "down"
  BY Fixed
<1>7. CASE Exited(p) \/ Crash(p)
  BY <1>1, <1>6, <1>7 DEF Exited, Crash
<1>8. CASE Restart(p)
  BY <1>1, <1>8, Fixed DEF Restart
<1> QED BY <1>2, <1>3, <1>4, <1>5, <1>7, <1>8 DEF ExitStep

LEMMA SweepProcsTyped ==
  ASSUME ProcsTyped, NEW j \in Janitor, SweepStep(j)
  PROVE  /\ ProcsTyped'
         /\ \A p \in Process : /\ proc'[p].loop = proc[p].loop /\ proc'[p].marks = proc[p].marks
                               /\ proc'[p].mark = proc[p].mark
<1> USE Fixed DEF ProcsTyped, Procs
<1>1. CASE ShutdownBegin(j)
  BY <1>1 DEF ShutdownBegin
<1>2. CASE NextLoop(j)
  BY <1>2 DEF NextLoop
<1>3. CASE proc' = proc
  BY <1>3
<1> QED BY <1>1, <1>2, <1>3 DEF SweepStep, ReapBegin, ReconcileBegin, CancelSweep, Visit

\* The steps of an owner change no sweep, and of the kills they only start the
\* one of a sandbox in the owner's hands.
OwnKills(o) ==
  /\ sweep' = sweep
  /\ \/ kill' = kill
     \/ \E s \in {task[o].cur} \cup task[o].handles :
          s \in Sid /\ kill' = [kill EXCEPT ![<<ProcOf[o], s>>] = "claim"]

LEMMA OwnerKillsTyped ==
  ASSUME TasksTyped, KillsTyped, NEW o \in Owner, OwnerStep(o) \/ CancelStep(o)
  PROVE  KillsTyped' /\ OwnKills(o)
<1>1. ASSUME NEW s \in Sid, kill' = [kill EXCEPT ![<<ProcOf[o], s>>] = "claim"], sweep' = sweep
      PROVE  KillsTyped'
  <2>1. <<ProcOf[o], s>> \in Killer /\ <<ProcOf[o], s>> \notin Janitor
    BY Fixed, TasksDiffer DEF TasksDiffer, Killer, KillTask
  <2> QED BY <1>1, <2>1 DEF KillsTyped, KillSteps, Killer
<1>2. CASE kill' = kill /\ sweep' = sweep
  BY <1>2 DEF KillsTyped, OwnKills
<1>3. CASE Exit(o) \/ CancelBlock(o)
  <2>1. task[o].cur \in Sid
    BY <1>3 DEF Exit, CancelBlock, At, TasksTyped, Tasks, MaybeSid
  <2> QED BY <1>1, <1>3, <2>1 DEF Exit, CancelBlock, LeaveBlock, OwnKills
<1>4. ASSUME NEW s \in Sid, Release(o, s)
      PROVE  KillsTyped' /\ OwnKills(o)
  <2>1. s \in {task[o].cur} \cup task[o].handles
    BY <1>4 DEF Release, Holds
  <2> QED BY <1>1, <1>4, <2>1 DEF Release, OwnKills
<1>5. CASE Record(o) \/ RecordFails(o) \/ EnterBody(o) \/ BlockEnds(o) \/ RecordHandle(o)
           \/ Released(o) \/ CancelCreate(o) \/ CancelCall(o)
  BY <1>2, <1>5 DEF Record, RecordFails, EnterBody, BlockEnds, RecordHandle, Released,
                    CancelCreate, CancelCall
<1>6. ASSUME NEW s \in Sid, \/ Create(o, s) \/ AdoptCall(o, s) \/ Forward(o, s)
                            \/ \E clone \in Sid : ForkCall(o, s, clone)
      PROVE  KillsTyped' /\ OwnKills(o)
  BY <1>2, <1>6 DEF Create, AdoptCall, Forward, ForkCall
<1> QED BY <1>3, <1>4, <1>5, <1>6 DEF OwnerStep, CancelStep

\* The steps of a killer move nobody else.
OwnKill(k) ==
  /\ task' = task /\ proc' = proc /\ lost' = lost
  /\ \A i \in Killer \ {k} : kill'[i] = kill[i]
  /\ \A j \in Janitor \ {k} : sweep'[j] = sweep[j]
  /\ k \in Janitor => \/ sweep'[k] = sweep[k]
                      \/ sweep'[k] = [sweep[k] EXCEPT !.target = NoSid]
                      \/ sweep'[k] = NoSweep

LEMMA KillerTyped ==
  ASSUME KillsTyped, NEW k \in Killer, KillStep(k)
  PROVE  KillsTyped' /\ OwnKill(k)
<1> DEFINE Kept ==
      /\ KillsTyped'
      /\ \A i \in Killer \ {k} : kill'[i] = kill[i]
      /\ \A j \in Janitor \ {k} : sweep'[j] = sweep[j]
      /\ k \in Janitor => \/ sweep'[k] = sweep[k]
                          \/ sweep'[k] = [sweep[k] EXCEPT !.target = NoSid]
                          \/ sweep'[k] = NoSweep
<1>1. ASSUME NEW step \in KillSteps, Go(k, step), kill[k] \in KillSteps
      PROVE  Kept
  BY <1>1 DEF Go, KillsTyped, Killer
<1>2. ASSUME Return(k)
      PROVE  Kept
  <2>1. CASE k \in Janitor
    <3>1. sweep' \in [Janitor -> Sweeps]
      BY <1>2, <2>1 DEF Return, KillsTyped, Sweeps, MaybeSid
    <3> QED BY <1>2, <2>1, <3>1 DEF Return, KillsTyped, Killer, KillSteps
  <2>2. CASE k \notin Janitor
    BY <1>2, <2>2 DEF Return, Go, KillsTyped, Killer, KillSteps
  <2> QED BY <2>1, <2>2
<1>3. ASSUME Raise(k)
      PROVE  Kept
  <2>1. CASE k \in Janitor
    BY <1>3, <2>1, Fixed DEF Raise, KillsTyped, Killer, KillSteps
  <2>2. CASE k \notin Janitor
    BY <1>3, <2>2 DEF Raise, Go, KillsTyped, Killer, KillSteps
  <2> QED BY <2>1, <2>2
<1>4. kill[k] \in KillSteps /\ UNCHANGED <<task, proc, lost>>
  BY DEF KillStep, Claim, Kill, Confirm, CleanGet, CleanPut, DeletePorts, KillAt, KillSteps
<1> HIDE DEF Kept
<1>5. Kept
  BY <1>1, <1>2, <1>3, <1>4
     DEF KillStep, Claim, Kill, Confirm, CleanGet, CleanPut, DeletePorts, KillSteps
<1> QED BY <1>4, <1>5 DEF Kept, OwnKill

\* The steps of a sweep change its own record and, at its end, its own kill.
OwnSweep(j) ==
  /\ task' = task /\ lost' = lost /\ UNCHANGED <<e2b, dbVars>>
  /\ \A i \in Killer \ {j} : kill'[i] = kill[i]
  /\ \A i \in Janitor \ {j} : sweep'[i] = sweep[i]

LEMMA ListTyped ==
  ASSUME RowsTyped, ProcsTyped, NEW j \in Janitor, NEW loop
  PROVE  List(j, loop) \subseteq Sid
BY Fixed DEF List, RowsTyped, ProcsTyped, Procs, RowsIn

LEMMA SweepTyped ==
  ASSUME RowsTyped, ProcsTyped, KillsTyped, NEW j \in Janitor, SweepStep(j)
  PROVE  KillsTyped' /\ OwnSweep(j)
<1> USE DEF KillsTyped, OwnSweep, Killer
<1>1. ASSUME NEW loop \in DOMAIN Following, Begin(j, loop)
      PROVE  KillsTyped' /\ OwnSweep(j)
  <2> DEFINE r == [NoSweep EXCEPT !.job = loop, !.todo = List(j, loop),
                                  !.tracked = Sid \ RowsIn("none")]
  <2>1. r \in Sweeps /\ r.target = NoSid
    BY ListTyped DEF NoSweep, Sweeps, MaybeSid
  <2>2. sweep' = [sweep EXCEPT ![j] = r] /\ sweep[j] = NoSweep
    BY <1>1 DEF Begin
  <2>3. NoSweep.target = NoSid /\ NoSid \notin Sid
    BY AsyncAssumption DEF AsyncAssumption, NoSweep
  <2> HIDE DEF r
  <2> QED BY <1>1, <2>1, <2>2, <2>3 DEF Begin
<1>2. CASE ReapBegin(j) \/ ReconcileBegin(j) \/ ShutdownBegin(j)
  BY <1>1, <1>2 DEF ReapBegin, ReconcileBegin, ShutdownBegin, Following
<1>3. ASSUME NEW s \in Sid, Visit(j, s)
      PROVE  KillsTyped' /\ OwnSweep(j)
  <2> DEFINE r == [sweep[j] EXCEPT !.todo = @ \ {s}, !.target = s, !.done = @ \cup {s}]
  <2>1. r \in Sweeps /\ r.target = s
    BY DEF Sweeps, MaybeSid
  <2>2. sweep' = [sweep EXCEPT ![j] = r]
    BY <1>3 DEF Visit
  <2>3. kill' = [kill EXCEPT ![j] = IF Forced(j) THEN "kill" ELSE "claim"]
    BY <1>3 DEF Visit
  <2> HIDE DEF r
  <2>4. KillsTyped'
    BY <2>1, <2>2, <2>3 DEF KillSteps
  <2>5. OwnSweep(j)
    BY <1>3, <2>2, <2>3 DEF Visit
  <2> QED BY <2>4, <2>5
<1>4. CASE NextLoop(j)
  <2> DEFINE next == Following[sweep[j].job]
             r == IF next = "none" THEN NoSweep
                  ELSE [sweep[j] EXCEPT !.job = next, !.todo = List(j, next)]
  <2>1. sweep[j].job \in DOMAIN Following
    BY <1>4 DEF NextLoop, Sweeping, Sweeps
  <2>2. next \in DOMAIN Following \cup {"none"}
    BY <2>1 DEF Following
  <2>3. r \in Sweeps
    BY <2>2, ListTyped, Fixed DEF Sweeps
  <2>4. sweep' = [sweep EXCEPT ![j] = r]
    BY <1>4 DEF NextLoop
  <2>5. kill[j] \notin KillSteps /\ kill' = kill
    BY <1>4 DEF NextLoop, Sweeping, KillSteps
  <2> HIDE DEF r
  <2> QED BY <1>4, <2>3, <2>4, <2>5 DEF NextLoop
<1>5. CASE CancelSweep(j)
  BY <1>5, Fixed DEF CancelSweep, KillSteps
<1> QED BY <1>2, <1>3, <1>4, <1>5 DEF SweepStep

\* The end of a process ends the sweeps and kills of its own tasks.
LEMMA ExitTyped ==
  ASSUME TasksTyped, KillsTyped, NEW p \in Process,
         LoopEnd(p) \/ ExitStep(p) \/ Crash(p) \/ Restart(p)
  PROVE  /\ TasksTyped' /\ KillsTyped'
         /\ \A k \in Killer \ KillersOf(p) : kill'[k] = kill[k]
         /\ \A o \in Owner \ Owners(p) : task'[o] = task[o]
         /\ \A j \in Janitor : sweep'[j] = sweep[j] \/ (ProcOf[j] = p /\ sweep'[j] = NoSweep)
<1> DEFINE Kept ==
      /\ KillsTyped'
      /\ \A k \in Killer \ KillersOf(p) : kill'[k] = kill[k]
      /\ \A j \in Janitor : sweep'[j] = sweep[j] \/ (ProcOf[j] = p /\ sweep'[j] = NoSweep)
<1>1. ASSUME NEW fresh, fresh \subseteq {p} \X Sid,
             kill' = [k \in Killer |-> IF k \in fresh THEN "claim"
                                       ELSE IF k \in KillersOf(p) THEN "none" ELSE kill[k]],
             StopSweeps(p)
      PROVE  Kept
  <2>1. \A j \in Janitor : j \notin fresh
    BY <1>1, TasksDiffer DEF TasksDiffer
  <2>2. KillsTyped'
    BY <1>1, <2>1, Fixed DEF KillsTyped, KillersOf, StopSweeps, Killer, KillSteps
  <2>3. \A k \in Killer \ KillersOf(p) : kill'[k] = kill[k]
    BY <1>1 DEF KillersOf
  <2> QED BY <1>1, <2>2, <2>3 DEF StopSweeps
<1>2. CASE LoopEnd(p)
  <2> DEFINE blocks == {o \in Owners(p) : /\ task[o].cur # NoSid
                                          /\ task[o].at \notin {"created", "ending"}}
             fresh == {<<p, task[o].cur>> : o \in blocks}
  <2>1. \A o \in blocks : task[o].cur \in Sid
    BY DEF Owners, TasksTyped, Tasks, MaybeSid
  <2>2. Kept
    <3>1. fresh \subseteq {p} \X Sid
      BY <2>1
    <3>2. /\ kill' = [k \in Killer |-> IF k \in fresh THEN "claim"
                                       ELSE IF k \in KillersOf(p) THEN "none" ELSE kill[k]]
          /\ StopSweeps(p)
      BY <1>2 DEF LoopEnd
    <3> HIDE DEF fresh, Kept
    <3> QED BY <1>1, <3>1, <3>2
  <2>3. task' = [o \in Owner |-> IF o \in blocks
                   THEN [NewTask EXCEPT !.at = "ending", !.cur = task[o].cur]
                   ELSE IF o \in Owners(p) THEN NewTask ELSE task[o]]
    BY <1>2 DEF LoopEnd
  <2>4. \A o \in blocks : LET r == [NewTask EXCEPT !.at = "ending", !.cur = task[o].cur]
                          IN  r \in Tasks /\ r.at = "ending" /\ r.cur \in Sid
    BY <2>1, Fixed DEF Tasks, Steps, MaybeSid
  <2>5. TasksTyped'
    <3> HIDE DEF blocks
    <3> QED BY <2>3, <2>4, Fixed DEF TasksTyped, CallSteps
  <2>6. \A o \in Owner \ Owners(p) : task'[o] = task[o]
    BY <2>3
  <2> QED BY <2>2, <2>5, <2>6
<1>3. CASE Crash(p)
  <2>1. Kept
    <3> DEFINE fresh == {} \cap ({p} \X Sid)
    <3>1. kill' = [k \in Killer |-> IF k \in fresh THEN "claim"
                                    ELSE IF k \in KillersOf(p) THEN "none" ELSE kill[k]]
      BY <1>3 DEF Crash
    <3>2. StopSweeps(p) /\ fresh \subseteq {p} \X Sid
      BY <1>3 DEF Crash
    <3> HIDE DEF fresh, Kept
    <3> QED BY <1>1, <3>1, <3>2
  <2>2. TasksTyped' /\ \A o \in Owner \ Owners(p) : task'[o] = task[o]
    BY <1>3, Fixed DEF Crash, TasksTyped, CallSteps
  <2> QED BY <2>1, <2>2
<1>4. CASE Atexit(p)
  BY <1>4 DEF Atexit, KillsTyped, KillersOf, Killer, KillSteps, TasksTyped
<1>5. CASE task' = task /\ kill' = kill /\ sweep' = sweep
  BY <1>5 DEF TasksTyped, KillsTyped
<1> QED BY <1>2, <1>3, <1>4, <1>5 DEF ExitStep, MarkRead, MarkWrite, Exited, MarkLook, Restart

LEMMA VictimTyped ==
  ASSUME KillsTyped, NEW k \in Killer, kill[k] \in KillSteps
  PROVE  Victim(k) \in Sid
BY DEF Victim, KillsTyped, Killer, KillTask

LEMMA OwnerRowsTyped ==
  ASSUME RowsTyped, TasksTyped, NEW o \in Owner, OwnerStep(o) \/ CancelStep(o), calls' = calls
  PROVE  RowsTyped'
<1> USE DEF RowsTyped, dbVars
<1>1. /\ task[o].at \in {"created", "waiting", "body", "ending"} => task[o].cur \in Sid
      /\ task[o].at \in CallSteps => task[o].target \in Sid
  BY DEF TasksTyped
<1>2. ASSUME NEW s \in Sid, \/ Create(o, s) \/ AdoptCall(o, s) \/ Release(o, s) \/ Forward(o, s)
                            \/ \E clone \in Sid : ForkCall(o, s, clone)
      PROVE  RowsTyped'
  BY <1>2 DEF Create, AdoptCall, Release, Forward, ForkCall
<1>3. CASE Record(o) \/ RecordFails(o)
  BY <1>1, <1>3 DEF Record, RecordFails, At, WriteRow
<1>4. CASE EnterBody(o) \/ BlockEnds(o) \/ Released(o) \/ Exit(o)
  BY <1>4 DEF EnterBody, BlockEnds, Released, Exit, LeaveBlock
<1>5. CASE RecordHandle(o)
  BY <1>1, <1>5 DEF RecordHandle, At, WriteRow, CallSteps
<1>6. ASSUME NEW s \in Sid, WrittenOrNot(s) \/ UNCHANGED <<row, stale, lost>>,
             UNCHANGED <<e2b, ports>>
      PROVE  RowsTyped'
  BY <1>6 DEF WrittenOrNot, WriteRow
<1>7. CASE CancelCreate(o)
  BY <1>1, <1>6, <1>7 DEF CancelCreate, At
<1>8. CASE CancelBlock(o) \/ CancelCall(o)
  <2>1. UNCHANGED <<e2b, ports>>
    BY <1>8 DEF CancelBlock, CancelCall, LeaveBlock
  <2>2. UNCHANGED <<row, stale, lost>> \/ \E s \in Sid : WrittenOrNot(s)
    BY <1>1, <1>8 DEF CancelBlock, CancelCall, At, CallSteps
  <2>3. CASE UNCHANGED <<row, stale, lost>>
    BY <2>1, <2>3
  <2> QED BY <1>6, <2>1, <2>2, <2>3
<1> QED BY <1>2, <1>3, <1>4, <1>5, <1>7, <1>8 DEF OwnerStep, CancelStep

LEMMA NextTyped == Typed /\ [Next]_vars => Typed'
<1> SUFFICES ASSUME Typed, [Next]_vars
             PROVE  Typed'
  OBVIOUS
<1> USE DEF Typed
<1>1. ASSUME NEW o \in Owner, OwnerStep(o) \/ CancelStep(o), calls' = calls
      PROVE  Typed'
  BY <1>1, OwnerRowsTyped, OwnerTasksTyped, OwnerProcsTyped, OwnerKillsTyped
<1>2. ASSUME NEW k \in Killer, KillStep(k), calls' = calls
      PROVE  Typed'
  <2>1. RowsTyped'
    <3>1. Victim(k) \in Sid
      BY <1>2, VictimTyped DEF KillStep, Claim, Kill, Confirm, CleanGet, CleanPut, DeletePorts,
                               KillAt, KillSteps
    <3> QED BY <1>2, <3>1 DEF KillStep, Claim, Kill, Confirm, CleanGet, CleanPut, DeletePorts,
                              WriteRow, RowsTyped, dbVars
  <2> QED BY <1>2, <2>1, KillerTyped DEF OwnKill, TasksTyped, ProcsTyped
<1>3. ASSUME NEW j \in Janitor, SweepStep(j), calls' = calls
      PROVE  Typed'
  <2>1. KillsTyped' /\ OwnSweep(j) /\ ProcsTyped'
    BY <1>3, SweepTyped, SweepProcsTyped
  <2> QED BY <1>3, <2>1 DEF OwnSweep, TasksTyped, RowsTyped, dbVars
<1>4. ASSUME NEW p \in Process, LoopEnd(p) \/ ExitStep(p) \/ Crash(p) \/ Restart(p), calls' = calls
      PROVE  Typed'
  <2>1. RowsTyped'
    <3>1. Unwritten(p) \subseteq Sid
      BY DEF Unwritten, Owners, TasksTyped, CallSteps
    <3>2. CASE MarkWrite(p)
      BY <1>4, <3>2 DEF MarkWrite, WriteRow, RowsTyped, ProcsTyped
    <3>3. CASE LoopEnd(p) \/ Crash(p)
      BY <1>4, <3>1, <3>3 DEF LoopEnd, Crash, RowsTyped, dbVars
    <3>4. CASE UNCHANGED <<e2b, dbVars, lost>>
      BY <1>4, <3>4 DEF RowsTyped, dbVars
    <3> QED BY <1>4, <3>2, <3>3, <3>4
            DEF ExitStep, Atexit, MarkRead, Exited, MarkLook, Restart
  <2> QED BY <1>4, <2>1, ExitTyped, ExitProcsTyped
<1>5. ASSUME NEW s \in Sid, Expire(s), calls' = calls
      PROVE  Typed'
  BY <1>5 DEF Expire, RowsTyped, TasksTyped, ProcsTyped, KillsTyped
<1>6. CASE UNCHANGED vars
  BY <1>6 DEF vars, dbVars, RowsTyped, TasksTyped, ProcsTyped, KillsTyped
<1> QED BY <1>1, <1>2, <1>3, <1>4, <1>5, <1>6 DEF Next

LEMMA AlwaysTyped == Spec => []Typed
BY InitTyped, NextTyped, PTL DEF Spec

\* Every variable keeps its type.
THEOREM TypeCorrect == Spec => []TypeOK
BY AlwaysTyped, TypedIsOK, PTL


-----------------------------------------------------------------------------
(* What is CLEANED is dead, and what lives is booked.  All that the tables,  *)
(* the processes and the tasks name has been made in E2B; the kill of a      *)
(* sandbox goes past _confirm_dead when the sandbox is dead; and a live      *)
(* sandbox without a row is lost, or between its create and its upsert.      *)

Made == {s \in Sid : e2b[s] # "none"} \cup {NoSid}

RowsKnown  == \A s \in Sid : /\ row[s] # "none" => s \in Made
                             /\ row[s] = "cleaned" => e2b[s] = "dead"
                             /\ s \in stale => s \in Made
TasksKnown == \A o \in Owner : {task[o].cur, task[o].target} \cup task[o].handles \subseteq Made
ProcsKnown == \A p \in Process : {proc[p].mark} \cup proc[p].marks \cup proc[p].inflight \subseteq Made
KillsKnown ==
  /\ \A j \in Janitor : {sweep[j].target} \cup sweep[j].todo \subseteq Made
  /\ \A k \in KillTask : kill[k] \in KillSteps => k[2] \in Made
KillsDead  == \A k \in Killer : kill[k] \in {"cleanGet", "cleanPut"} => e2b[Victim(k)] = "dead"

\* Between the create of s and its upsert.
BeingMade(s) == \E o \in Owner : \/ task[o].at = "created" /\ task[o].cur = s
                                 \/ task[o].at = "forked" /\ task[o].target = s
Booked == \A s \in Sid : e2b[s] = "running" /\ row[s] = "none" => s \in lost \/ BeingMade(s)

Known == RowsKnown /\ TasksKnown /\ ProcsKnown /\ KillsKnown /\ KillsDead /\ Booked

LEMMA InitKnown == Init => Known
BY DEF Init, Known, RowsKnown, TasksKnown, ProcsKnown, KillsKnown, KillsDead, Booked, Made,
       NewProc, NewTask, NoSweep, KillSteps, Killer

\* In E2B a sandbox is made once, and dies once.
Ages == \A s \in Sid : /\ e2b[s] = "dead" => e2b'[s] = "dead"
                       /\ e2b[s] # "none" => e2b'[s] # "none"
                       /\ e2b'[s] = "running" => e2b[s] # "dead"

LEMMA OwnerAges ==
  ASSUME RowsTyped, TasksTyped, NEW o \in Owner, OwnerStep(o) \/ CancelStep(o)
  PROVE  Ages
<1> USE DEF RowsTyped, Ages
<1>1. ASSUME NEW s \in Sid, \/ Create(o, s) \/ AdoptCall(o, s) \/ Release(o, s) \/ Forward(o, s)
                            \/ \E clone \in Sid : ForkCall(o, s, clone)
      PROVE  Ages
  BY <1>1 DEF Create, AdoptCall, Release, Forward, ForkCall
<1>2. CASE RecordFails(o)
  BY <1>2 DEF RecordFails
<1>3. CASE e2b' = e2b
  BY <1>3
<1>4. CASE CancelStep(o)
  BY <1>3, <1>4 DEF CancelStep, CancelCreate, CancelBlock, CancelCall, LeaveBlock
<1> QED BY <1>1, <1>2, <1>3, <1>4
        DEF OwnerStep, Record, EnterBody, Exit, BlockEnds, RecordHandle, Released, LeaveBlock

LEMMA KillerAges ==
  ASSUME RowsTyped, NEW k \in Killer, KillStep(k)
  PROVE  Ages
BY DEF RowsTyped, Ages, KillStep, Claim, Kill, Confirm, CleanGet, CleanPut, DeletePorts

LEMMA AgesKeeps == Ages => Made \subseteq Made'
BY DEF Ages, Made

LEMMA OwnerKnows ==
  ASSUME RowsTyped, TasksTyped, Known, NEW o \in Owner, OwnerStep(o) \/ CancelStep(o)
  PROVE  RowsKnown' /\ TasksKnown'
<1>1. Made \subseteq Made' /\ Ages
  BY OwnerAges, AgesKeeps
<1>2. NoSid \in Made' /\ {task[o].cur, task[o].target} \cup task[o].handles \subseteq Made'
  BY <1>1 DEF Known, TasksKnown, Made
<1>3. ASSUME NEW r \in Tasks, {r.cur, r.target} \cup r.handles \subseteq Made',
             task' = [task EXCEPT ![o] = r]
      PROVE  TasksKnown'
  BY <1>1, <1>3 DEF Known, TasksKnown, TasksTyped
<1>4. ASSUME UNCHANGED <<row, stale>>
      PROVE  RowsKnown'
  BY <1>1, <1>4 DEF Known, RowsKnown, Ages
<1>5. ASSUME NEW s \in Made, s \in Sid, WriteRow(s, "running")
      PROVE  RowsKnown'
  BY <1>1, <1>5 DEF Known, RowsKnown, Ages, WriteRow, RowsTyped
<1>6. ASSUME NEW s \in Sid, Create(o, s)
      PROVE  RowsKnown' /\ TasksKnown'
  <2>1. s \in Made' /\ UNCHANGED <<row, stale>>
    BY <1>6 DEF Create, Made, RowsTyped, dbVars
  <2>2. task' = [task EXCEPT ![o] = [task[o] EXCEPT !.at = "created", !.cur = s]]
    BY <1>6 DEF Create
  <2> QED BY <1>1, <1>2, <1>4, <2>1, <2>2 DEF Known, TasksKnown, TasksTyped, Tasks
<1>7. ASSUME NEW s \in Sid, \/ AdoptCall(o, s) \/ Release(o, s) \/ Forward(o, s)
                            \/ \E clone \in Sid : ForkCall(o, clone, s)
      PROVE  RowsKnown' /\ TasksKnown'
  <2>1. UNCHANGED <<row, stale>>
    BY <1>7 DEF AdoptCall, Release, Forward, ForkCall, dbVars
  <2>2. CASE AdoptCall(o, s) \/ \E clone \in Sid : ForkCall(o, clone, s)
    <3>1. s \in Made'
      BY <1>1, <2>2 DEF AdoptCall, ForkCall, Made, RowsTyped
    <3>2. PICK step : task' = [task EXCEPT ![o] = [task[o] EXCEPT !.at = step, !.target = s]]
      BY <2>2 DEF AdoptCall, ForkCall
    <3> QED BY <1>1, <1>2, <1>4, <2>1, <3>1, <3>2 DEF Known, TasksKnown, TasksTyped, Tasks
  <2>3. CASE Release(o, s)
    <3>1. s \in Made'
      BY <1>2, <2>3 DEF Release, Holds
    <3> DEFINE r == [task[o] EXCEPT !.at = "releasing", !.target = s, !.handles = @ \ {s}]
    <3>2. task' = [task EXCEPT ![o] = r]
      BY <2>3 DEF Release
    <3>3. r.cur = task[o].cur /\ r.target = s /\ r.handles \subseteq task[o].handles
      BY DEF TasksTyped, Tasks
    <3> HIDE DEF r
    <3>4. TasksKnown'
      BY <1>1, <1>2, <3>1, <3>2, <3>3 DEF Known, TasksKnown, TasksTyped
    <3> QED BY <1>4, <2>1, <3>4
  <2>4. CASE Forward(o, s)
    BY <1>1, <1>4, <2>1, <2>4 DEF Forward, Known, TasksKnown
  <2> QED BY <1>7, <2>2, <2>3, <2>4
<1>8. /\ task[o].at \in {"created", "waiting", "body", "ending"} => task[o].cur \in Sid
      /\ task[o].at \in CallSteps => task[o].target \in Sid
      /\ task[o].cur \in Made /\ task[o].target \in Made
  BY DEF TasksTyped, Known, TasksKnown
<1>9. RowsKnown' \/ \E s \in Sid : Create(o, s)
  <2>1. ASSUME NEW s \in Made, s \in Sid, WrittenOrNot(s)
        PROVE  RowsKnown'
    BY <1>4, <1>5, <2>1 DEF WrittenOrNot
  <2>2. CASE Record(o) \/ RecordHandle(o)
    BY <1>5, <1>8, <2>2 DEF Record, RecordHandle, At, CallSteps
  <2>3. CASE CancelStep(o)
    BY <1>4, <1>8, <2>1, <2>3 DEF CancelStep, CancelCreate, CancelBlock, CancelCall, At, CallSteps
  <2>4. CASE UNCHANGED <<row, stale>>
    BY <1>4, <2>4
  <2> QED BY <1>6, <1>7, <2>2, <2>3, <2>4
          DEF OwnerStep, RecordFails, EnterBody, Exit, BlockEnds, Released, dbVars
<1>10. Back(o).cur = task[o].cur /\ Back(o).target = NoSid /\ Back(o).handles = task[o].handles
       /\ Back(o) \in Tasks
  BY DEF Back, TasksTyped, Tasks, Steps, MaybeSid
<1>11. CASE Released(o) \/ CancelCall(o)
  BY <1>2, <1>3, <1>6, <1>9, <1>10, <1>11 DEF Released, CancelCall
<1>12. CASE RecordHandle(o)
  <2> DEFINE r == [Back(o) EXCEPT !.handles = @ \cup {task[o].target}]
  <2>1. task' = [task EXCEPT ![o] = r]
    BY <1>12 DEF RecordHandle
  <2>2. task[o].target \in Sid
    BY <1>8, <1>12 DEF RecordHandle, At, CallSteps
  <2>3. r \in Tasks /\ {r.cur, r.target} \cup r.handles \subseteq Made'
    BY <1>2, <1>10, <2>2 DEF Tasks
  <2> HIDE DEF r
  <2> QED BY <1>3, <1>6, <1>9, <2>1, <2>3
<1>13. CASE Record(o) \/ EnterBody(o) \/ RecordFails(o) \/ BlockEnds(o) \/ Exit(o)
            \/ CancelCreate(o) \/ CancelBlock(o)
  <2>1. \A v \in Owner \ {o} : task'[v] = task[v]
    BY <1>13 DEF TasksTyped, Record, EnterBody, RecordFails, BlockEnds, Exit, CancelCreate,
                 CancelBlock, LeaveBlock
  <2>2. /\ task'[o].cur \in {task[o].cur, NoSid} /\ task'[o].target \in {task[o].target, NoSid}
        /\ task'[o].handles = task[o].handles
    BY <1>13 DEF TasksTyped, Tasks, Record, EnterBody, RecordFails, BlockEnds, Exit, CancelCreate,
                 CancelBlock, LeaveBlock
  <2>3. TasksKnown'
    BY <1>1, <1>2, <2>1, <2>2 DEF Known, TasksKnown
  <2> QED BY <1>6, <1>9, <2>3
<1> QED BY <1>6, <1>7, <1>11, <1>12, <1>13 DEF OwnerStep, CancelStep

LEMMA OwnerKnowsRest ==
  ASSUME RowsTyped, TasksTyped, ProcsTyped, KillsTyped, Known, NEW o \in Owner,
         OwnerStep(o) \/ CancelStep(o)
  PROVE  ProcsKnown' /\ KillsKnown' /\ KillsDead'
<1>1. Made \subseteq Made' /\ Ages /\ OwnProc(o) /\ OwnKills(o)
  BY OwnerAges, AgesKeeps, OwnerProcsTyped, OwnerKillsTyped
<1>2. /\ task[o].at = "created" => task[o].cur \in Made
      /\ task[o].at \in CallSteps => task[o].target \in Made
  BY DEF Known, TasksKnown
<1>3. ProcsKnown'
  <2>1. ASSUME NEW X, X \subseteq Made, proc'[ProcOf[o]].inflight \subseteq proc[ProcOf[o]].inflight \cup X
        PROVE  ProcsKnown'
    BY <1>1, <2>1, Fixed DEF OwnProc, Known, ProcsKnown
  <2>2. CASE Record(o)
    <3>1. proc'[ProcOf[o]].inflight = proc[ProcOf[o]].inflight \cup {task[o].cur}
      BY <2>2, Fixed DEF Record, Register, ProcsTyped, Procs
    <3> QED BY <1>2, <2>1, <2>2, <3>1 DEF Record, At
  <2>3. CASE RecordHandle(o)
    <3>1. proc'[ProcOf[o]].inflight = proc[ProcOf[o]].inflight \cup {task[o].target}
      BY <2>3, Fixed DEF RecordHandle, Register, ProcsTyped, Procs
    <3> QED BY <1>2, <2>1, <2>3, <3>1 DEF RecordHandle, At, CallSteps
  <2>4. CASE proc'[ProcOf[o]].inflight \subseteq proc[ProcOf[o]].inflight
    <3> DEFINE none == {} \cap Made
    <3>1. none \subseteq Made
      OBVIOUS
    <3>2. proc'[ProcOf[o]].inflight \subseteq proc[ProcOf[o]].inflight \cup none
      BY <2>4
    <3> HIDE DEF none
    <3> QED BY <2>1, <3>1, <3>2
  <2>5. CASE BlockEnds(o) \/ Released(o) \/ Exit(o) \/ CancelBlock(o)
    BY <2>4, <2>5, Fixed DEF BlockEnds, Released, Discard, Exit, CancelBlock, LeaveBlock,
                             ProcsTyped, Procs
  <2>6. CASE proc' = proc
    BY <2>4, <2>6
  <2> QED BY <2>2, <2>3, <2>5, <2>6
          DEF OwnerStep, CancelStep, RecordFails, EnterBody, CancelCreate, CancelCall,
              Create, AdoptCall, Release, Forward, ForkCall
<1>4. KillsKnown' /\ KillsDead'
  <2>1. sweep' = sweep
    BY <1>1 DEF OwnKills
  <2>2. \A k \in Killer : kill'[k] = kill[k] \/ (kill'[k] = "claim" /\ k \in KillTask /\ k[2] \in Made)
    <3>1. CASE kill' = kill
      BY <3>1
    <3>2. ASSUME NEW s \in {task[o].cur} \cup task[o].handles, s \in Sid,
                 kill' = [kill EXCEPT ![<<ProcOf[o], s>>] = "claim"]
          PROVE  \A k \in Killer : \/ kill'[k] = kill[k]
                                   \/ kill'[k] = "claim" /\ k \in KillTask /\ k[2] \in Made
      BY <3>2, Fixed DEF KillsTyped, Known, TasksKnown, KillTask
    <3> QED BY <1>1, <3>1, <3>2 DEF OwnKills
  <2>3. \A k \in Killer : Victim(k)' = Victim(k)
    BY <2>1 DEF Victim
  <2>4. KillsKnown'
    BY <1>1, <2>1, <2>2 DEF Known, KillsKnown, Killer, KillSteps
  <2>5. KillsDead'
    <3> SUFFICES ASSUME NEW k \in Killer, kill'[k] \in {"cleanGet", "cleanPut"}
                 PROVE  e2b'[Victim(k)] = "dead"
      BY <2>3 DEF KillsDead
    <3>1. kill[k] \in {"cleanGet", "cleanPut"}
      BY <2>2
    <3> QED BY <1>1, <3>1, VictimTyped DEF Known, KillsDead, Ages, KillSteps
  <2> QED BY <2>4, <2>5
<1> QED BY <1>3, <1>4

\* Who stops making a sandbox has written its row, killed it or lost it.
LEMMA OwnerBooks ==
  ASSUME RowsTyped, TasksTyped, Known, NEW o \in Owner, OwnerStep(o) \/ CancelStep(o)
  PROVE  Booked'
<1>1. SUFFICES ASSUME NEW s \in Sid, e2b'[s] = "running", row'[s] = "none"
               PROVE  s \in lost' \/ BeingMade(s)'
  BY DEF Booked
<1> DEFINE Makes(v) == \/ task[v].at = "created" /\ task[v].cur = s
                       \/ task[v].at = "forked" /\ task[v].target = s
<1>2. /\ task[o].at \in {"created", "waiting", "body", "ending"} => task[o].cur \in Sid
      /\ task[o].at \in CallSteps => task[o].target \in Sid
  BY DEF TasksTyped
<1>3. \A v \in Owner \ {o} : task'[v] = task[v]
  BY DEF OwnerStep, CancelStep, Record, RecordFails, EnterBody, Exit, BlockEnds, RecordHandle,
         Released, Create, AdoptCall, Release, Forward, ForkCall, CancelCreate, CancelBlock,
         CancelCall, LeaveBlock, TasksTyped
<1>4. ASSUME NEW t \in Sid, \/ Create(o, t) \/ \E clone \in Sid : ForkCall(o, clone, t)
      PROVE  s \in lost' \/ BeingMade(s)'
  <2>1. e2b' = [e2b EXCEPT ![t] = "running"] /\ row' = row /\ lost' = lost
    BY <1>4 DEF Create, ForkCall, dbVars
  <2>2. CASE s = t
    <3>1. \/ task'[o].at = "created" /\ task'[o].cur = s
          \/ task'[o].at = "forked" /\ task'[o].target = s
      BY <1>4, <2>2 DEF Create, ForkCall, TasksTyped, Tasks
    <3> QED BY <3>1 DEF BeingMade
  <2>3. CASE s # t
    <3>1. s \in lost \/ BeingMade(s)
      BY <1>1, <2>1, <2>3 DEF Known, Booked, RowsTyped
    <3>2. ~ Makes(o)
      BY <1>4 DEF Create, ForkCall, Idle, Holds, At
    <3> QED BY <1>3, <2>1, <3>1, <3>2 DEF BeingMade
  <2> QED BY <2>2, <2>3
<1>5. CASE /\ \A t \in Sid : ~ Create(o, t) /\ \A clone \in Sid : ~ ForkCall(o, clone, t)
           /\ ~ Makes(o)
  <2>1. e2b[s] = "running" /\ row[s] = "none"
    BY <1>1, <1>2, <1>5
       DEF RowsTyped, OwnerStep, CancelStep, Record, RecordFails, EnterBody, Exit, BlockEnds,
           RecordHandle, Released, AdoptCall, Release, Forward, CancelCreate, CancelBlock,
           CancelCall, LeaveBlock, WrittenOrNot, WriteRow, dbVars, At, CallSteps
  <2>2. lost \subseteq lost'
    BY <1>5 DEF OwnerStep, CancelStep, Record, RecordFails, EnterBody, Exit, BlockEnds,
           RecordHandle, Released, AdoptCall, Release, Forward, CancelCreate, CancelBlock,
           CancelCall, WrittenOrNot
  <2> QED BY <1>3, <1>5, <2>1, <2>2 DEF Known, Booked, BeingMade
<1>6. CASE Makes(o)
  <2>1. ASSUME task'[o] = task[o]
        PROVE  BeingMade(s)'
    BY <1>6, <2>1 DEF BeingMade
  <2>2. CASE task[o].at = "created" /\ task[o].cur = s
    <3>1. Record(o) \/ RecordFails(o) \/ CancelCreate(o)
      BY <2>2 DEF OwnerStep, CancelStep, EnterBody, Exit, BlockEnds, RecordHandle,
           Released, Create, AdoptCall, Release, Forward, ForkCall, CancelBlock,
           CancelCall, At, Idle, Holds
    <3> QED BY <1>1, <2>2, <3>1
            DEF Record, RecordFails, CancelCreate, WriteRow, WrittenOrNot, RowsTyped
  <2>3. CASE task[o].at = "forked" /\ task[o].target = s
    <3>1. RecordHandle(o) \/ CancelBlock(o) \/ CancelCall(o)
      BY <2>3 DEF OwnerStep, CancelStep, Record, RecordFails, EnterBody, Exit, BlockEnds,
           Released, Create, AdoptCall, Release, Forward, ForkCall, CancelCreate, At, Idle, Holds
    <3> QED BY <1>1, <2>3, <3>1
            DEF RecordHandle, CancelBlock, CancelCall, WriteRow, WrittenOrNot, RowsTyped, At
  <2> QED BY <1>6, <2>2, <2>3
<1> QED BY <1>4, <1>5, <1>6

LEMMA KillerKnows ==
  ASSUME RowsTyped, KillsTyped, Known, NEW k \in Killer, KillStep(k)
  PROVE  Known'
<1>1. Made \subseteq Made' /\ Ages /\ OwnKill(k)
  BY KillerAges, KillerTyped, AgesKeeps
<1>2. kill[k] \in KillSteps /\ Victim(k) \in Sid
  BY VictimTyped DEF KillStep, Claim, Kill, Confirm, CleanGet, CleanPut, DeletePorts, KillAt, KillSteps
<1>3. Victim(k) \in Made
  BY <1>2 DEF Known, KillsKnown, Victim, Killer
<1>4. TasksKnown' /\ ProcsKnown'
  BY <1>1 DEF OwnKill, Known, TasksKnown, ProcsKnown
<1>5. /\ \A s \in Sid : row'[s] # row[s] => /\ s = Victim(k) /\ row'[s] # "none"
                                            /\ row'[s] = "cleaned" => e2b'[s] = "dead"
      /\ stale' \subseteq stale
  BY <1>2 DEF KillStep, Claim, Kill, Confirm, CleanGet, CleanPut, DeletePorts, KillAt,
              WriteRow, RowsTyped, Known, KillsDead, dbVars
<1>6. RowsKnown'
  BY <1>1, <1>3, <1>5 DEF Known, RowsKnown, Ages
<1>7. KillsKnown'
  <2>1. \A j \in Janitor : /\ sweep'[j].target \in {sweep[j].target, NoSid}
                           /\ sweep'[j].todo \subseteq sweep[j].todo
    BY <1>1 DEF OwnKill, KillsTyped, Sweeps, NoSweep
  <2>2. \A i \in KillTask : kill'[i] \in KillSteps => kill[i] \in KillSteps
    BY <1>1, <1>2 DEF OwnKill, Killer
  <2> QED BY <1>1, <2>1, <2>2 DEF Known, KillsKnown, Made
<1>8. KillsDead'
  <2>1. \A i \in Killer \ {k} : Victim(i)' = Victim(i) /\ kill'[i] = kill[i]
    BY <1>1 DEF OwnKill, Victim
  <2>2. \A i \in Killer \ {k} : kill'[i] \in {"cleanGet", "cleanPut"} => e2b'[Victim(i)] = "dead"
    BY <1>1, <2>1, VictimTyped DEF Known, KillsDead, Ages, KillSteps
  <2>3. ASSUME kill'[k] \in {"cleanGet", "cleanPut"}
        PROVE  Victim(k)' = Victim(k) /\ e2b'[Victim(k)] = "dead"
    <3>1. CASE Confirm(k)
      <4>1. Go(k, IF Forced(k) THEN "cleanPut" ELSE "cleanGet") /\ SeenDead(k) /\ e2b' = e2b
        BY <2>3, <3>1 DEF Confirm, Return, Go, KillsTyped
      <4> QED BY <1>2, <1>3, <4>1, AsyncAssumption
              DEF AsyncAssumption, Go, Victim, SeenDead, Made, RowsTyped
    <3>2. CASE CleanGet(k)
      <4>1. Go(k, "cleanPut") /\ e2b' = e2b /\ kill[k] = "cleanGet"
        BY <2>3, <3>2 DEF CleanGet, KillAt, Raise, Go, KillsTyped
      <4> QED BY <4>1 DEF Go, Victim, Known, KillsDead
    <3>3. kill'[k] \notin {"cleanGet", "cleanPut"} \/ Confirm(k) \/ CleanGet(k)
      BY DEF KillStep, Claim, Kill, CleanPut, DeletePorts, Return, Go, KillsTyped
    <3> QED BY <2>3, <3>1, <3>2, <3>3
  <2> QED BY <2>1, <2>2, <2>3 DEF KillsDead
<1>9. Booked'
  <2>1. \A s \in Sid : e2b'[s] = "running" /\ row'[s] = "none" => e2b[s] = "running" /\ row[s] = "none"
    BY <1>2, <1>5 DEF KillStep, Claim, Kill, Confirm, CleanGet, CleanPut, DeletePorts, RowsTyped
  <2> QED BY <1>1, <2>1 DEF OwnKill, Known, Booked, BeingMade
<1> QED BY <1>4, <1>6, <1>7, <1>8, <1>9 DEF Known

LEMMA SweepKnows ==
  ASSUME RowsTyped, ProcsTyped, KillsTyped, Known, NEW j \in Janitor, SweepStep(j)
  PROVE  Known'
<1>1. OwnSweep(j) /\ Made' = Made
  BY SweepTyped DEF OwnSweep, Made
<1>2. RowsKnown' /\ TasksKnown' /\ Booked'
  BY <1>1 DEF OwnSweep, dbVars, Known, RowsKnown, TasksKnown, Booked, BeingMade
<1>3. ProcsKnown'
  <2>1. \A p \in Process : proc'[p].inflight \subseteq proc[p].inflight
    <3>1. CASE ShutdownBegin(j)
      BY <3>1, Fixed DEF ShutdownBegin, ProcsTyped, Procs
    <3>2. CASE NextLoop(j)
      BY <3>2, Fixed DEF NextLoop, ProcsTyped, Procs
    <3>3. CASE proc' = proc
      BY <3>3
    <3> QED BY <3>1, <3>2, <3>3 DEF SweepStep, ReapBegin, ReconcileBegin, CancelSweep, Visit
  <2> QED BY <1>1, <2>1, SweepProcsTyped DEF Known, ProcsKnown
<1>4. /\ kill'[j] \notin {"cleanGet", "cleanPut"} \/ (kill'[j] = kill[j] /\ sweep'[j].target = sweep[j].target)
      /\ sweep'[j].todo \cup {sweep'[j].target} \subseteq Made
  <2>0. \A loop : List(j, loop) \subseteq Made
    <3>1. /\ stale \subseteq Made /\ RowsIn("cleaning") \subseteq Made
          /\ {s \in Sid : e2b[s] = "running"} \subseteq Made
          /\ proc[ProcOf[j]].inflight \subseteq Made
      BY Fixed DEF Known, RowsKnown, ProcsKnown, Made, RowsIn, RowsTyped
    <3> QED BY <3>1 DEF List
  <2>1. ASSUME NEW loop, Begin(j, loop)
        PROVE  /\ kill' = kill /\ sweep'[j].target = sweep[j].target
               /\ sweep'[j].todo \cup {sweep'[j].target} \subseteq Made
    <3> DEFINE r == [NoSweep EXCEPT !.job = loop, !.todo = List(j, loop),
                                    !.tracked = Sid \ RowsIn("none")]
    <3>1. r.target = NoSid /\ r.todo = List(j, loop)
      BY DEF NoSweep
    <3>2. sweep' = [sweep EXCEPT ![j] = r] /\ sweep[j].target = NoSid /\ kill' = kill
      BY <2>1 DEF Begin, NoSweep
    <3> HIDE DEF r
    <3> QED BY <2>0, <3>1, <3>2 DEF KillsTyped, Made
  <2>2. CASE ReapBegin(j) \/ ReconcileBegin(j) \/ ShutdownBegin(j)
    BY <2>1, <2>2 DEF ReapBegin, ReconcileBegin, ShutdownBegin
  <2>3. ASSUME NEW s \in Sid, Visit(j, s)
        PROVE  /\ kill'[j] \notin {"cleanGet", "cleanPut"}
               /\ sweep'[j].todo \cup {sweep'[j].target} \subseteq Made
    <3>1. s \in Made
      BY <2>3 DEF Visit, Known, KillsKnown
    <3> DEFINE r == [sweep[j] EXCEPT !.todo = @ \ {s}, !.target = s, !.done = @ \cup {s}]
    <3>2. r.target = s /\ r.todo \subseteq sweep[j].todo
      BY DEF KillsTyped, Sweeps
    <3>3. sweep' = [sweep EXCEPT ![j] = r]
      BY <2>3 DEF Visit
    <3>4. kill'[j] \in {"kill", "claim"}
      BY <2>3 DEF Visit, KillsTyped, Killer
    <3> HIDE DEF r
    <3> QED BY <3>1, <3>2, <3>3, <3>4 DEF Known, KillsKnown, KillsTyped
  <2>4. CASE NextLoop(j)
    <3> DEFINE next == Following[sweep[j].job]
               r == IF next = "none" THEN NoSweep
                    ELSE [sweep[j] EXCEPT !.job = next, !.todo = List(j, next)]
    <3>1. r.target \in {sweep[j].target, NoSid} /\ r.todo \subseteq Made
      BY <2>0 DEF KillsTyped, Sweeps, NoSweep
    <3>2. sweep' = [sweep EXCEPT ![j] = r] /\ kill'[j] = "none"
      BY <2>4 DEF NextLoop, Sweeping
    <3> HIDE DEF r
    <3> QED BY <3>1, <3>2 DEF Known, KillsKnown, KillsTyped, Made
  <2>5. CASE CancelSweep(j)
    BY <2>5 DEF CancelSweep, KillsTyped, NoSweep, Made, Killer
  <2> QED BY <2>2, <2>3, <2>4, <2>5 DEF SweepStep
<1>5. KillsKnown'
  BY <1>1, <1>4, TasksDiffer
     DEF OwnSweep, Known, KillsKnown, TasksDiffer, KillTask, Killer
<1>6. KillsDead'
  <2>1. \A k \in Killer \ {j} : kill'[k] = kill[k] /\ Victim(k)' = Victim(k)
    BY <1>1 DEF OwnSweep, Victim
  <2> QED BY <1>1, <1>4, <2>1 DEF OwnSweep, Known, KillsDead, Victim
<1> QED BY <1>2, <1>3, <1>5, <1>6 DEF Known

\* Of the sandboxes a process has listed, its end lists no other.
LEMMA ExitLists ==
  ASSUME ProcsTyped, NEW p \in Process, LoopEnd(p) \/ ExitStep(p) \/ Crash(p) \/ Restart(p)
  PROVE  /\ proc'[p].inflight \subseteq proc[p].inflight
         /\ proc'[p].marks \subseteq proc[p].marks \cup proc[p].inflight
         /\ proc'[p].mark \in {proc[p].mark, NoSid} \cup proc[p].marks
<1>1. CASE LoopEnd(p)
  BY <1>1 DEF LoopEnd, ProcsTyped, Procs
<1>2. CASE Exited(p) \/ Crash(p) \/ Restart(p)
  BY <1>2 DEF Exited, Crash, Restart, ProcsTyped, NewProc
<1>3. CASE Atexit(p)
  BY <1>3 DEF Atexit, ProcsTyped, Procs
<1>4. CASE MarkRead(p) \/ MarkWrite(p)
  BY <1>4 DEF MarkRead, MarkWrite, ProcsTyped, Procs
<1>5. ASSUME NEW s \in Sid, MarkLook(p, s)
      PROVE  /\ proc'[p].inflight = proc[p].inflight /\ proc'[p].marks \subseteq proc[p].marks
             /\ proc'[p].mark \in {NoSid} \cup proc[p].marks
  BY <1>5 DEF MarkLook, ProcsTyped, Procs
<1> QED BY <1>1, <1>2, <1>3, <1>4, <1>5 DEF ExitStep

LEMMA ExitKnows ==
  ASSUME RowsTyped, TasksTyped, ProcsTyped, KillsTyped, Known, NEW p \in Process,
         LoopEnd(p) \/ ExitStep(p) \/ Crash(p) \/ Restart(p)
  PROVE  Known'
<1>1. e2b' = e2b /\ Made' = Made
  BY DEF LoopEnd, ExitStep, Atexit, MarkRead, MarkWrite, Exited, MarkLook, Crash, Restart, Made
<1>2. /\ \A s \in Sid : row'[s] # row[s] => s = proc[p].mark /\ row'[s] = "cleaning"
      /\ stale' \subseteq stale
  BY DEF LoopEnd, ExitStep, Atexit, MarkRead, MarkWrite, Exited, MarkLook, Crash, Restart, dbVars,
         WriteRow, RowsTyped
<1>3. RowsKnown'
  BY <1>1, <1>2 DEF Known, RowsKnown, ProcsKnown
<1>4. TasksKnown'
  <2>1. \A o \in Owner : /\ task'[o].cur \in {task[o].cur, NoSid}
                         /\ task'[o].target \in {task[o].target, NoSid}
                         /\ task'[o].handles \subseteq task[o].handles
    <3>1. CASE LoopEnd(p)
      BY <3>1 DEF LoopEnd, NewTask
    <3>2. CASE Crash(p)
      BY <3>2 DEF Crash, NewTask
    <3>3. CASE task' = task
      BY <3>3
    <3> QED BY <3>1, <3>2, <3>3 DEF ExitStep, Atexit, MarkRead, MarkWrite, Exited, MarkLook, Restart
  <2> QED BY <1>1, <2>1 DEF Known, TasksKnown, Made
<1>5. ProcsKnown'
  <2>1. /\ proc'[p].inflight \subseteq proc[p].inflight
        /\ proc'[p].marks \subseteq proc[p].marks \cup proc[p].inflight
        /\ proc'[p].mark \in {proc[p].mark, NoSid} \cup proc[p].marks
    BY ExitLists
  <2>2. \A q \in Process \ {p} : proc'[q] = proc[q]
    BY ExitProcsTyped
  <2> QED BY <1>1, <2>1, <2>2 DEF Known, ProcsKnown, Made
<1>6. \A k \in Killer : \/ kill'[k] = kill[k] /\ Victim(k)' = Victim(k)
                        \/ kill'[k] = "none"
                        \/ kill'[k] = "claim" /\ k \in KillTask /\ k[2] \in Made
  <2>1. CASE LoopEnd(p)
    <3> DEFINE blocks == {o \in Owners(p) : /\ task[o].cur # NoSid
                                            /\ task[o].at \notin {"created", "ending"}}
               fresh == {<<p, task[o].cur>> : o \in blocks}
    <3>1. kill' = [k \in Killer |-> IF k \in fresh THEN "claim"
                                    ELSE IF k \in KillersOf(p) THEN "none" ELSE kill[k]]
      BY <2>1 DEF LoopEnd
    <3>2. \A k \in fresh : k \in KillTask /\ k[2] \in Made
      BY DEF Owners, TasksTyped, Tasks, MaybeSid, Known, TasksKnown, KillTask
    <3>3. \A k \in Killer \ KillersOf(p) : Victim(k)' = Victim(k)
      BY <2>1 DEF LoopEnd, StopSweeps, KillersOf, Victim
    <3> HIDE DEF fresh
    <3> QED BY <3>1, <3>2, <3>3
  <2>2. CASE Crash(p)
    BY <2>2 DEF Crash, StopSweeps, KillersOf, Victim
  <2>3. CASE Atexit(p)
    BY <2>3 DEF Atexit, Victim
  <2>4. CASE kill' = kill /\ sweep' = sweep
    BY <2>4 DEF Victim
  <2> QED BY <2>1, <2>2, <2>3, <2>4 DEF ExitStep, MarkRead, MarkWrite, Exited, MarkLook, Restart
<1>7. KillsKnown'
  <2>1. \A j \in Janitor : sweep'[j].target \in {sweep[j].target, NoSid} /\ sweep'[j].todo \subseteq sweep[j].todo
    BY ExitTyped DEF NoSweep
  <2>2. \A k \in KillTask : kill'[k] \in KillSteps => kill[k] \in KillSteps \/ k[2] \in Made
    BY <1>6 DEF KillSteps, Killer
  <2> QED BY <1>1, <2>1, <2>2 DEF Known, KillsKnown, Made
<1>8. KillsDead'
  BY <1>1, <1>6 DEF Known, KillsDead
<1>9. Booked'
  <2>1. lost' = lost \cup Unwritten(p) \/ (lost' = lost /\ task' = task)
    BY DEF LoopEnd, ExitStep, Atexit, MarkRead, MarkWrite, Exited, MarkLook, Crash, Restart
  <2>2. \A s \in Sid : BeingMade(s) => BeingMade(s)' \/ s \in lost'
    <3>1. CASE lost' = lost /\ task' = task
      BY <3>1 DEF BeingMade
    <3>2. CASE lost' = lost \cup Unwritten(p)
      <4> SUFFICES ASSUME NEW s \in Sid, NEW o \in Owner,
                          \/ task[o].at = "created" /\ task[o].cur = s
                          \/ task[o].at = "forked" /\ task[o].target = s
                   PROVE  BeingMade(s)' \/ s \in lost'
        BY DEF BeingMade
      <4>1. CASE o \in Owners(p)
        BY <3>2, <4>1 DEF Unwritten
      <4>2. CASE o \notin Owners(p)
        BY <4>2, ExitTyped DEF BeingMade
      <4> QED BY <4>1, <4>2
    <3> QED BY <2>1, <3>1, <3>2
  <2>3. \A s \in Sid : row'[s] = "none" => row[s] = "none"
    BY <1>2
  <2> QED BY <1>1, <2>1, <2>2, <2>3 DEF Known, Booked
<1> QED BY <1>3, <1>4, <1>5, <1>7, <1>8, <1>9 DEF Known

LEMMA NextKnows == Typed /\ Known /\ [Next]_vars => Known'
<1> SUFFICES ASSUME Typed, Known, [Next]_vars
             PROVE  Known'
  OBVIOUS
<1> USE DEF Typed
<1>1. ASSUME NEW o \in Owner, OwnerStep(o) \/ CancelStep(o)
      PROVE  Known'
  BY <1>1, OwnerKnows, OwnerKnowsRest, OwnerBooks DEF Known
<1>2. ASSUME NEW k \in Killer, KillStep(k)
      PROVE  Known'
  BY <1>2, KillerKnows
<1>3. ASSUME NEW j \in Janitor, SweepStep(j)
      PROVE  Known'
  BY <1>3, SweepKnows
<1>4. ASSUME NEW p \in Process, LoopEnd(p) \/ ExitStep(p) \/ Crash(p) \/ Restart(p)
      PROVE  Known'
  BY <1>4, ExitKnows
<1>5. ASSUME NEW s \in Sid, Expire(s)
      PROVE  Known'
  BY <1>5 DEF Expire, Known, RowsKnown, TasksKnown, ProcsKnown, KillsKnown, KillsDead, Victim,
              Booked, BeingMade, Made
<1>6. CASE UNCHANGED vars
  BY <1>6 DEF vars, dbVars, Known, RowsKnown, TasksKnown, ProcsKnown, KillsKnown, KillsDead,
              Victim, Booked, BeingMade, Made
<1> QED BY <1>1, <1>2, <1>3, <1>4, <1>5, <1>6 DEF Next

LEMMA AlwaysKnown == Spec => [](Typed /\ Known)
<1>1. Init => Typed /\ Known
  BY InitTyped, InitKnown
<1>2. (Typed /\ Known) /\ [Next]_vars => (Typed /\ Known)'
  BY NextTyped, NextKnows
<1> QED BY <1>1, <1>2, PTL DEF Spec

\* A row says CLEANED only of a dead sandbox, wherever a kill, a sweep or the
\* loop of a process was cancelled.
THEOREM CleanedRowsAreDead == Spec => []CleanedIsDead
<1>1. Known => CleanedIsDead
  BY DEF Known, RowsKnown, CleanedIsDead
<1> QED BY <1>1, AlwaysKnown, PTL

\* A live sandbox has a row that later sweeps look at, but for the one whose
\* creator was cancelled, or died, before the write of the row.
THEOREM NothingLiveIsForgotten == Spec => []LiveIsReapable
<1>1. Typed /\ Known => LiveIsReapable
  BY DEF Typed, RowsTyped, Known, RowsKnown, Booked, BeingMade, LiveIsReapable
<1> QED BY <1>1, AlwaysKnown, PTL

-----------------------------------------------------------------------------
(* Whose sandbox it is.  No two tasks have the same one, nor one task twice; *)
(* a task whose loop has ended has nothing but the block it comes out of;    *)
(* and what a task has in a block or a handle is in _inflight until a        *)
(* shutdown.                                                                 *)

Hands(o) == ({task[o].cur, task[o].target} \cup task[o].handles) \ {NoSid}

Separate ==
  /\ \A o, v \in Owner : o # v => Hands(o) \cap Hands(v) = {}
  /\ \A o \in Owner : /\ task[o].cur \notin task[o].handles
                      /\ task[o].target \notin task[o].handles
                      /\ task[o].target # NoSid => task[o].target # task[o].cur

EndedLoops ==
  \A o \in Owner : proc[ProcOf[o]].loop # "running" =>
    task[o].at \in {"idle", "ending"} /\ task[o].handles = {}

\* The sandbox of the block a task is in, and its handles.
Holding(o) == task[o].handles \cup (IF InBlock(o) THEN {task[o].cur} ELSE {})

Downs == \A j \in Janitor : sweep[j].job \in {"downBeats", "downInflight"} => Calling("shutdown")

Listed == ~ Calling("shutdown") => \A o \in Owner : Holding(o) \subseteq proc[ProcOf[o]].inflight

\* A task that neither makes nor ends a block is in it, or has none.
Blocks == \A o \in Owner : task[o].at = "idle" => task[o].cur = NoSid

Owned == Separate /\ EndedLoops /\ Downs /\ Listed /\ Blocks

-----------------------------------------------------------------------------
(* The kill of a block.  A task kills what has a row, which nobody writes    *)
(* RUNNING again while its owner waits, and a sandbox whose block ends is    *)
(* dead, CLEANING or still being killed.                                     *)

HeldBooked ==
  \A o \in Owner :
    /\ \A s \in task[o].handles : row[s] # "none"
    /\ task[o].at \notin {"idle", "created"} /\ task[o].cur # NoSid => row[task[o].cur] # "none"

KillsBooked == \A k \in KillTask : kill[k] \in KillSteps => row[k[2]] # "none"

EndingClaimed ==
  \A o \in Owner :
    /\ task[o].at = "ending"
    /\ kill[<<ProcOf[o], task[o].cur>>] \in KillSteps \ {"claim"}
    => row[task[o].cur] \in {"cleaning", "cleaned"}

EndingKilled ==
  \A o \in Owner : task[o].at = "ending" =>
    \/ e2b[task[o].cur] = "dead" \/ row[task[o].cur] = "cleaning"
    \/ kill[<<ProcOf[o], task[o].cur>>] \in KillSteps

Engaged == HeldBooked /\ KillsBooked /\ EndingClaimed /\ EndingKilled

-----------------------------------------------------------------------------
(* Where nobody purges or shuts down, no sweep, kill or exit has the sandbox *)
(* of a block on its list, from its create to the end of the block.          *)

Unlisted(o) ==
  LET s == task[o].cur IN
  /\ \A j \in Janitor : s \notin sweep[j].todo
  /\ \A k \in Killer : kill[k] \in KillSteps => Victim(k) # s
  /\ \A p \in Process : /\ s \notin proc[p].marks \cup {proc[p].mark}
                        /\ p # ProcOf[o] => s \notin proc[p].inflight

Untouched ==
  ~ Calling("purge") /\ ~ Calling("shutdown") =>
    \A o \in Owner :
      /\ task[o].at = "created" => /\ Unlisted(o) /\ row[task[o].cur] = "none"
                                   /\ task[o].cur \notin stale
      /\ InBlock(o) => /\ Unlisted(o) /\ row[task[o].cur] = "running"
                       /\ task[o].cur \notin stale
                       /\ task[o].cur \in proc[ProcOf[o]].beats

LEMMA InitOwned == Init => Owned /\ Engaged /\ Untouched
<1> SUFFICES ASSUME Init
             PROVE  Owned /\ Engaged /\ Untouched
  OBVIOUS
<1>1. /\ \A o \in Owner : Hands(o) = {} /\ task[o].at = "idle" /\ task[o].cur = NoSid
                          /\ task[o].target = NoSid /\ task[o].handles = {} /\ ~ InBlock(o)
      /\ \A p \in Process : proc[p].loop = "running"
      /\ \A j \in Janitor : sweep[j].job = "none"
      /\ \A k \in Killer : kill[k] = "none"
  BY DEF Init, NewTask, NewProc, NoSweep, Hands, InBlock
<1>2. Owned
  BY <1>1, Fixed DEF Owned, Separate, EndedLoops, Downs, Listed, Blocks, Holding
<1>3. Engaged
  BY <1>1 DEF Engaged, HeldBooked, KillsBooked, EndingClaimed, EndingKilled, KillSteps, Killer
<1>4. Untouched
  BY <1>1 DEF Untouched
<1> QED BY <1>2, <1>3, <1>4

LEMMA OwnTask ==
  ASSUME TasksTyped, NEW o \in Owner, OwnerStep(o) \/ CancelStep(o)
  PROVE  \A v \in Owner \ {o} : task'[v] = task[v]
BY DEF OwnerStep, CancelStep, Record, RecordFails, EnterBody, Exit, BlockEnds, RecordHandle,
       Released, Create, AdoptCall, Release, Forward, ForkCall, CancelCreate, CancelBlock,
       CancelCall, LeaveBlock, TasksTyped

\* What each step leaves in the hands of its owner.
LEMMA OwnRecord ==
  ASSUME TasksTyped, NEW o \in Owner
  PROVE  /\ Record(o) \/ EnterBody(o) \/ RecordFails(o) \/ BlockEnds(o) \/ Exit(o)
            \/ CancelCreate(o) \/ CancelBlock(o) =>
              /\ task'[o].cur \in {task[o].cur, NoSid} /\ task'[o].target \in {task[o].target, NoSid}
              /\ task'[o].handles = task[o].handles
         /\ Released(o) \/ CancelCall(o) =>
              /\ task'[o].cur = task[o].cur /\ task'[o].target = NoSid
              /\ task'[o].handles = task[o].handles
              /\ task'[o].at = IF task[o].cur = NoSid THEN "idle" ELSE "body"
         /\ RecordHandle(o) =>
              /\ task'[o].cur = task[o].cur /\ task'[o].target = NoSid
              /\ task'[o].handles = task[o].handles \cup {task[o].target}
              /\ task'[o].at = IF task[o].cur = NoSid THEN "idle" ELSE "body"
         /\ \A s \in Sid : /\ Create(o, s) =>
                                /\ task'[o].cur = s /\ task'[o].target = task[o].target
                                /\ task'[o].handles = task[o].handles /\ task'[o].at = "created"
                           /\ AdoptCall(o, s) \/ (\E clone \in Sid : ForkCall(o, clone, s)) =>
                                /\ task'[o].cur = task[o].cur /\ task'[o].target = s
                                /\ task'[o].handles = task[o].handles
                                /\ task'[o].at \in {"adopting", "forked"}
                           /\ Release(o, s) =>
                                /\ task'[o].cur = task[o].cur /\ task'[o].target = s
                                /\ task'[o].handles = task[o].handles \ {s}
                                /\ task'[o].at = "releasing"
<1> USE DEF TasksTyped, Tasks
<1>1. Record(o) \/ EnterBody(o) \/ RecordFails(o) \/ BlockEnds(o) \/ Exit(o)
      \/ CancelCreate(o) \/ CancelBlock(o) =>
        /\ task'[o].cur \in {task[o].cur, NoSid} /\ task'[o].target \in {task[o].target, NoSid}
        /\ task'[o].handles = task[o].handles
  BY DEF Record, EnterBody, RecordFails, BlockEnds, Exit, CancelCreate, CancelBlock, LeaveBlock
<1>2. Released(o) \/ CancelCall(o) =>
        /\ task'[o].cur = task[o].cur /\ task'[o].target = NoSid
        /\ task'[o].handles = task[o].handles
        /\ task'[o].at = IF task[o].cur = NoSid THEN "idle" ELSE "body"
  BY DEF Released, CancelCall, Back
<1>3. RecordHandle(o) =>
        /\ task'[o].cur = task[o].cur /\ task'[o].target = NoSid
        /\ task'[o].handles = task[o].handles \cup {task[o].target}
        /\ task'[o].at = IF task[o].cur = NoSid THEN "idle" ELSE "body"
  BY DEF RecordHandle, Back
<1>4. ASSUME NEW s \in Sid
      PROVE  /\ Create(o, s) =>
                  /\ task'[o].cur = s /\ task'[o].target = task[o].target
                  /\ task'[o].handles = task[o].handles /\ task'[o].at = "created"
             /\ AdoptCall(o, s) \/ (\E clone \in Sid : ForkCall(o, clone, s)) =>
                  /\ task'[o].cur = task[o].cur /\ task'[o].target = s
                  /\ task'[o].handles = task[o].handles
                  /\ task'[o].at \in {"adopting", "forked"}
  BY DEF Create, AdoptCall, ForkCall
<1>5. ASSUME NEW s \in Sid, Release(o, s)
      PROVE  /\ task'[o].cur = task[o].cur /\ task'[o].target = s
             /\ task'[o].handles = task[o].handles \ {s}
             /\ task'[o].at = "releasing"
  <2> DEFINE r == [task[o] EXCEPT !.at = "releasing", !.target = s, !.handles = @ \ {s}]
  <2>1. task' = [task EXCEPT ![o] = r]
    BY <1>5 DEF Release
  <2>2. r.cur = task[o].cur /\ r.target = s /\ r.handles = task[o].handles \ {s} /\ r.at = "releasing"
    OBVIOUS
  <2> HIDE DEF r
  <2> QED BY <2>1, <2>2
<1> QED BY <1>1, <1>2, <1>3, <1>4, <1>5

LEMMA OwnerSeparate ==
  ASSUME RowsTyped, TasksTyped, Known, Owned, NEW o \in Owner, OwnerStep(o) \/ CancelStep(o)
  PROVE  Separate'
<1>1. \A v \in Owner \ {o} : task'[v] = task[v]
  BY OwnTask
<1>2. /\ task[o].cur \notin task[o].handles /\ task[o].target \notin task[o].handles
      /\ task[o].target # NoSid => task[o].target # task[o].cur
      /\ \A v \in Owner : task[v].handles \subseteq Sid /\ NoSid \notin task[v].handles
      /\ NoSid \notin Sid
  BY AsyncAssumption DEF AsyncAssumption, Owned, Separate, TasksTyped, Tasks
<1>3. ASSUME NEW s, \A v \in Owner : s \notin Hands(v), Hands(o)' \subseteq Hands(o) \cup {s},
             task'[o].cur \notin task'[o].handles, task'[o].target \notin task'[o].handles,
             task'[o].target # NoSid => task'[o].target # task'[o].cur
      PROVE  Separate'
  BY <1>1, <1>3 DEF Owned, Separate, Hands
<1>4. ASSUME Hands(o)' \subseteq Hands(o),
             task'[o].cur \notin task'[o].handles, task'[o].target \notin task'[o].handles,
             task'[o].target # NoSid => task'[o].target # task'[o].cur
      PROVE  Separate'
  BY <1>1, <1>4 DEF Owned, Separate, Hands
<1>5. CASE Record(o) \/ EnterBody(o) \/ RecordFails(o) \/ BlockEnds(o) \/ Exit(o)
           \/ CancelCreate(o) \/ CancelBlock(o)
  BY <1>2, <1>4, <1>5, OwnRecord DEF Hands
<1>6. CASE Released(o) \/ CancelCall(o)
  BY <1>2, <1>4, <1>6, OwnRecord DEF Hands
<1>7. CASE RecordHandle(o)
  <2>1. task[o].target \in Sid
    BY <1>7 DEF RecordHandle, At, TasksTyped, CallSteps
  <2> QED BY <1>2, <1>4, <1>7, <2>1, OwnRecord DEF Hands
<1>8. ASSUME NEW s \in Sid, e2b[s] = "none"
      PROVE  \A v \in Owner : s \notin Hands(v)
  BY <1>2, <1>8 DEF Known, TasksKnown, Made, Hands
<1>9. ASSUME NEW s \in Sid, Create(o, s)
      PROVE  Separate'
  <2>1. \A v \in Owner : s \notin Hands(v)
    BY <1>8, <1>9 DEF Create
  <2>2. Hands(o)' \subseteq Hands(o) \cup {s}
    BY <1>9, OwnRecord DEF Hands
  <2>3. /\ task'[o].cur \notin task'[o].handles /\ task'[o].target \notin task'[o].handles
        /\ task'[o].target # NoSid => task'[o].target # task'[o].cur
    BY <1>2, <1>9, <2>1, OwnRecord DEF Hands
  <2> QED BY <1>3, <2>1, <2>2, <2>3
<1>10. ASSUME NEW s \in Sid, AdoptCall(o, s) \/ \E clone \in Sid : ForkCall(o, clone, s)
       PROVE  Separate'
  <2>1. \A v \in Owner : s \notin Hands(v)
    <3>1. CASE AdoptCall(o, s)
      BY <1>2, <3>1 DEF AdoptCall, Hands
    <3>2. CASE \E clone \in Sid : ForkCall(o, clone, s)
      BY <1>8, <3>2 DEF ForkCall
    <3> QED BY <1>10, <3>1, <3>2
  <2>2. Hands(o)' \subseteq Hands(o) \cup {s}
    BY <1>10, OwnRecord DEF Hands
  <2>3. /\ task'[o].cur \notin task'[o].handles /\ task'[o].target \notin task'[o].handles
        /\ task'[o].target # NoSid => task'[o].target # task'[o].cur
    BY <1>2, <1>10, <2>1, OwnRecord DEF Hands
  <2> QED BY <1>3, <2>1, <2>2, <2>3
<1>11. ASSUME NEW s \in Sid, Release(o, s)
       PROVE  Separate'
  <2>1. s \in task[o].handles
    BY <1>11 DEF Release, Holds
  <2> QED BY <1>2, <1>4, <1>11, <2>1, OwnRecord DEF Hands
<1>12. ASSUME NEW s \in Sid, Forward(o, s)
       PROVE  Separate'
  BY <1>2, <1>4, <1>12 DEF Forward, Hands
<1> QED BY <1>5, <1>6, <1>7, <1>9, <1>10, <1>11, <1>12 DEF OwnerStep, CancelStep

\* An owner that takes a step elsewhere than at the end of its block is in a
\* running loop.
LEMMA OwnerRuns ==
  ASSUME Owned, NEW o \in Owner, (OwnerStep(o) \/ CancelStep(o)), ~ BlockEnds(o)
  PROVE  proc[ProcOf[o]].loop = "running"
BY DEF Owned, EndedLoops, OwnerStep, CancelStep, Record, RecordFails, EnterBody, Exit,
       RecordHandle, Released, Create, AdoptCall, Release, Forward, ForkCall, CancelCreate,
       CancelBlock, CancelCall, At, Idle, Holds, CallSteps

LEMMA OwnerListed ==
  ASSUME RowsTyped, TasksTyped, ProcsTyped, Known, Owned, NEW o \in Owner,
         OwnerStep(o) \/ CancelStep(o), ~ Calling("shutdown")
  PROVE  \A v \in Owner : Holding(v)' \subseteq proc'[ProcOf[v]].inflight
<1> DEFINE p == ProcOf[o]
<1>1. /\ \A v \in Owner \ {o} : task'[v] = task[v] /\ Holding(v)' = Holding(v)
      /\ \A q \in Process \ {p} : proc'[q] = proc[q]
      /\ p \in Process
  BY OwnTask, OwnerProcsTyped, Fixed DEF OwnProc, Holding, InBlock
<1>2. \A v \in Owner : /\ Holding(v) \subseteq proc[ProcOf[v]].inflight
                       /\ v # o => Hands(v) \cap Hands(o) = {}
                       /\ Holding(v) \subseteq Hands(v)
  BY AsyncAssumption
     DEF AsyncAssumption, Owned, Listed, Separate, Holding, Hands, InBlock, TasksTyped, Tasks
<1>3. ASSUME NEW X, X \cap Holding(o)' = {}, X \subseteq Hands(o) \cup {NoSid},
             proc[p].inflight \ X \subseteq proc'[p].inflight,
             Holding(o)' \subseteq Holding(o) \cup proc'[p].inflight
      PROVE  \A v \in Owner : Holding(v)' \subseteq proc'[ProcOf[v]].inflight
  <2>1. \A v \in Owner : NoSid \notin Holding(v)
    BY <1>2 DEF Hands
  <2> QED BY <1>1, <1>2, <1>3, <2>1, Fixed
<1>4. ASSUME proc[p].inflight \subseteq proc'[p].inflight,
             Holding(o)' \subseteq Holding(o) \cup proc'[p].inflight
      PROVE  \A v \in Owner : Holding(v)' \subseteq proc'[ProcOf[v]].inflight
  BY <1>1, <1>2, <1>4, Fixed
<1>5. CASE Record(o)
  <2>1. proc'[p].inflight = proc[p].inflight \cup {task[o].cur}
    BY <1>1, <1>5 DEF Record, Register, ProcsTyped, Procs
  <2>2. Holding(o)' \subseteq Holding(o) \cup {task[o].cur}
    BY <1>5 DEF Record, Holding, TasksTyped, Tasks
  <2> QED BY <1>4, <2>1, <2>2
<1>6. CASE RecordHandle(o)
  <2>1. proc'[p].inflight = proc[p].inflight \cup {task[o].target}
    BY <1>1, <1>6 DEF RecordHandle, Register, ProcsTyped, Procs
  <2>2. Holding(o)' \subseteq Holding(o) \cup {task[o].target}
    <3>1. task'[o].cur = task[o].cur /\ task'[o].handles = task[o].handles \cup {task[o].target}
      BY <1>6, OwnRecord
    <3>2. InBlock(o)' => InBlock(o)
      BY <1>6, <3>1 DEF RecordHandle, At, InBlock, CallSteps
    <3> QED BY <3>1, <3>2 DEF Holding
  <2> QED BY <1>4, <2>1, <2>2
<1>7. CASE BlockEnds(o)
  <2>1. proc[p].inflight \ {task[o].cur} \subseteq proc'[p].inflight
    BY <1>1, <1>7 DEF BlockEnds, Discard, Awaited, At, ProcsTyped, Procs
  <2>2. Holding(o)' = task[o].handles /\ task[o].cur \notin task[o].handles
    BY <1>7 DEF BlockEnds, Holding, InBlock, TasksTyped, Tasks, Owned, Separate
  <2>3. task[o].cur \in Hands(o) \cup {NoSid} /\ task[o].handles \subseteq Holding(o)
    BY DEF Hands, Holding
  <2>4. \A v \in Owner : NoSid \notin Holding(v)
    BY <1>2 DEF Hands
  <2> QED BY <1>1, <1>2, <2>1, <2>2, <2>3, <2>4, Fixed
<1>8. CASE Released(o)
  <2>1. proc[p].inflight \ {task[o].target} \subseteq proc'[p].inflight
    BY <1>1, <1>8 DEF Released, Discard, Awaited, At, ProcsTyped, Procs
  <2>2. Holding(o)' \subseteq Holding(o)
    BY <1>8, OwnRecord DEF Holding, InBlock, Released, At, CallSteps
  <2>3. task[o].target \in Sid
    BY <1>8 DEF Released, At, TasksTyped, CallSteps
  <2>4. task[o].target \in Hands(o) /\ task[o].target \notin Holding(o)
    BY <2>3, AsyncAssumption DEF AsyncAssumption, Hands, Holding, Owned, Separate
  <2> QED BY <1>1, <1>2, <2>1, <2>2, <2>4, Fixed
<1>9. proc[p].inflight \subseteq proc'[p].inflight \/ BlockEnds(o) \/ Released(o)
  <2>1. CASE Exit(o) \/ CancelBlock(o)
    BY <1>1, <2>1 DEF Exit, CancelBlock, LeaveBlock, ProcsTyped, Procs
  <2>2. CASE Record(o) \/ RecordHandle(o)
    BY <1>1, <2>2 DEF Record, RecordHandle, Register, ProcsTyped, Procs
  <2> QED BY <2>1, <2>2 DEF OwnerStep, CancelStep, RecordFails, EnterBody, Create, AdoptCall, Release,
                  Forward, ForkCall, CancelCreate, CancelCall
<1>10. \/ Holding(o)' \subseteq Holding(o)
       \/ Record(o) \/ RecordHandle(o) \/ BlockEnds(o) \/ Released(o)
  <2>1. CASE EnterBody(o) \/ RecordFails(o) \/ Exit(o) \/ CancelCreate(o) \/ CancelBlock(o)
    <3>1. task'[o].handles = task[o].handles
      BY <2>1, OwnRecord
    <3>2. InBlock(o)' => InBlock(o) /\ task'[o].cur = task[o].cur
      BY <2>1 DEF InBlock, EnterBody, RecordFails, Exit, CancelCreate, CancelBlock, LeaveBlock,
                  TasksTyped, Tasks, At, CallSteps
    <3> QED BY <3>1, <3>2 DEF Holding
  <2>2. CASE CancelCall(o)
    BY <2>2, OwnRecord DEF Holding, InBlock, CancelCall
  <2>3. ASSUME NEW s \in Sid, Create(o, s)
        PROVE  Holding(o)' \subseteq Holding(o)
    BY <2>3, OwnRecord DEF Holding, InBlock, CallSteps
  <2>4. ASSUME NEW s \in Sid, \/ AdoptCall(o, s) \/ Release(o, s)
                              \/ \E clone \in Sid : ForkCall(o, clone, s)
        PROVE  Holding(o)' \subseteq Holding(o)
    <3>1. task'[o].handles \subseteq task[o].handles /\ task'[o].cur = task[o].cur
      BY <2>4, OwnRecord
    <3>2. task[o].at \in {"idle", "body"}
      BY <2>4 DEF AdoptCall, Release, ForkCall, Holds, Idle, At
    <3>3. task[o].cur # NoSid => InBlock(o)
      BY <3>2 DEF InBlock, Owned, Blocks
    <3> QED BY <3>1, <3>3 DEF Holding, InBlock
  <2>5. ASSUME NEW s \in Sid, Forward(o, s)
        PROVE  Holding(o)' \subseteq Holding(o)
    BY <2>5 DEF Forward, Holding, InBlock
  <2> QED BY <2>1, <2>2, <2>3, <2>4, <2>5 DEF OwnerStep, CancelStep
<1> QED BY <1>4, <1>5, <1>6, <1>7, <1>8, <1>9, <1>10

LEMMA OwnerOwned ==
  ASSUME RowsTyped, TasksTyped, ProcsTyped, KillsTyped, Known, Owned, NEW o \in Owner,
         OwnerStep(o) \/ CancelStep(o), calls' = calls
  PROVE  Owned'
<1>1. Separate'
  BY OwnerSeparate
<1>2. \A v \in Owner \ {o} : task'[v] = task[v]
  BY OwnTask
<1>3. EndedLoops'
  <2>1. \A p \in Process : proc'[p].loop = proc[p].loop
    BY OwnerProcsTyped DEF OwnProc
  <2>2. CASE BlockEnds(o)
    <3>1. task'[o].at = "idle" /\ task'[o].handles = task[o].handles
      BY <2>2 DEF BlockEnds, TasksTyped, Tasks
    <3> QED BY <1>2, <2>1, <3>1, Fixed DEF Owned, EndedLoops
  <2>3. CASE ~ BlockEnds(o)
    <3>1. proc[ProcOf[o]].loop = "running"
      BY <2>3, OwnerRuns
    <3> QED BY <1>2, <2>1, <3>1, Fixed DEF Owned, EndedLoops
  <2> QED BY <2>2, <2>3
<1>4. Downs'
  BY OwnerKillsTyped DEF OwnKills, Owned, Downs, Calling
<1>5. Listed'
  BY OwnerListed DEF Listed, Calling
<1>6. Blocks'
  <2>1. task'[o].at = "idle" => task'[o].cur = NoSid
    <3>1. CASE Record(o) \/ EnterBody(o) \/ RecordFails(o) \/ BlockEnds(o) \/ Exit(o)
               \/ CancelCreate(o) \/ CancelBlock(o)
      BY <3>1 DEF Record, EnterBody, RecordFails, BlockEnds, Exit, CancelCreate, CancelBlock,
                  LeaveBlock, TasksTyped, Tasks
    <3>2. CASE Released(o) \/ CancelCall(o) \/ RecordHandle(o)
      BY <3>2, OwnRecord
    <3>3. ASSUME NEW s \in Sid, \/ Create(o, s) \/ AdoptCall(o, s) \/ Release(o, s)
                                \/ \E clone \in Sid : ForkCall(o, clone, s)
          PROVE  task'[o].at # "idle"
      BY <3>3, OwnRecord
    <3>4. ASSUME NEW s \in Sid, Forward(o, s)
          PROVE  task' = task
      BY <3>4 DEF Forward
    <3> QED BY <3>1, <3>2, <3>3, <3>4 DEF OwnerStep, CancelStep, Owned, Blocks
  <2> QED BY <1>2, <2>1 DEF Owned, Blocks
<1> QED BY <1>1, <1>3, <1>4, <1>5, <1>6 DEF Owned

\* The row an owner writes is one it still had to write.
OwnRow(o, s) == \/ task[o].at = "created" /\ s = task[o].cur
                \/ task[o].at \in {"forked", "adopting"} /\ s = task[o].target

LEMMA OwnerRows ==
  ASSUME RowsTyped, TasksTyped, NEW o \in Owner, OwnerStep(o) \/ CancelStep(o)
  PROVE  \A s \in Sid : row'[s] # row[s] \/ (s \in stale' /\ s \notin stale) =>
           OwnRow(o, s) /\ row'[s] = "running"
<1>1. ASSUME NEW t \in Sid, OwnRow(o, t), WriteRow(t, "running")
      PROVE  \A s \in Sid : row'[s] # row[s] \/ (s \in stale' /\ s \notin stale) =>
               OwnRow(o, s) /\ row'[s] = "running"
  BY <1>1 DEF WriteRow, RowsTyped
<1>2. /\ task[o].at \in {"created", "waiting", "body", "ending"} => task[o].cur \in Sid
      /\ task[o].at \in CallSteps => task[o].target \in Sid
  BY DEF TasksTyped
<1>3. CASE Record(o) \/ RecordHandle(o)
  BY <1>1, <1>2, <1>3 DEF Record, RecordHandle, At, OwnRow, CallSteps
<1>4. CASE CancelStep(o)
  BY <1>1, <1>2, <1>4
     DEF CancelStep, CancelCreate, CancelBlock, CancelCall, WrittenOrNot, At, OwnRow, CallSteps
<1>5. CASE UNCHANGED <<row, stale>>
  BY <1>5
<1> QED BY <1>3, <1>4, <1>5
        DEF OwnerStep, RecordFails, EnterBody, Exit, BlockEnds, Released, Create, AdoptCall, Release,
            Forward, ForkCall, dbVars

\* The kill an owner starts is of what it had in its block or in a handle.
LEMMA OwnerKills ==
  ASSUME TasksTyped, KillsTyped, Engaged, NEW o \in Owner, OwnerStep(o) \/ CancelStep(o)
  PROVE  \/ kill' = kill
         \/ \E s \in Sid : /\ kill' = [kill EXCEPT ![<<ProcOf[o], s>>] = "claim"]
                           /\ s \in Hands(o) /\ row[s] # "none"
                           /\ s \in task[o].handles \/ (s = task[o].cur /\ task'[o].at = "ending")
<1>1. NoSid \notin Sid
  BY AsyncAssumption DEF AsyncAssumption
<1>2. CASE Exit(o) \/ CancelBlock(o)
  <2> DEFINE s == task[o].cur
  <2>1. s \in Sid /\ task[o].at \in {"body", "waiting"} \cup CallSteps
    BY <1>2 DEF Exit, CancelBlock, At, TasksTyped, Tasks, MaybeSid, CallSteps
  <2>2. kill' = [kill EXCEPT ![<<ProcOf[o], s>>] = "claim"] /\ task'[o].at = "ending"
    <3>1. LeaveBlock(o)
      BY <1>2 DEF Exit, CancelBlock
    <3> QED BY <3>1 DEF LeaveBlock, TasksTyped, Tasks
  <2>3. s \in Hands(o) /\ row[s] # "none"
    BY <1>1, <2>1 DEF Hands, Engaged, HeldBooked, CallSteps
  <2> QED BY <2>1, <2>2, <2>3
<1>3. ASSUME NEW s \in Sid, Release(o, s)
      PROVE  \E t \in Sid : /\ kill' = [kill EXCEPT ![<<ProcOf[o], t>>] = "claim"]
                            /\ t \in Hands(o) /\ row[t] # "none" /\ t \in task[o].handles
  <2>1. s \in task[o].handles /\ task[o].at \in {"idle", "body"}
    BY <1>3 DEF Release, Holds, Idle, At
  <2>2. s \in Hands(o) /\ row[s] # "none"
    BY <1>1, <2>1 DEF Hands, Engaged, HeldBooked
  <2> QED BY <1>3, <2>1, <2>2 DEF Release
<1> QED BY <1>2, <1>3
        DEF OwnerStep, CancelStep, Record, RecordFails, EnterBody, BlockEnds, RecordHandle, Released,
            CancelCreate, CancelCall, Create, AdoptCall, Forward, ForkCall

LEMMA OwnerEngaged ==
  ASSUME RowsTyped, TasksTyped, KillsTyped, Known, Owned, Engaged, NEW o \in Owner,
         OwnerStep(o) \/ CancelStep(o)
  PROVE  Engaged'
<1>1. \A v \in Owner \ {o} : task'[v] = task[v]
  BY OwnTask
<1>2. \A s \in Sid : row'[s] # row[s] => OwnRow(o, s) /\ row'[s] = "running"
  BY OwnerRows
<1>3. \A v \in Owner : task[v].handles \subseteq Sid /\ task[v].cur \in Sid \cup {NoSid}
  BY DEF TasksTyped, Tasks, MaybeSid
<1>4. NoSid \notin Sid /\ ProcOf[o] \in Process
  BY AsyncAssumption, Fixed DEF AsyncAssumption
<1>5. HeldBooked'
  <2>1. \A s \in Sid : row[s] # "none" => row'[s] # "none"
    BY <1>2
  <2>2. \A s \in task'[o].handles : row'[s] # "none"
    <3>1. task'[o].handles \subseteq task[o].handles \/ RecordHandle(o)
      BY OwnRecord DEF OwnerStep, CancelStep, Forward
    <3>2. CASE RecordHandle(o)
      <4>1. task[o].target \in Sid
        BY <3>2 DEF RecordHandle, At, TasksTyped, CallSteps
      <4>2. row'[task[o].target] = "running"
        BY <3>2, <4>1 DEF RecordHandle, WriteRow, RowsTyped
      <4> QED BY <1>3, <2>1, <3>2, <4>2, OwnRecord DEF Engaged, HeldBooked
    <3> QED BY <1>3, <2>1, <3>1, <3>2 DEF Engaged, HeldBooked
  <2>3. ASSUME task'[o].at \notin {"idle", "created"}, task'[o].cur # NoSid
        PROVE  row'[task'[o].cur] # "none"
    <3>1. CASE Record(o)
      <4>1. task[o].cur \in Sid /\ task'[o].cur = task[o].cur
        BY <3>1 DEF Record, At, TasksTyped, Tasks
      <4> QED BY <3>1, <4>1 DEF Record, WriteRow, RowsTyped
    <3>2. task[o].at # "idle" \/ task[o].cur = NoSid
      BY DEF Owned, Blocks
    <3>3. CASE ~ Record(o)
      <4>1. task'[o].cur = task[o].cur
        BY <2>3, OwnRecord DEF OwnerStep, CancelStep, Forward
      <4>2. task[o].at # "created"
        BY <2>3, <3>3 DEF OwnerStep, CancelStep, RecordFails, EnterBody, Exit, BlockEnds, RecordHandle,
                    Released, Create, AdoptCall, Release, Forward, ForkCall, CancelCreate, CancelBlock,
                    CancelCall, At, Idle, Holds, TasksTyped, Tasks
      <4> QED BY <1>3, <2>1, <2>3, <3>2, <4>1, <4>2 DEF Engaged, HeldBooked
    <3> QED BY <3>1, <3>3
  <2> QED BY <1>1, <1>3, <2>1, <2>2, <2>3 DEF Engaged, HeldBooked
<1>6. KillsBooked'
  <2> SUFFICES ASSUME NEW k \in KillTask, kill'[k] \in KillSteps
               PROVE  row'[k[2]] # "none"
    BY DEF KillsBooked
  <2>0. k[2] \in Sid
    BY DEF KillTask
  <2>1. CASE kill'[k] = kill[k]
    BY <1>2, <2>0, <2>1 DEF Engaged, KillsBooked
  <2>2. CASE kill'[k] # kill[k]
    <3>1. PICK s \in Sid : /\ kill' = [kill EXCEPT ![<<ProcOf[o], s>>] = "claim"]
                           /\ row[s] # "none"
      BY <2>2, OwnerKills
    <3>2. k = <<ProcOf[o], s>>
      BY <2>2, <3>1 DEF KillsTyped, Killer
    <3> QED BY <1>2, <3>1, <3>2
  <2> QED BY <2>1, <2>2
<1>7. ASSUME task'[o].at = "ending"
      PROVE  kill'[<<ProcOf[o], task'[o].cur>>] = "claim"
  <2>1. Exit(o) \/ CancelBlock(o)
    <3>1. CASE Record(o) \/ RecordFails(o) \/ EnterBody(o) \/ BlockEnds(o) \/ CancelCreate(o)
      BY <1>7, <3>1 DEF Record, RecordFails, EnterBody, BlockEnds, CancelCreate, TasksTyped, Tasks
    <3>2. CASE Released(o) \/ CancelCall(o) \/ RecordHandle(o)
      BY <1>7, <3>2, OwnRecord
    <3>3. ASSUME NEW s \in Sid, \/ Create(o, s) \/ AdoptCall(o, s) \/ Release(o, s)
                                \/ \E clone \in Sid : ForkCall(o, clone, s)
          PROVE  FALSE
      BY <1>7, <3>3, OwnRecord
    <3>4. ASSUME NEW s \in Sid, Forward(o, s)
          PROVE  FALSE
      BY <1>7, <3>4 DEF Forward, Holds, Idle, At
    <3> QED BY <3>1, <3>2, <3>3, <3>4 DEF OwnerStep, CancelStep
  <2>2. task[o].cur \in Sid
    BY <2>1 DEF Exit, CancelBlock, At, TasksTyped, Tasks, MaybeSid
  <2>3. task'[o].cur = task[o].cur
    BY <2>1 DEF Exit, CancelBlock, LeaveBlock, TasksTyped, Tasks
  <2> QED BY <1>4, <2>1, <2>2, <2>3
          DEF Exit, CancelBlock, LeaveBlock, KillsTyped, Killer, KillTask, KillSteps
<1>8. ASSUME NEW v \in Owner, v # o, task'[v].at = "ending"
      PROVE  /\ task'[v] = task[v] /\ task[v].cur \in Sid
             /\ row'[task[v].cur] = row[task[v].cur]
             /\ <<ProcOf[v], task[v].cur>> \in Killer
  <2>1. task'[v] = task[v] /\ task[v].cur \in Sid
    BY <1>1, <1>8 DEF TasksTyped
  <2>2. task[v].cur \notin Hands(o)
    BY <1>4, <1>8, <2>1 DEF Owned, Separate, Hands
  <2>3. row'[task[v].cur] = row[task[v].cur]
    BY <1>2, <1>4, <2>1, <2>2 DEF OwnRow, Hands
  <2> QED BY <2>1, <2>3, Fixed DEF Killer, KillTask
<1>9. \A k \in Killer : kill'[k] = kill[k] \/ kill'[k] = "claim"
  BY OwnerKills DEF KillsTyped
<1>10. EndingClaimed'
  <2> SUFFICES ASSUME NEW v \in Owner, task'[v].at = "ending",
                      kill'[<<ProcOf[v], task'[v].cur>>] \in KillSteps \ {"claim"}
               PROVE  row'[task'[v].cur] \in {"cleaning", "cleaned"}
    BY DEF EndingClaimed
  <2>1. v # o
    BY <1>7
  <2>2. /\ task'[v] = task[v] /\ row'[task[v].cur] = row[task[v].cur]
        /\ <<ProcOf[v], task[v].cur>> \in Killer
    BY <1>8, <2>1
  <2>3. kill'[<<ProcOf[v], task[v].cur>>] = kill[<<ProcOf[v], task[v].cur>>]
    BY <1>9, <2>2
  <2> QED BY <2>2, <2>3 DEF Engaged, EndingClaimed
<1>11. EndingKilled'
  <2> SUFFICES ASSUME NEW v \in Owner, v # o, task'[v].at = "ending"
               PROVE  \/ e2b'[task'[v].cur] = "dead" \/ row'[task'[v].cur] = "cleaning"
                      \/ kill'[<<ProcOf[v], task'[v].cur>>] \in KillSteps
    BY <1>7 DEF EndingKilled, KillSteps
  <2>1. /\ task'[v] = task[v] /\ task[v].cur \in Sid
        /\ row'[task[v].cur] = row[task[v].cur] /\ <<ProcOf[v], task[v].cur>> \in Killer
    BY <1>8
  <2>2. kill[<<ProcOf[v], task[v].cur>>] \in KillSteps =>
          kill'[<<ProcOf[v], task[v].cur>>] \in KillSteps
    BY <1>9, <2>1 DEF KillSteps
  <2> QED BY <2>1, <2>2, OwnerAges DEF Engaged, EndingKilled, Ages
<1> QED BY <1>5, <1>6, <1>10, <1>11 DEF Engaged

\* What an owner does to the heartbeats and the _inflight of its process.
LEMMA OwnBeats ==
  ASSUME TasksTyped, ProcsTyped, NEW o \in Owner, OwnerStep(o) \/ CancelStep(o)
  PROVE  LET p == ProcOf[o] IN
         /\ proc'[p].inflight \subseteq proc[p].inflight \cup Hands(o)
         /\ proc[p].beats \ {task[o].cur} \subseteq proc'[p].beats
         /\ task'[o].at # "ending" => proc[p].beats \subseteq proc'[p].beats
<1> DEFINE p == ProcOf[o]
<1>1. p \in Process /\ NoSid \notin Sid
  BY Fixed, AsyncAssumption DEF AsyncAssumption
<1>2. CASE Record(o)
  <2>1. task[o].cur \in Hands(o)
    BY <1>1, <1>2 DEF Record, At, TasksTyped, Hands
  <2> QED BY <1>1, <1>2, <2>1 DEF Record, Register, ProcsTyped, Procs
<1>3. CASE RecordHandle(o)
  <2>1. task[o].target \in Hands(o)
    BY <1>1, <1>3 DEF RecordHandle, At, TasksTyped, Hands, CallSteps
  <2> QED BY <1>1, <1>3, <2>1 DEF RecordHandle, Register, ProcsTyped, Procs
<1>4. CASE BlockEnds(o) \/ Released(o)
  BY <1>1, <1>4 DEF BlockEnds, Released, Discard, ProcsTyped, Procs
<1>5. CASE Exit(o) \/ CancelBlock(o)
  <2>1. LeaveBlock(o)
    BY <1>5 DEF Exit, CancelBlock
  <2>2. task'[o].at = "ending"
    BY <2>1 DEF LeaveBlock, TasksTyped, Tasks
  <2> QED BY <1>1, <2>1, <2>2 DEF LeaveBlock, ProcsTyped, Procs
<1>6. CASE proc' = proc
  BY <1>6
<1> QED BY <1>2, <1>3, <1>4, <1>5, <1>6
        DEF OwnerStep, CancelStep, RecordFails, EnterBody, Create, AdoptCall, Release, Forward,
            ForkCall, CancelCreate, CancelCall

\* A task comes into its block by Record only, and makes a sandbox by Create.
LEMMA OwnBlock ==
  ASSUME TasksTyped, Owned, NEW o \in Owner, OwnerStep(o) \/ CancelStep(o)
  PROVE  /\ InBlock(o)' => task'[o].cur = task[o].cur /\ (InBlock(o) \/ Record(o))
         /\ task'[o].at = "created" => \E s \in Sid : Create(o, s)
<1>1. CASE Record(o)
  BY <1>1 DEF Record, TasksTyped, Tasks
<1>2. CASE RecordFails(o) \/ EnterBody(o) \/ BlockEnds(o) \/ CancelCreate(o) \/ CancelBlock(o) \/ Exit(o)
  BY <1>2 DEF RecordFails, EnterBody, BlockEnds, CancelCreate, CancelBlock, Exit, LeaveBlock, InBlock,
              At, TasksTyped, Tasks, CallSteps
<1>3. CASE Released(o) \/ CancelCall(o) \/ RecordHandle(o)
  <2>1. task[o].at \in CallSteps
    BY <1>3 DEF Released, CancelCall, RecordHandle, At, CallSteps
  <2> QED BY <1>3, <2>1, OwnRecord DEF InBlock
<1>4. ASSUME NEW s \in Sid, AdoptCall(o, s) \/ Release(o, s) \/ \E clone \in Sid : ForkCall(o, clone, s)
      PROVE  /\ InBlock(o)' => task'[o].cur = task[o].cur /\ InBlock(o)
             /\ task'[o].at # "created"
  <2>1. task[o].at \in {"idle", "body"}
    BY <1>4 DEF AdoptCall, Release, ForkCall, Holds, Idle, At
  <2>2. task'[o].cur = task[o].cur /\ task'[o].at # "created"
    BY <1>4, OwnRecord
  <2> QED BY <2>1, <2>2 DEF Owned, Blocks, InBlock
<1>5. ASSUME NEW s \in Sid, Create(o, s)
      PROVE  ~ InBlock(o)'
  BY <1>5, OwnRecord DEF InBlock, CallSteps
<1>6. ASSUME NEW s \in Sid, Forward(o, s)
      PROVE  task' = task /\ task[o].at # "created"
  BY <1>6 DEF Forward, Holds, Idle, At
<1> QED BY <1>1, <1>2, <1>3, <1>4, <1>5, <1>6, OwnRecord DEF OwnerStep, CancelStep, InBlock

LEMMA OwnerUntouched ==
  ASSUME RowsTyped, TasksTyped, ProcsTyped, KillsTyped, Known, Owned, Engaged, Untouched,
         NEW o \in Owner, OwnerStep(o) \/ CancelStep(o), calls' = calls
  PROVE  Untouched'
<1> SUFFICES ASSUME ~ Calling("purge"), ~ Calling("shutdown"), NEW v \in Owner
             PROVE  /\ task'[v].at = "created" => /\ Unlisted(v)' /\ row'[task'[v].cur] = "none"
                                                  /\ task'[v].cur \notin stale'
                    /\ InBlock(v)' => /\ Unlisted(v)' /\ row'[task'[v].cur] = "running"
                                      /\ task'[v].cur \notin stale'
                                      /\ task'[v].cur \in proc'[ProcOf[v]].beats
  BY DEF Untouched, Calling
<1>1. /\ \A i \in Owner \ {o} : task'[i] = task[i]
      /\ OwnProc(o) /\ sweep' = sweep /\ \A k \in Killer : Victim(k)' = Victim(k)
      /\ NoSid \notin Sid /\ ProcOf[o] \in Process
  BY OwnTask, OwnerProcsTyped, OwnerKillsTyped, Fixed, AsyncAssumption
     DEF AsyncAssumption, OwnKills, Victim
<1>2. ASSUME NEW i \in Owner, task[i].at = "created" \/ InBlock(i)
      PROVE  task[i].cur \in Sid /\ task[i].cur \in Hands(i)
  BY <1>1, <1>2 DEF InBlock, TasksTyped, Tasks, MaybeSid, Hands
<1>3. ASSUME NEW s \in Sid, s \notin stale, ~ OwnRow(o, s)
      PROVE  row'[s] = row[s] /\ s \notin stale'
  BY <1>3, OwnerRows
<1>4. ASSUME task'[v].cur = task[v].cur, task[v].cur \in Sid, Unlisted(v),
             v # o => task[v].cur \notin Hands(o),
             kill' = kill \/ \E t \in Sid : /\ kill' = [kill EXCEPT ![<<ProcOf[o], t>>] = "claim"]
                                            /\ t # task[v].cur
      PROVE  Unlisted(v)'
  <2> DEFINE s == task[v].cur
  <2>1. \A k \in Killer : kill'[k] \in KillSteps => Victim(k)' # s
    <3> SUFFICES ASSUME NEW k \in Killer, kill'[k] \in KillSteps
                 PROVE  Victim(k) # s
      BY <1>1
    <3>1. CASE kill'[k] = kill[k]
      BY <1>4, <3>1 DEF Unlisted
    <3>2. CASE kill'[k] # kill[k]
      <4>1. PICK t \in Sid : kill' = [kill EXCEPT ![<<ProcOf[o], t>>] = "claim"] /\ t # s
        BY <1>4, <3>2
      <4>2. k = <<ProcOf[o], t>> /\ k \notin Janitor
        BY <1>1, <3>2, <4>1, TasksDiffer DEF TasksDiffer, KillsTyped
      <4> QED BY <4>1, <4>2 DEF Victim
    <3> QED BY <3>1, <3>2
  <2>2. \A p \in Process : p # ProcOf[v] => s \notin proc'[p].inflight
    <3> SUFFICES ASSUME NEW p \in Process, p # ProcOf[v]
                 PROVE  s \notin proc'[p].inflight
      OBVIOUS
    <3>1. s \notin proc[p].inflight
      BY <1>4 DEF Unlisted
    <3>2. CASE p = ProcOf[o]
      BY <1>4, <3>1, <3>2, OwnBeats
    <3>3. CASE p # ProcOf[o]
      BY <1>1, <3>1, <3>3 DEF OwnProc
    <3> QED BY <3>2, <3>3
  <2> QED BY <1>1, <1>4, <2>1, <2>2 DEF Unlisted, OwnProc
<1>5. CASE v # o /\ (task'[v].at = "created" \/ InBlock(v)')
  <2> DEFINE s == task[v].cur
  <2>1. task'[v] = task[v] /\ InBlock(v)' = InBlock(v)
    BY <1>1, <1>5 DEF InBlock
  <2>2. s \in Sid /\ s \in Hands(v)
    BY <1>2, <1>5, <2>1
  <2>3. s \notin Hands(o)
    BY <1>5, <2>2 DEF Owned, Separate
  <2>4. Unlisted(v) /\ s \notin stale
    BY <1>5, <2>1 DEF Untouched
  <2>5. row'[s] = row[s] /\ s \notin stale'
    BY <1>1, <1>3, <2>2, <2>3, <2>4 DEF OwnRow, Hands
  <2>6. Unlisted(v)'
    BY <1>4, <2>1, <2>2, <2>3, <2>4, OwnerKills
  <2>7. s \in proc[ProcOf[v]].beats => s \in proc'[ProcOf[v]].beats
    <3>1. CASE ProcOf[v] = ProcOf[o]
      <4>1. s # task[o].cur
        BY <1>1, <2>2, <2>3 DEF Hands
      <4> QED BY <3>1, <4>1, OwnBeats
    <3>2. CASE ProcOf[v] # ProcOf[o]
      BY <1>1, <3>2, Fixed DEF OwnProc
    <3> QED BY <3>1, <3>2
  <2> QED BY <2>1, <2>4, <2>5, <2>6, <2>7 DEF Untouched
<1>6. CASE v = o /\ task'[v].at = "created"
  <2>1. PICK s \in Sid : Create(o, s)
    BY <1>6, OwnBlock
  <2>2. /\ task'[o].cur = s /\ e2b[s] = "none"
        /\ UNCHANGED <<row, stale, proc, sweep, kill>>
    BY <2>1, OwnRecord DEF Create, dbVars
  <2>3. s \notin Made
    BY <1>1, <2>2 DEF Made
  <2>4. row[s] = "none" /\ s \notin stale
    BY <2>3 DEF Known, RowsKnown
  <2>5. \A k \in Killer : kill[k] \in KillSteps => Victim(k) \in Made
    BY DEF Known, KillsKnown, Victim, Killer
  <2>6. Unlisted(o)'
    BY <1>1, <2>2, <2>3, <2>5 DEF Unlisted, Known, KillsKnown, ProcsKnown
  <2>7. ~ InBlock(o)'
    BY <1>6 DEF InBlock, CallSteps
  <2> QED BY <1>6, <2>2, <2>4, <2>6, <2>7
<1>7. CASE v = o /\ InBlock(v)'
  <2> DEFINE s == task[o].cur
  <2>1. task'[o].cur = s /\ (InBlock(o) \/ Record(o)) /\ task'[o].at \notin {"created", "ending"}
    BY <1>7, OwnBlock DEF InBlock, CallSteps
  <2>2. s \in Sid
    BY <1>2, <2>1 DEF Record, At
  <2>3. Unlisted(o)
    BY <2>1 DEF Untouched, Record, At
  <2>4. kill' = kill \/ \E t \in Sid : /\ kill' = [kill EXCEPT ![<<ProcOf[o], t>>] = "claim"]
                                       /\ t # s
    BY <2>1, OwnerKills DEF Owned, Separate
  <2>5. Unlisted(o)'
    BY <1>4, <1>7, <2>1, <2>2, <2>3, <2>4
  <2>6. CASE Record(o)
    <3>1. row'[s] = "running" /\ s \notin stale'
      BY <2>2, <2>6 DEF Record, WriteRow, RowsTyped
    <3>2. s \in proc'[ProcOf[o]].beats
      BY <1>1, <2>6 DEF Record, Register, ProcsTyped, Procs
    <3> QED BY <1>7, <2>1, <2>5, <3>1, <3>2
  <2>7. CASE InBlock(o)
    <3>1. row[s] = "running" /\ s \notin stale /\ s \in proc[ProcOf[o]].beats
      BY <2>7 DEF Untouched
    <3>2. ~ OwnRow(o, s)
      BY <1>1, <2>2, <2>7 DEF OwnRow, InBlock, Owned, Separate, CallSteps
    <3>3. row'[s] = "running" /\ s \notin stale'
      BY <1>3, <2>2, <3>1, <3>2
    <3>4. s \in proc'[ProcOf[o]].beats
      BY <2>1, <3>1, OwnBeats
    <3> QED BY <1>7, <2>1, <2>5, <3>3, <3>4
  <2> QED BY <2>1, <2>6, <2>7
<1> QED BY <1>5, <1>6, <1>7

\* What a killer writes, and how its kill goes on or ends.
LEMMA KillerMoves ==
  ASSUME RowsTyped, KillsTyped, Known, NEW k \in Killer, KillStep(k)
  PROVE  /\ kill[k] \in KillSteps /\ Victim(k) \in Sid
         /\ \A s \in Sid : row'[s] # row[s] => /\ s = Victim(k) /\ row'[s] \in {"cleaning", "cleaned"}
                                               /\ row'[s] = "cleaned" => e2b'[s] = "dead"
         /\ stale' \subseteq stale
         /\ kill'[k] \in KillSteps => /\ Victim(k)' = Victim(k) /\ kill'[k] # "claim"
                                      /\ kill[k] = "claim" => row'[Victim(k)] = "cleaning"
         /\ kill'[k] \notin KillSteps =>
              /\ k \in KillTask \ Janitor => row' = row
              /\ kill[k] = "claim" => row[Victim(k)] \notin Claimable
<1>1. kill[k] \in KillSteps /\ Victim(k) \in Sid
  BY VictimTyped DEF KillStep, Claim, Kill, Confirm, CleanGet, CleanPut, DeletePorts, KillAt, KillSteps
<1>2. /\ \A s \in Sid : row'[s] # row[s] => /\ s = Victim(k) /\ row'[s] \in {"cleaning", "cleaned"}
                                            /\ row'[s] = "cleaned" => e2b'[s] = "dead"
      /\ stale' \subseteq stale
  BY <1>1 DEF KillStep, Claim, Kill, Confirm, CleanGet, CleanPut, DeletePorts, KillAt,
              WriteRow, RowsTyped, Known, KillsDead, dbVars
<1>3. ASSUME NEW step \in KillSteps, Go(k, step)
      PROVE  kill'[k] = step /\ Victim(k)' = Victim(k)
  BY <1>3 DEF Go, Victim, KillsTyped
<1>4. Return(k) \/ Raise(k) => kill'[k] \notin KillSteps
  BY DEF Return, Raise, Go, KillsTyped, KillSteps
<1>5. CASE Claim(k)
  <2>1. CASE Go(k, "kill") /\ WriteRow(Victim(k), "cleaning")
    BY <1>1, <1>2, <1>3, <2>1 DEF WriteRow, RowsTyped, KillSteps
  <2>2. CASE Return(k) /\ row' = row /\ row[Victim(k)] \notin Claimable
    BY <1>1, <1>2, <1>4, <2>2
  <2> QED BY <1>5, <2>1, <2>2 DEF Claim
<1>6. CASE CleanPut(k)
  <2>1. kill[k] = "cleanPut"
    BY <1>6 DEF CleanPut, KillAt
  <2>2. k \in KillTask \ Janitor => Go(k, "ports")
    BY <1>6 DEF CleanPut, Forced
  <2>3. Return(k) \/ Go(k, "ports")
    BY <1>6 DEF CleanPut
  <2> QED BY <1>1, <1>2, <1>3, <1>4, <2>1, <2>2, <2>3 DEF KillSteps
<1>7. CASE Kill(k) \/ Confirm(k) \/ CleanGet(k) \/ DeletePorts(k)
  <2>1. kill[k] # "claim" /\ row' = row
    BY <1>7 DEF Kill, Confirm, CleanGet, DeletePorts, KillAt, dbVars
  <2>2. Return(k) \/ Raise(k) \/ \E step \in KillSteps \ {"claim"} : Go(k, step)
    BY <1>7 DEF Kill, Confirm, CleanGet, DeletePorts, KillSteps
  <2> QED BY <1>1, <1>2, <1>3, <1>4, <2>1, <2>2
<1> QED BY <1>5, <1>6, <1>7 DEF KillStep

LEMMA KillerOwned ==
  ASSUME KillsTyped, Owned, NEW k \in Killer, KillStep(k), calls' = calls
  PROVE  Owned'
<1>1. OwnKill(k)
  BY KillerTyped
<1>2. Downs'
  BY <1>1 DEF OwnKill, Owned, Downs, Calling, NoSweep, KillsTyped, Sweeps
<1> QED BY <1>1, <1>2 DEF OwnKill, Owned, Separate, Hands, EndedLoops, Listed, Holding, InBlock, Blocks,
                          Calling

LEMMA KillerEngaged ==
  ASSUME RowsTyped, TasksTyped, KillsTyped, Known, Engaged, NEW k \in Killer, KillStep(k)
  PROVE  Engaged'
<1>1. OwnKill(k) /\ Ages
  BY KillerTyped, KillerAges
<1>2. /\ kill[k] \in KillSteps /\ Victim(k) \in Sid
      /\ \A s \in Sid : row'[s] # row[s] => /\ s = Victim(k) /\ row'[s] \in {"cleaning", "cleaned"}
                                            /\ row'[s] = "cleaned" => e2b'[s] = "dead"
  BY KillerMoves
<1>4. HeldBooked'
  <2>1. \A o \in Owner : task[o].handles \subseteq Sid /\ task[o].cur \in Sid \cup {NoSid}
    BY DEF TasksTyped, Tasks, MaybeSid
  <2> QED BY <1>1, <1>2, <2>1 DEF OwnKill, Engaged, HeldBooked
<1>3. \A o \in Owner : task[o].at = "ending" =>
        /\ task[o].cur \in Sid
        /\ <<ProcOf[o], task[o].cur>> \in KillTask \ Janitor /\ <<ProcOf[o], task[o].cur>> \in Killer
        /\ Victim(<<ProcOf[o], task[o].cur>>) = task[o].cur
  BY Fixed, TasksDiffer DEF TasksDiffer, TasksTyped, KillTask, Killer, Victim
<1>5. KillsBooked'
  <2> SUFFICES ASSUME NEW i \in KillTask, kill'[i] \in KillSteps
               PROVE  row'[i[2]] # "none"
    BY DEF KillsBooked
  <2>1. i[2] \in Sid /\ i \in Killer
    BY DEF KillTask, Killer
  <2>2. kill[i] \in KillSteps
    BY <1>1, <1>2, <2>1 DEF OwnKill
  <2> QED BY <1>2, <2>1, <2>2 DEF Engaged, KillsBooked
<1>7. EndingClaimed'
  <2> SUFFICES ASSUME NEW o \in Owner, task[o].at = "ending",
                      kill'[<<ProcOf[o], task[o].cur>>] \in KillSteps \ {"claim"}
               PROVE  row'[task[o].cur] \in {"cleaning", "cleaned"}
    BY <1>1 DEF OwnKill, EndingClaimed
  <2> DEFINE s == task[o].cur
             i == <<ProcOf[o], s>>
  <2>1. row'[s] # row[s] => row'[s] \in {"cleaning", "cleaned"}
    BY <1>2, <1>3
  <2>2. CASE i # k
    BY <1>1, <1>3, <2>1, <2>2 DEF OwnKill, Engaged, EndingClaimed
  <2>3. CASE i = k /\ kill[k] = "claim"
    BY <1>3, <2>3, KillerMoves
  <2>4. CASE i = k /\ kill[k] # "claim"
    BY <1>2, <2>1, <2>4 DEF Engaged, EndingClaimed
  <2> QED BY <2>2, <2>3, <2>4
<1>6. EndingKilled'
  <2> SUFFICES ASSUME NEW o \in Owner, task'[o].at = "ending"
               PROVE  \/ e2b'[task'[o].cur] = "dead" \/ row'[task'[o].cur] = "cleaning"
                      \/ kill'[<<ProcOf[o], task'[o].cur>>] \in KillSteps
    BY DEF EndingKilled
  <2> DEFINE s == task[o].cur
             i == <<ProcOf[o], s>>
  <2>1. task' = task /\ s \in Sid /\ i \in KillTask /\ i \in Killer /\ task[o].at = "ending"
    BY <1>1, Fixed DEF OwnKill, TasksTyped, KillTask, Killer
  <2>2. CASE e2b[s] = "dead"
    BY <1>1, <2>1, <2>2 DEF Ages
  <2>3. CASE row[s] = "cleaning"
    BY <1>2, <2>1, <2>3
  <2>4. CASE kill[i] \in KillSteps /\ kill'[i] \notin KillSteps
    <3>1. i = k
      BY <1>1, <2>1, <2>4 DEF OwnKill
    <3>2. k \in KillTask \ Janitor /\ Victim(k) = s
      BY <2>1, <3>1, TasksDiffer DEF TasksDiffer, KillTask, Victim
    <3>3. row' = row /\ (kill[k] = "claim" => row[s] \notin Claimable)
      BY <2>4, <3>1, <3>2, KillerMoves
    <3>4. row[s] # "none" /\ (kill[k] # "claim" => row[s] \in {"cleaning", "cleaned"})
      BY <2>1, <2>4, <3>1 DEF Engaged, KillsBooked, EndingClaimed
    <3>5. row[s] \in {"cleaning", "cleaned"}
      BY <2>1, <3>3, <3>4 DEF RowsTyped, Claimable
    <3> QED BY <1>1, <2>1, <3>3, <3>5 DEF Known, RowsKnown, Ages
  <2> QED BY <2>1, <2>2, <2>3, <2>4 DEF Engaged, EndingKilled
<1> QED BY <1>4, <1>5, <1>6, <1>7 DEF Engaged

LEMMA KillerUntouched ==
  ASSUME RowsTyped, TasksTyped, KillsTyped, Known, Untouched, NEW k \in Killer, KillStep(k),
         calls' = calls
  PROVE  Untouched'
<1>1. OwnKill(k)
  BY KillerTyped
<1>2. /\ kill[k] \in KillSteps
      /\ \A s \in Sid : row'[s] # row[s] => s = Victim(k)
      /\ stale' \subseteq stale
      /\ kill'[k] \in KillSteps => Victim(k)' = Victim(k)
  BY KillerMoves
<1>3. /\ \A j \in Janitor : sweep'[j].todo \subseteq sweep[j].todo
      /\ \A i \in Killer : kill'[i] \in KillSteps => kill[i] \in KillSteps /\ Victim(i)' = Victim(i)
  <2>1. \A j \in Janitor : sweep'[j].todo \subseteq sweep[j].todo
    BY <1>1 DEF OwnKill, NoSweep, KillsTyped, Sweeps
  <2>2. \A i \in Killer \ {k} : kill'[i] = kill[i] /\ Victim(i)' = Victim(i)
    BY <1>1 DEF OwnKill, Victim
  <2> QED BY <1>2, <2>1, <2>2
<1>4. \A o \in Owner : Unlisted(o) => Unlisted(o)' /\ Victim(k) # task[o].cur
  BY <1>1, <1>2, <1>3 DEF OwnKill, Unlisted
<1>5. \A o \in Owner : (task[o].at = "created" \/ InBlock(o)) => task[o].cur \in Sid
  BY DEF InBlock, TasksTyped, Tasks, MaybeSid
<1>6. task' = task /\ proc' = proc /\ \A o \in Owner : InBlock(o)' <=> InBlock(o)
  BY <1>1 DEF OwnKill, InBlock
<1> QED BY <1>2, <1>4, <1>5, <1>6 DEF Untouched, Calling

LEMMA SweepOwned ==
  ASSUME RowsTyped, ProcsTyped, KillsTyped, Owned, NEW j \in Janitor, SweepStep(j), calls' = calls
  PROVE  Owned'
<1>1. /\ OwnSweep(j) /\ task' = task
      /\ \A p \in Process : proc'[p].loop = proc[p].loop
  BY SweepTyped, SweepProcsTyped DEF OwnSweep
<1>2. j \in DOMAIN calls
  BY AsyncAssumption DEF AsyncAssumption, RowsTyped
<1>3. Downs'
  <2>1. ASSUME NEW loop, Begin(j, loop)
        PROVE  sweep'[j].job = loop
    BY <2>1 DEF Begin, KillsTyped, NoSweep
  <2> DEFINE Down(job) == job \in {"downBeats", "downInflight"}
  <2>2. ASSUME NextLoop(j)
        PROVE  Down(sweep'[j].job) => Down(sweep[j].job)
    <3>1. sweep[j].job \in DOMAIN Following
      BY <2>2 DEF NextLoop, Sweeping, KillsTyped, Sweeps
    <3>2. Down(Following[sweep[j].job]) => Down(sweep[j].job)
      BY <3>1 DEF Following
    <3> QED BY <2>2, <3>2 DEF NextLoop, KillsTyped, NoSweep, Sweeps
  <2>3. Down(sweep'[j].job) => Down(sweep[j].job) \/ Calling("shutdown")
    <3>1. CASE ReapBegin(j) \/ ReconcileBegin(j)
      BY <2>1, <3>1 DEF ReapBegin, ReconcileBegin
    <3>2. CASE ShutdownBegin(j)
      BY <1>2, <3>2 DEF ShutdownBegin, Calling
    <3>3. CASE CancelSweep(j)
      BY <3>3 DEF CancelSweep, KillsTyped, NoSweep
    <3>4. ASSUME NEW s \in Sid, Visit(j, s)
          PROVE  sweep'[j].job = sweep[j].job
      <4> DEFINE r == [sweep[j] EXCEPT !.todo = @ \ {s}, !.target = s, !.done = @ \cup {s}]
      <4>1. sweep' = [sweep EXCEPT ![j] = r]
        BY <3>4 DEF Visit
      <4>2. r.job = sweep[j].job
        OBVIOUS
      <4> HIDE DEF r
      <4> QED BY <4>1, <4>2 DEF KillsTyped
    <3> QED BY <2>2, <3>1, <3>2, <3>3, <3>4 DEF SweepStep
  <2> QED BY <1>1, <2>3 DEF OwnSweep, Owned, Downs, Calling
<1>4. Listed'
  <2>1. ~ Calling("shutdown") => \A p \in Process : proc'[p].inflight = proc[p].inflight
    <3>1. CASE ShutdownBegin(j)
      BY <1>2, <3>1 DEF ShutdownBegin, Calling
    <3>2. CASE NextLoop(j)
      BY <3>2 DEF NextLoop, Owned, Downs
    <3>3. CASE proc' = proc
      BY <3>3
    <3> QED BY <3>1, <3>2, <3>3 DEF SweepStep, ReapBegin, ReconcileBegin, CancelSweep, Visit
  <2> QED BY <1>1, <2>1, Fixed DEF Owned, Listed, Holding, InBlock, Calling
<1>5. EndedLoops'
  BY <1>1, Fixed DEF Owned, EndedLoops
<1> QED BY <1>1, <1>3, <1>4, <1>5 DEF Owned, Separate, Hands, Blocks

LEMMA SweepEngaged ==
  ASSUME RowsTyped, ProcsTyped, KillsTyped, Engaged, TasksTyped, NEW j \in Janitor, SweepStep(j)
  PROVE  Engaged'
<1>1. OwnSweep(j)
  BY SweepTyped
<1>2. \A k \in KillTask : kill'[k] = kill[k]
  BY <1>1, TasksDiffer DEF OwnSweep, TasksDiffer, KillTask, Killer
<1>3. task' = task /\ e2b' = e2b /\ row' = row
  BY <1>1 DEF OwnSweep, dbVars
<1>4. HeldBooked'
  BY <1>3 DEF Engaged, HeldBooked
<1>5. KillsBooked'
  BY <1>2, <1>3 DEF Engaged, KillsBooked
<1>6. EndingClaimed' /\ EndingKilled'
  <2>1. \A o \in Owner : task[o].at = "ending" => <<ProcOf[o], task[o].cur>> \in KillTask
    BY Fixed DEF TasksTyped, KillTask
  <2> QED BY <1>2, <1>3, <2>1 DEF Engaged, EndingClaimed, EndingKilled
<1> QED BY <1>4, <1>5, <1>6 DEF Engaged

LEMMA SweepUntouched ==
  ASSUME RowsTyped, TasksTyped, ProcsTyped, KillsTyped, Owned, Untouched,
         NEW j \in Janitor, SweepStep(j), calls' = calls
  PROVE  Untouched'
<1> SUFFICES ASSUME ~ Calling("purge"), ~ Calling("shutdown"), NEW o \in Owner,
                    task[o].at = "created" \/ InBlock(o)
             PROVE  /\ Unlisted(o)'
                    /\ task[o].cur \in proc[ProcOf[o]].beats => task[o].cur \in proc'[ProcOf[o]].beats
  BY SweepTyped DEF OwnSweep, Untouched, Calling, InBlock, dbVars
<1> DEFINE s == task[o].cur
<1>1. OwnSweep(j) /\ j \in DOMAIN calls /\ NoSid \notin Sid /\ s \in Sid
  BY SweepTyped, AsyncAssumption DEF AsyncAssumption, RowsTyped, InBlock, TasksTyped, Tasks, MaybeSid
<1>2. Unlisted(o) /\ row[s] \in {"none", "running"} /\ s \notin stale
  BY DEF Untouched
<1>3. ~ ShutdownBegin(j) /\ sweep[j].job \notin {"downBeats", "downInflight"}
  BY <1>1 DEF ShutdownBegin, Calling, Owned, Downs
<1>4. ASSUME NEW loop, loop # "downInflight"
      PROVE  s \notin List(j, loop)
  BY <1>1, <1>2, <1>4 DEF List, RowsIn, Calling
<1>5. ASSUME NEW loop \in {"reapCleaning", "recStale"}, Begin(j, loop)
      PROVE  s \notin sweep'[j].todo /\ kill'[j] = kill[j] /\ sweep'[j].target = sweep[j].target
  <2> DEFINE r == [NoSweep EXCEPT !.job = loop, !.todo = List(j, loop),
                                  !.tracked = Sid \ RowsIn("none")]
  <2>1. sweep' = [sweep EXCEPT ![j] = r] /\ kill' = kill /\ sweep[j] = NoSweep
    BY <1>5 DEF Begin
  <2>2. r.todo = List(j, loop) /\ r.target = NoSid /\ NoSweep.target = NoSid
    BY DEF NoSweep
  <2> HIDE DEF r
  <2> QED BY <1>4, <2>1, <2>2 DEF KillsTyped
<1>6. s \notin sweep'[j].todo /\ (kill'[j] \in KillSteps => sweep'[j].target # s)
  <2>0. s \notin sweep[j].todo /\ (kill[j] \in KillSteps => sweep[j].target # s)
    BY <1>2 DEF Unlisted, Killer, Victim
  <2>1. CASE ReapBegin(j) \/ ReconcileBegin(j)
    BY <1>5, <2>0, <2>1 DEF ReapBegin, ReconcileBegin
  <2>2. ASSUME NEW t \in Sid, Visit(j, t)
        PROVE  s \notin sweep'[j].todo /\ sweep'[j].target # s
    <3> DEFINE r == [sweep[j] EXCEPT !.todo = @ \ {t}, !.target = t, !.done = @ \cup {t}]
    <3>1. sweep' = [sweep EXCEPT ![j] = r] /\ t # s
      BY <2>0, <2>2 DEF Visit
    <3>2. r.target = t /\ r.todo \subseteq sweep[j].todo
      BY DEF KillsTyped, Sweeps
    <3> HIDE DEF r
    <3> QED BY <2>0, <3>1, <3>2 DEF KillsTyped
  <2>3. CASE NextLoop(j)
    <3> DEFINE next == Following[sweep[j].job]
               r == IF next = "none" THEN NoSweep
                    ELSE [sweep[j] EXCEPT !.job = next, !.todo = List(j, next)]
    <3>1. sweep' = [sweep EXCEPT ![j] = r] /\ kill'[j] = "none"
      BY <2>3 DEF NextLoop, Sweeping
    <3>2. sweep[j].job \in DOMAIN Following
      BY <2>3 DEF NextLoop, Sweeping, KillsTyped, Sweeps
    <3>3. next # "downInflight"
      BY <1>3, <3>2 DEF Following
    <3>4. s \notin r.todo
      BY <1>4, <3>3 DEF KillsTyped, Sweeps, NoSweep
    <3> HIDE DEF r
    <3> QED BY <3>1, <3>4 DEF KillsTyped, KillSteps
  <2>4. CASE CancelSweep(j)
    BY <2>4 DEF CancelSweep, KillsTyped, NoSweep, KillSteps, Killer
  <2> QED BY <1>3, <2>1, <2>2, <2>3, <2>4 DEF SweepStep
<1>7. \A p \in Process : proc'[p].inflight \subseteq proc[p].inflight /\ proc'[p].beats = proc[p].beats
                         /\ proc'[p].marks = proc[p].marks /\ proc'[p].mark = proc[p].mark
  <2>1. proc' = proc
    BY <1>3 DEF SweepStep, ReapBegin, ReconcileBegin, CancelSweep, Visit, NextLoop
  <2> QED BY <2>1
<1>8. Unlisted(o)'
  <2>1. \A k \in Killer \ {j} : kill'[k] = kill[k] /\ Victim(k)' = Victim(k)
    BY <1>1 DEF OwnSweep, Victim
  <2>2. task'[o].cur = s
    BY <1>1 DEF OwnSweep
  <2>3. \A k \in Killer : kill'[k] \in KillSteps => Victim(k)' # s
    BY <1>2, <1>6, <2>1 DEF Unlisted, Victim
  <2>4. \A i \in Janitor : s \notin sweep'[i].todo
    BY <1>1, <1>2, <1>6 DEF OwnSweep, Unlisted
  <2>5. \A p \in Process : /\ s \notin proc'[p].marks \cup {proc'[p].mark}
                           /\ p # ProcOf[o] => s \notin proc'[p].inflight
    BY <1>2, <1>7 DEF Unlisted
  <2> QED BY <2>2, <2>3, <2>4, <2>5 DEF Unlisted
<1> QED BY <1>7, <1>8, Fixed

\* What the end of a process, or its next start, leaves: of its own tasks only
\* those that come out of a block, each with a fresh kill.
LEMMA ExitMoves ==
  ASSUME RowsTyped, TasksTyped, ProcsTyped, KillsTyped, Owned, NEW p \in Process,
         LoopEnd(p) \/ ExitStep(p) \/ Crash(p) \/ Restart(p)
  PROVE  /\ e2b' = e2b
         /\ \A s \in Sid : row'[s] # row[s] => s = proc[p].mark /\ row'[s] = "cleaning"
         /\ stale' \subseteq stale
         /\ \A o \in Owner \ Owners(p) : task'[o] = task[o]
         /\ \A o \in Owners(p) :
              /\ task'[o].handles = {} /\ task'[o].at \in {"idle", "ending"}
              /\ task'[o].cur \in {task[o].cur, NoSid} /\ task'[o].target \in {task[o].target, NoSid}
              /\ task'[o].at = "idle" => task'[o].cur = NoSid
              /\ task'[o].at = "ending" => /\ task'[o].cur = task[o].cur
                                           /\ task'[o] = task[o] \/ InBlock(o)
         /\ \A k \in Killer :
              \/ kill'[k] = kill[k] /\ Victim(k)' = Victim(k)
              \/ kill'[k] = "none" /\ k \in KillersOf(p)
                   /\ \A o \in Owners(p) : task'[o].at = "ending" => k # <<p, task'[o].cur>>
              \/ kill'[k] = "claim" /\ \E o \in Owners(p) : InBlock(o) /\ k = <<p, task[o].cur>>
         /\ \A o \in Owners(p) : task'[o] # task[o] /\ task'[o].at = "ending" =>
              kill'[<<p, task'[o].cur>>] = "claim"
<1>1. /\ e2b' = e2b /\ stale' \subseteq stale
      /\ \A s \in Sid : row'[s] # row[s] => s = proc[p].mark /\ row'[s] = "cleaning"
  BY DEF LoopEnd, ExitStep, Atexit, MarkRead, MarkWrite, Exited, MarkLook, Crash, Restart, dbVars,
         WriteRow, RowsTyped
<1>2. \A o \in Owner \ Owners(p) : task'[o] = task[o]
  BY ExitTyped
<1>3. \A o \in Owners(p) : o \in Owner /\ ProcOf[o] = p
  BY DEF Owners
<1>4. CASE LoopEnd(p)
  <2> DEFINE blocks == {o \in Owners(p) : /\ task[o].cur # NoSid
                                          /\ task[o].at \notin {"created", "ending"}}
             fresh == {<<p, task[o].cur>> : o \in blocks}
  <2>1. \A o \in blocks : InBlock(o) /\ task[o].cur \in Sid /\ o \in Owners(p) /\ o \in Owner
    BY <1>3 DEF InBlock, Owned, Blocks, TasksTyped, Tasks, Steps, MaybeSid
  <2>2. task' = [o \in Owner |-> IF o \in blocks
                   THEN [NewTask EXCEPT !.at = "ending", !.cur = task[o].cur]
                   ELSE IF o \in Owners(p) THEN NewTask ELSE task[o]]
    BY <1>4 DEF LoopEnd
  <2>3. /\ kill' = [k \in Killer |-> IF k \in fresh THEN "claim"
                                     ELSE IF k \in KillersOf(p) THEN "none" ELSE kill[k]]
        /\ StopSweeps(p)
    BY <1>4 DEF LoopEnd
  <2>4. /\ \A o \in blocks : <<p, task[o].cur>> \in fresh /\ <<p, task[o].cur>> \in Killer
        /\ \A k \in fresh : \E o \in blocks : k = <<p, task[o].cur>>
    BY <2>1 DEF Killer, KillTask
  <2>5. \A k \in Killer \ KillersOf(p) : Victim(k)' = Victim(k)
    BY <2>3 DEF StopSweeps, KillersOf, Victim
  <2> HIDE DEF blocks, fresh
  <2>6. \A o \in Owners(p) :
          \/ /\ o \in blocks /\ task'[o].at = "ending" /\ task'[o].cur = task[o].cur
             /\ task'[o].handles = {} /\ task'[o].target = NoSid
          \/ /\ o \notin blocks /\ task'[o].at = "idle" /\ task'[o].cur = NoSid
             /\ task'[o].handles = {} /\ task'[o].target = NoSid
    BY <1>3, <2>2 DEF NewTask
  <2>7. \A k \in Killer :
          \/ kill'[k] = kill[k] /\ Victim(k)' = Victim(k)
          \/ kill'[k] = "none" /\ k \in KillersOf(p)
               /\ \A o \in Owners(p) : task'[o].at = "ending" => k # <<p, task'[o].cur>>
          \/ kill'[k] = "claim" /\ \E o \in Owners(p) : InBlock(o) /\ k = <<p, task[o].cur>>
    BY <2>1, <2>3, <2>4, <2>5, <2>6
  <2>8. \A o \in Owners(p) : task'[o].at = "ending" => kill'[<<p, task'[o].cur>>] = "claim"
    BY <2>3, <2>4, <2>6
  <2> QED BY <1>1, <1>2, <2>1, <2>6, <2>7, <2>8
<1>5. CASE Crash(p)
  <2>1. \A o \in Owners(p) : /\ task'[o].at = "idle" /\ task'[o].cur = NoSid
                             /\ task'[o].handles = {} /\ task'[o].target = NoSid
    BY <1>3, <1>5 DEF Crash, NewTask
  <2>2. \A k \in Killer : \/ kill'[k] = kill[k] /\ Victim(k)' = Victim(k)
                          \/ kill'[k] = "none" /\ k \in KillersOf(p)
    BY <1>5 DEF Crash, StopSweeps, KillersOf, Victim
  <2> QED BY <1>1, <1>2, <2>1, <2>2
<1>6. CASE ExitStep(p) \/ Restart(p)
  <2>1. task' = task /\ sweep' = sweep /\ proc[p].loop # "running"
    BY <1>6 DEF ExitStep, Atexit, MarkRead, MarkWrite, Exited, MarkLook, Restart
  <2>2. \A o \in Owners(p) : /\ task[o].handles = {} /\ task[o].at \in {"idle", "ending"}
                             /\ task[o].at = "idle" => task[o].cur = NoSid
    BY <1>3, <2>1 DEF Owned, EndedLoops, Blocks
  <2>3. \A k \in Killer : \/ kill'[k] = kill[k] /\ Victim(k)' = Victim(k)
                          \/ /\ kill'[k] = "none" /\ k \in KillersOf(p)
                             /\ \A o \in Owners(p) : task'[o].at = "idle"
    <3>1. CASE Atexit(p)
      BY <3>1 DEF Atexit, Victim
    <3>2. CASE kill' = kill
      BY <2>1, <3>2 DEF Victim
    <3> QED BY <1>6, <3>1, <3>2 DEF ExitStep, MarkRead, MarkWrite, Exited, MarkLook, Restart
  <2> QED BY <1>1, <1>2, <2>1, <2>2, <2>3
<1> QED BY <1>4, <1>5, <1>6

LEMMA ExitOwned ==
  ASSUME RowsTyped, TasksTyped, ProcsTyped, KillsTyped, Owned, NEW p \in Process,
         LoopEnd(p) \/ ExitStep(p) \/ Crash(p) \/ Restart(p), calls' = calls
  PROVE  Owned'
<1>1. /\ \A o \in Owner \ Owners(p) : task'[o] = task[o]
      /\ \A o \in Owners(p) :
           /\ task'[o].handles = {} /\ task'[o].at \in {"idle", "ending"}
           /\ task'[o].cur \in {task[o].cur, NoSid} /\ task'[o].target \in {task[o].target, NoSid}
           /\ task'[o].at = "idle" => task'[o].cur = NoSid
  BY ExitMoves
<1>2. \A o \in Owner : o \notin Owners(p) => ProcOf[o] \in Process \ {p}
  BY Fixed DEF Owners
<1>3. \A q \in Process \ {p} : proc'[q] = proc[q]
  BY ExitProcsTyped
<1>4. Separate'
  <2>1. \A o \in Owner : Hands(o)' \subseteq Hands(o)
    BY <1>1 DEF Hands
  <2>2. \A o \in Owner : /\ task'[o].cur \notin task'[o].handles
                         /\ task'[o].target \notin task'[o].handles
                         /\ task'[o].target # NoSid => task'[o].target # task'[o].cur
    BY <1>1 DEF Owned, Separate
  <2> QED BY <2>1, <2>2 DEF Owned, Separate
<1>5. EndedLoops'
  BY <1>1, <1>2, <1>3 DEF Owned, EndedLoops
<1>6. Downs'
  BY ExitTyped DEF Owned, Downs, Calling, NoSweep
<1>7. Listed'
  <2>1. \A o \in Owners(p) : Holding(o)' = {}
    BY <1>1 DEF Holding, InBlock, CallSteps
  <2>2. \A o \in Owner \ Owners(p) : Holding(o)' = Holding(o)
    BY <1>1 DEF Holding, InBlock
  <2> QED BY <1>2, <1>3, <2>1, <2>2 DEF Owned, Listed, Calling
<1>8. Blocks'
  BY <1>1 DEF Owned, Blocks
<1> QED BY <1>4, <1>5, <1>6, <1>7, <1>8 DEF Owned

LEMMA ExitEngaged ==
  ASSUME RowsTyped, TasksTyped, ProcsTyped, KillsTyped, Owned, Engaged, NEW p \in Process,
         LoopEnd(p) \/ ExitStep(p) \/ Crash(p) \/ Restart(p)
  PROVE  Engaged'
<1>1. /\ e2b' = e2b
      /\ \A s \in Sid : row'[s] # row[s] => row'[s] = "cleaning"
      /\ \A o \in Owner \ Owners(p) : task'[o] = task[o]
      /\ \A o \in Owners(p) :
           /\ task'[o].handles = {} /\ task'[o].at \in {"idle", "ending"}
           /\ task'[o].at = "ending" => /\ task'[o].cur = task[o].cur
                                        /\ task'[o] = task[o] \/ InBlock(o)
  BY ExitMoves
<1>2. \A k \in Killer :
        \/ kill'[k] = kill[k]
        \/ kill'[k] = "none" /\ k \in KillersOf(p)
             /\ \A o \in Owners(p) : task'[o].at = "ending" => k # <<p, task'[o].cur>>
        \/ kill'[k] = "claim" /\ \E o \in Owners(p) : InBlock(o) /\ k = <<p, task[o].cur>>
  BY ExitMoves
<1>3. \A o \in Owner : /\ task[o].handles \subseteq Sid /\ task[o].cur \in Sid \cup {NoSid}
                       /\ task[o].at = "ending" => task[o].cur \in Sid
                       /\ o \in Owners(p) <=> ProcOf[o] = p
  BY DEF TasksTyped, Tasks, MaybeSid, Owners
<1>4. NoSid \notin Sid /\ \A o \in Owners(p) : o \in Owner
  BY AsyncAssumption DEF AsyncAssumption, Owners
<1>5. HeldBooked'
  <2>1. \A o \in Owners(p) : task'[o].at = "ending" /\ task'[o].cur # NoSid =>
                               task[o].at \notin {"idle", "created"} /\ task[o].cur # NoSid
    BY <1>1 DEF InBlock, CallSteps
  <2> QED BY <1>1, <1>3, <1>4, <2>1 DEF Engaged, HeldBooked
<1>6. KillsBooked'
  <2> SUFFICES ASSUME NEW k \in KillTask, kill'[k] \in KillSteps
               PROVE  row'[k[2]] # "none"
    BY DEF KillsBooked
  <2>0. k[2] \in Sid /\ k \in Killer
    BY DEF KillTask, Killer
  <2>1. CASE kill'[k] = kill[k]
    BY <1>1, <2>0, <2>1 DEF Engaged, KillsBooked
  <2>2. CASE kill'[k] = "claim" /\ \E o \in Owners(p) : InBlock(o) /\ k = <<p, task[o].cur>>
    <3>1. PICK o \in Owners(p) : InBlock(o) /\ k[2] = task[o].cur
      BY <2>2
    <3>2. row[k[2]] # "none"
      BY <1>4, <3>1 DEF Engaged, HeldBooked, InBlock, CallSteps
    <3> QED BY <1>1, <2>0, <3>2
  <2> QED BY <1>2, <2>0, <2>1, <2>2 DEF KillSteps
<1>8. EndingClaimed'
  <2> SUFFICES ASSUME NEW o \in Owner, task'[o].at = "ending",
                      kill'[<<ProcOf[o], task'[o].cur>>] \in KillSteps \ {"claim"}
               PROVE  row'[task'[o].cur] \in {"cleaning", "cleaned"}
    BY DEF EndingClaimed
  <2> DEFINE k == <<ProcOf[o], task'[o].cur>>
  <2>1. task'[o].cur = task[o].cur /\ (task[o].at = "ending" \/ InBlock(o))
    BY <1>1, <1>3
  <2>2. task[o].cur \in Sid /\ k \in Killer
    BY <1>3, <1>4, <2>1, Fixed DEF InBlock, Killer, KillTask
  <2>3. kill'[k] = kill[k]
    BY <1>2, <2>2 DEF KillSteps
  <2>4. CASE task[o].at = "ending"
    BY <1>1, <2>1, <2>2, <2>3, <2>4 DEF Engaged, EndingClaimed
  <2>5. CASE task[o].at # "ending"
    <3>1. o \in Owners(p) /\ task'[o] # task[o]
      BY <1>1, <2>5
    <3> QED BY <1>3, <2>1, <2>3, <3>1, ExitMoves
  <2> QED BY <2>4, <2>5
<1>7. EndingKilled'
  <2> SUFFICES ASSUME NEW o \in Owner, task'[o].at = "ending"
               PROVE  \/ e2b'[task'[o].cur] = "dead" \/ row'[task'[o].cur] = "cleaning"
                      \/ kill'[<<ProcOf[o], task'[o].cur>>] \in KillSteps
    BY DEF EndingKilled
  <2>1. CASE task'[o] # task[o]
    BY <1>1, <1>3, <2>1, ExitMoves DEF KillSteps
  <2>2. CASE task'[o] = task[o]
    <3> DEFINE k == <<ProcOf[o], task[o].cur>>
    <3>1. task[o].cur \in Sid /\ k \in Killer
      BY <1>3, <2>2, Fixed DEF Killer, KillTask
    <3>2. k \in KillersOf(p) => o \in Owners(p)
      BY <3>1, Fixed, TasksDiffer DEF KillersOf, Owners, TasksDiffer
    <3>3. kill[k] \in KillSteps => kill'[k] \in KillSteps
      BY <1>2, <1>3, <2>2, <3>1, <3>2 DEF KillSteps
    <3> QED BY <1>1, <2>2, <3>1, <3>3 DEF Engaged, EndingKilled
  <2> QED BY <2>1, <2>2
<1> QED BY <1>5, <1>6, <1>7, <1>8 DEF Engaged

LEMMA ExitUntouched ==
  ASSUME RowsTyped, TasksTyped, ProcsTyped, KillsTyped, Owned, Untouched, NEW p \in Process,
         LoopEnd(p) \/ ExitStep(p) \/ Crash(p) \/ Restart(p), calls' = calls
  PROVE  Untouched'
<1> SUFFICES ASSUME ~ Calling("purge"), ~ Calling("shutdown"), NEW o \in Owner,
                    task'[o].at = "created" \/ InBlock(o)'
             PROVE  /\ Unlisted(o)'
                    /\ task'[o].at = "created" => row'[task'[o].cur] = "none"
                    /\ InBlock(o)' => /\ row'[task'[o].cur] = "running"
                                      /\ task'[o].cur \in proc'[ProcOf[o]].beats
                    /\ task'[o].cur \notin stale'
  BY DEF Untouched, Calling
<1> DEFINE s == task[o].cur
<1>1. o \notin Owners(p)
  BY ExitMoves DEF InBlock, CallSteps
<1>2. /\ task'[o] = task[o] /\ InBlock(o)' = InBlock(o)
      /\ ProcOf[o] \in Process \ {p} /\ proc'[ProcOf[o]] = proc[ProcOf[o]]
  BY <1>1, ExitMoves, ExitProcsTyped, Fixed DEF Owners, InBlock
<1>3. s \in Sid /\ NoSid \notin Sid /\ s \in Hands(o)
  BY <1>2, AsyncAssumption DEF AsyncAssumption, InBlock, TasksTyped, Tasks, MaybeSid, Hands
<1>4. Unlisted(o) /\ s \notin stale
  BY <1>2 DEF Untouched
<1>5. row'[s] = row[s] /\ s \notin stale'
  BY <1>3, <1>4, ExitMoves DEF Unlisted
<1>6. Unlisted(o)'
  <2>1. \A j \in Janitor : s \notin sweep'[j].todo
    BY <1>4, ExitTyped DEF Unlisted, NoSweep
  <2>2. ASSUME NEW k \in Killer, kill'[k] \in KillSteps
        PROVE  Victim(k)' # s
    <3>1. CASE kill'[k] = kill[k] /\ Victim(k)' = Victim(k)
      BY <1>4, <2>2, <3>1 DEF Unlisted
    <3>2. ASSUME NEW v \in Owners(p), InBlock(v), k = <<p, task[v].cur>>
          PROVE  Victim(k)' # s
      <4>1. v \in Owner /\ v # o
        BY <1>1 DEF Owners
      <4>2. task[v].cur \in Sid /\ task[v].cur \in Hands(v)
        BY <1>3, <3>2, <4>1 DEF InBlock, TasksTyped, Tasks, MaybeSid, Hands
      <4>3. task[v].cur # s
        BY <1>3, <4>1, <4>2 DEF Owned, Separate
      <4>4. k \notin Janitor
        BY <3>2, <4>2, TasksDiffer DEF TasksDiffer
      <4> QED BY <3>2, <4>3, <4>4 DEF Victim
    <3> QED BY <2>2, <3>1, <3>2, ExitMoves DEF KillSteps
  <2>3. /\ proc'[p].inflight \subseteq proc[p].inflight
        /\ proc'[p].marks \subseteq proc[p].marks \cup proc[p].inflight
        /\ proc'[p].mark \in {proc[p].mark, NoSid} \cup proc[p].marks
    BY ExitLists
  <2>4. s \notin proc[p].inflight /\ s \notin proc[p].marks \cup {proc[p].mark}
    BY <1>2, <1>4 DEF Unlisted
  <2>5. \A q \in Process : /\ s \notin proc'[q].marks \cup {proc'[q].mark}
                           /\ q # ProcOf[o] => s \notin proc'[q].inflight
    <3> SUFFICES ASSUME NEW q \in Process
                 PROVE  /\ s \notin proc'[q].marks \cup {proc'[q].mark}
                        /\ q # ProcOf[o] => s \notin proc'[q].inflight
      OBVIOUS
    <3>1. CASE q = p
      BY <1>3, <2>3, <2>4, <3>1
    <3>2. CASE q # p
      BY <1>4, <3>2, ExitProcsTyped DEF Unlisted
    <3> QED BY <3>1, <3>2
  <2> QED BY <1>2, <2>1, <2>2, <2>5 DEF Unlisted
<1> QED BY <1>2, <1>4, <1>5, <1>6 DEF Untouched

Minded == Typed /\ Known /\ Owned /\ Engaged /\ Untouched

LEMMA NextMinds == Minded /\ [Next]_vars => Minded'
<1> SUFFICES ASSUME Minded, [Next]_vars
             PROVE  Owned' /\ Engaged' /\ Untouched'
  BY NextTyped, NextKnows DEF Minded
<1>0. RowsTyped /\ TasksTyped /\ ProcsTyped /\ KillsTyped /\ Known /\ Owned /\ Engaged /\ Untouched
  BY DEF Minded, Typed
<1>1. ASSUME NEW o \in Owner, OwnerStep(o) \/ CancelStep(o), calls' = calls
      PROVE  Owned' /\ Engaged' /\ Untouched'
  BY <1>0, <1>1, OwnerOwned, OwnerEngaged, OwnerUntouched
<1>2. ASSUME NEW k \in Killer, KillStep(k), calls' = calls
      PROVE  Owned' /\ Engaged' /\ Untouched'
  BY <1>0, <1>2, KillerOwned, KillerEngaged, KillerUntouched
<1>3. ASSUME NEW j \in Janitor, SweepStep(j), calls' = calls
      PROVE  Owned' /\ Engaged' /\ Untouched'
  BY <1>0, <1>3, SweepOwned, SweepEngaged, SweepUntouched
<1>4. ASSUME NEW p \in Process, LoopEnd(p) \/ ExitStep(p) \/ Crash(p) \/ Restart(p), calls' = calls
      PROVE  Owned' /\ Engaged' /\ Untouched'
  BY <1>0, <1>4, ExitOwned, ExitEngaged, ExitUntouched
<1>5. ASSUME NEW s \in Sid, Expire(s), calls' = calls
      PROVE  Owned' /\ Engaged' /\ Untouched'
  <2>1. UNCHANGED <<calls, e2b, row, ports, proc, task, sweep, kill, lost>> /\ stale' = stale \cup {s}
    BY <1>5 DEF Expire
  <2>2. Owned' /\ Engaged'
    BY <1>0, <2>1 DEF Owned, Separate, Hands, EndedLoops, Downs, Listed, Holding, InBlock, Blocks,
                      Calling, Engaged, HeldBooked, KillsBooked, EndingClaimed, EndingKilled
  <2>3. row[s] = "running" /\ \A p \in Process : s \notin proc[p].beats
    BY <1>5 DEF Expire, Beating
  <2>4. \A o \in Owner : Unlisted(o)' <=> Unlisted(o)
    BY <2>1 DEF Unlisted, Victim
  <2>5. Untouched'
    BY <1>0, <2>1, <2>3, <2>4, Fixed DEF Untouched, Calling, InBlock
  <2> QED BY <2>2, <2>5
<1>6. CASE UNCHANGED vars
  <2>1. UNCHANGED <<calls, e2b, row, stale, ports, proc, task, sweep, kill, lost>>
    BY <1>6 DEF vars, dbVars
  <2>2. Owned' /\ Engaged'
    BY <1>0, <2>1 DEF Owned, Separate, Hands, EndedLoops, Downs, Listed, Holding, InBlock, Blocks,
                      Calling, Engaged, HeldBooked, KillsBooked, EndingClaimed, EndingKilled
  <2>3. \A o \in Owner : Unlisted(o)' <=> Unlisted(o)
    BY <2>1 DEF Unlisted, Victim
  <2> QED BY <1>0, <2>1, <2>2, <2>3 DEF Untouched, Calling, InBlock
<1> QED BY <1>1, <1>2, <1>3, <1>4, <1>5, <1>6 DEF Next, Minded

LEMMA AlwaysMinded == Spec => []Minded
<1>1. Init => Minded
  BY InitTyped, InitKnown, InitOwned DEF Minded
<1> QED BY <1>1, NextMinds, PTL DEF Spec

\* Until a shutdown, _atexit_shutdown finds in _inflight every RUNNING sandbox
\* a task still has in a block or in a handle.
THEOREM HeldStaysInflight == Spec => []HeldIsInflight
<1>1. Minded => HeldIsInflight
  BY DEF Minded, Owned, Listed, Holding, HeldIsInflight
<1> QED BY <1>1, AlwaysMinded, PTL

\* Where nobody purges or shuts down, the sandbox of a block is RUNNING, and no
\* kill has it, until its owner leaves the block or is cancelled.
THEOREM BlocksAreLeftAlone == Spec => []HeldNeverKilled
<1>1. Minded => HeldNeverKilled
  BY DEF Minded, Untouched, Unlisted, HeldNeverKilled
<1> QED BY <1>1, AlwaysMinded, PTL

\* The owner of a block comes out of it when its sandbox is dead, or CLEANING,
\* or the kill it gave up waiting for still goes on.
THEOREM BlockEndsKill == Spec => BlockEndKills
<1> DEFINE Ends(o) ==
      /\ Awake(ProcOf[o]) /\ proc'[ProcOf[o]].loop = proc[ProcOf[o]].loop
      /\ task[o].at \notin {"idle", "created"} /\ task[o].cur # NoSid /\ task'[o].cur = NoSid
           Kills(s, o) == \/ e2b'[s] = "dead" \/ row'[s] = "cleaning"
                          \/ kill'[<<ProcOf[o], s>>] \in KillSteps
<1>1. ASSUME Minded, Next, NEW o \in Owner, Ends(o)
      PROVE  Kills(task[o].cur, o)
  <2>0. RowsTyped /\ TasksTyped /\ ProcsTyped /\ KillsTyped /\ EndingKilled
    BY <1>1 DEF Minded, Typed, Engaged
  <2>1. task'[o] # task[o]
    BY <1>1
  <2>2. ASSUME NEW v \in Owner, OwnerStep(v) \/ CancelStep(v)
        PROVE  BlockEnds(o)
    <3>1. v = o
      BY <2>0, <2>1, <2>2, OwnTask
    <3>2. CASE Record(o) \/ RecordFails(o) \/ CancelCreate(o)
      BY <1>1, <3>2 DEF Record, RecordFails, CancelCreate, At
    <3>3. CASE EnterBody(o) \/ Exit(o) \/ CancelBlock(o)
      <4>1. task'[o].cur = task[o].cur
        BY <2>0, <3>3 DEF EnterBody, Exit, CancelBlock, LeaveBlock, TasksTyped, Tasks
      <4> QED BY <1>1, <4>1
    <3>4. CASE Released(o) \/ CancelCall(o) \/ RecordHandle(o)
      BY <1>1, <2>0, <3>4, OwnRecord
    <3>5. ASSUME NEW s \in Sid, \/ Create(o, s) \/ AdoptCall(o, s) \/ Release(o, s)
                                \/ \E clone \in Sid : ForkCall(o, clone, s)
          PROVE  FALSE
      BY <1>1, <2>0, <3>5, OwnRecord, AsyncAssumption DEF AsyncAssumption
    <3>6. ASSUME NEW s \in Sid, Forward(o, s)
          PROVE  FALSE
      BY <2>1, <3>6 DEF Forward
    <3> QED BY <2>2, <3>1, <3>2, <3>3, <3>4, <3>5, <3>6 DEF OwnerStep, CancelStep
  <2>3. \A k \in Killer : ~ KillStep(k)
    BY <2>0, <2>1, KillerTyped DEF OwnKill
  <2>4. \A j \in Janitor : ~ SweepStep(j)
    BY <2>0, <2>1, SweepTyped DEF OwnSweep
  <2>5. ASSUME NEW p \in Process, LoopEnd(p) \/ ExitStep(p) \/ Crash(p) \/ Restart(p)
        PROVE  FALSE
    <3>1. ProcOf[o] = p
      BY <2>0, <2>1, <2>5, ExitTyped DEF Owners
    <3>2. CASE LoopEnd(p)
      BY <1>1, <2>0, <3>1, <3>2 DEF LoopEnd, ProcsTyped, Procs
    <3>3. CASE Crash(p)
      BY <1>1, <2>0, <3>1, <3>3 DEF Crash, ProcsTyped, Awake, NewProc
    <3> QED BY <2>1, <2>5, <3>2, <3>3
            DEF ExitStep, Atexit, MarkRead, MarkWrite, Exited, MarkLook, Restart
  <2>6. \A s \in Sid : ~ Expire(s)
    BY <2>1 DEF Expire
  <2>7. BlockEnds(o)
    BY <1>1, <2>2, <2>3, <2>4, <2>5, <2>6 DEF Next
  <2> QED BY <2>0, <2>7 DEF BlockEnds, At, EndingKilled, dbVars
<1>2. Minded /\ [Next]_vars =>
        [\A o \in Owner :
           /\ Awake(ProcOf[o]) /\ proc'[ProcOf[o]].loop = proc[ProcOf[o]].loop
           /\ task[o].at \notin {"idle", "created"} /\ task[o].cur # NoSid /\ task'[o].cur = NoSid
           => LET s == task[o].cur IN
              \/ e2b'[s] = "dead" \/ row'[s] = "cleaning"
              \/ kill'[<<ProcOf[o], s>>] \in KillSteps]_vars
  BY <1>1
<1> QED BY <1>2, AlwaysMinded, PTL DEF Spec, BlockEndKills

=============================================================================
