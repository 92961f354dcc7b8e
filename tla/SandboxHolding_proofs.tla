------------------------ MODULE SandboxHolding_proofs ------------------------
(***************************************************************************)
(* Who holds a sandbox, and what follows for _inflight, the heartbeats,    *)
(* the permits, the end of blocks and the reach of later sweeps: proofs    *)
(* about SandboxLifecycle for every set of sandboxes, processes and        *)
(* threads.  Each theorem says which calls of the application or which     *)
(* faults it excludes; the README says what happens with them.             *)
(***************************************************************************)
EXTENDS SandboxLifecycle_proofs, FiniteSetTheorems

-----------------------------------------------------------------------------
(* Which worker a step moves.                                              *)

Same(w) == /\ pc'[w] = pc[w] /\ cur'[w] = cur[w] /\ target'[w] = target[w]
           /\ handles'[w] = handles[w] /\ via'[w] = via[w]

WorkerStep(w) == KillStep(w) \/ BlockStep(w) \/ HandleStep(w) \/ InterruptStep(w)
JanitorStep(j) == KillStep(j) \/ SweepBegin(j) \/ SweepStep(j)
Outside == \E s \in Sid : Expire(s) \/ Heartbeat(s) \/ E2BTimeout(s) \/ ForeignCreate(s)

\* The cases of a step: a worker's, a janitor's, time and E2B, a crash, a
\* restart.
LEMMA Steps ==
  ASSUME [Next]_vars
  PROVE  \/ \E w \in Worker : WorkerStep(w)
         \/ \E j \in Janitor : JanitorStep(j)
         \/ Outside
         \/ \E p \in Process : Crash(p) \/ Restart(p)
         \/ UNCHANGED vars
BY DEF Next, WorkerStep, JanitorStep, Outside, Environment, Thread

\* A worker moves alone.
LEMMA OneMoves ==
  ASSUME Typed, NEW w \in Worker, WorkerStep(w)
  PROVE  up' = up /\ \A v \in Worker \ {w} : Same(v)
<1> USE ConstantsAssumption
    DEF ConstantsAssumption, Typed, TypeOK, Thread, Same, Goto, Call, Done, dbVars, processVars,
        workerVars, janitorVars
<1>1. CASE KillStep(w)
  <2>1. ASSUME LeaveKill(w)
        PROVE  \A v \in Worker \ {w} : Same(v)
    BY <2>1, KeptHandles DEF LeaveKill
  <2>2. ASSUME Return(w) \/ Raise(w)
        PROVE  \A v \in Worker \ {w} : Same(v)
    BY <2>1, <2>2 DEF Return, Raise
  <2>3. CASE ClaimRefused(w) \/ ConfirmFails(w) \/ DeletePorts(w)
    BY <2>2, <2>3 DEF ClaimRefused, ConfirmFails, DeletePorts
  <2>4. CASE Claim(w) \/ Kill(w) \/ KillFails(w) \/ ConfirmDead(w)
    BY <2>4 DEF Claim, Kill, KillFails, ConfirmDead
  <2>5. CASE CleanGet(w)
    BY <2>2, <2>5 DEF CleanGet
  <2>6. CASE CleanPut(w)
    BY <2>2, <2>6 DEF CleanPut
  <2> QED BY <1>1, <2>3, <2>4, <2>5, <2>6 DEF KillStep
<1>2. CASE BlockStep(w)
  BY <1>2 DEF BlockStep, Create, Record, RecordFails, Register, EnterBody, Exit, LeaveBlock
<1>3. CASE HandleStep(w)
  BY <1>3 DEF HandleStep, PauseCall, ResumeCall, ForkCall, ExposePort, ClosePort, AdoptCall,
              Release, PauseGet, ResumeGet, SetStateGet, PausePut, ResumePut, RecordHandle
<1>4. CASE InterruptStep(w)
  <2>1. CASE InterruptCall(w)
    BY <2>1, KeptHandles DEF InterruptCall, LeaveKill
  <2>2. CASE InterruptCreate(w) \/ InterruptRecorded(w) \/ InterruptHeartbeat(w) \/ InterruptBlock(w)
    BY <2>2 DEF InterruptCreate, InterruptRecorded, InterruptHeartbeat, InterruptBlock, LeaveBlock
  <2> QED BY <1>4, <2>1, <2>2 DEF InterruptStep
<1> QED BY <1>1, <1>2, <1>3, <1>4 DEF WorkerStep

\* Janitors, time and E2B move no worker.
LEMMA NoneMoves ==
  ASSUME Typed, Outside \/ UNCHANGED vars \/ \E j \in Janitor : JanitorStep(j)
  PROVE  /\ up' = up /\ \A v \in Worker : Same(v)
         /\ UNCHANGED <<permits, beats, strays, lost, handles>>
<1> USE ConstantsAssumption
    DEF ConstantsAssumption, Typed, TypeOK, Thread, Same, Goto, Call, dbVars, processVars,
        workerVars, janitorVars
<1>1. CASE Outside
  BY <1>1 DEF Outside, Expire, Heartbeat, E2BTimeout, ForeignCreate
<1>2. CASE UNCHANGED vars
  BY <1>2 DEF vars
<1>3. ASSUME NEW j \in Janitor, KillStep(j)
      PROVE  /\ up' = up /\ \A v \in Worker : Same(v)
             /\ UNCHANGED <<permits, beats, strays, lost, handles>>
  <2>1. Return(j) \/ Raise(j) => UNCHANGED workerVars /\ \A v \in Worker : Same(v)
    BY DEF Return, Raise
  <2>2. CASE ClaimRefused(j) \/ ConfirmFails(j) \/ DeletePorts(j)
    BY <2>1, <2>2 DEF ClaimRefused, ConfirmFails, DeletePorts
  <2>3. CASE Claim(j) \/ Kill(j) \/ KillFails(j) \/ ConfirmDead(j)
    BY <2>3 DEF Claim, Kill, KillFails, ConfirmDead
  <2>4. CASE CleanGet(j)
    BY <2>1, <2>4 DEF CleanGet
  <2>5. CASE CleanPut(j)
    BY <2>1, <2>5 DEF CleanPut
  <2> QED BY <1>3, <2>2, <2>3, <2>4, <2>5 DEF KillStep
<1>4. ASSUME NEW j \in Janitor, SweepBegin(j) \/ SweepStep(j)
      PROVE  /\ up' = up /\ \A v \in Worker : Same(v)
             /\ UNCHANGED <<permits, beats, strays, lost, handles>>
  BY <1>4 DEF SweepBegin, ReapBegin, ReconcileBegin, ShutdownBegin, Begin, SweepStep, Visit,
              ReapStale, ReapForeign, ReconcileCleaning, ShutdownCleaning, ShutdownStale,
              NextLoop, SweepEnd
<1> QED BY <1>1, <1>2, <1>3, <1>4 DEF JanitorStep

\* A crash resets the threads of its process.
LEMMA CrashMoves ==
  ASSUME Typed, NEW p \in Process, Crash(p)
  PROVE  \A w \in Worker :
           /\ ProcOf[w] # p => Same(w)
           /\ ProcOf[w] = p => /\ pc'[w] = "idle" /\ cur'[w] = NoSid
                               /\ target'[w] = NoSid /\ handles'[w] = {}
BY ConstantsAssumption DEF ConstantsAssumption, Typed, TypeOK, Thread, Same, Crash

-----------------------------------------------------------------------------
(* The worker of a sandbox.                                                *)

\* All a worker names: its handles, its block and the call it is in.
Mine(w) == handles[w] \cup {cur[w], target[w]}

\* Between two calls a worker has no target, outside of blocks no sandbox of a
\* block, and what it is giving up or about to record is no handle yet.
PlacedAt(w) ==
  /\ pc[w] \in {"idle", "created", "recorded", "waiting", "body"} => target[w] = NoSid
  /\ pc[w] = "idle" => cur[w] = NoSid
  /\ cur[w] \notin handles[w]
  /\ pc[w] \in KillSteps \cup {"forked", "adopting"} => target[w] \notin handles[w]
  /\ pc[w] \in {"forked", "adopting"} => target[w] # cur[w]
  /\ ProcOf[w] \notin up => pc[w] = "idle" /\ handles[w] = {}

Placed == \A w \in Worker : PlacedAt(w)

\* No sandbox has two workers.
Separate ==
  \A v, w \in Worker : \A s \in Sid : s \in Mine(v) /\ s \in Mine(w) => v = w

Owned == Placed /\ Separate

LEMMA InitOwned == Init => Owned
BY ConstantsAssumption
DEF ConstantsAssumption, Init, Owned, Placed, PlacedAt, Separate, Mine, Thread, KillSteps

\* A step of one worker keeps ownership apart if it takes over nothing of others.
LEMMA OneOwned ==
  ASSUME Owned, NEW w \in Worker, up' = up, \A v \in Worker \ {w} : Same(v), PlacedAt(w)',
         NEW s, \A v \in Worker \ {w} : s \in Sid => s \notin Mine(v),
         Mine(w)' \subseteq Mine(w) \cup {s, NoSid}
  PROVE  Owned'
<1>1. Placed'
  BY DEF Owned, Placed, PlacedAt, Same
<1>2. \A v \in Worker \ {w} : Mine(v)' = Mine(v)
  BY DEF Same, Mine
<1>3. Separate'
  BY <1>2, ConstantsAssumption DEF ConstantsAssumption, Owned, Separate
<1> QED BY <1>1, <1>3 DEF Owned

\* What nobody has created nobody holds.
LEMMA Fresh ==
  ASSUME Known, NEW s \in Sid, e2b[s] = "none"
  PROVE  \A w \in Worker : s \notin Mine(w)
BY DEF Known, Mine, Thread

LEMMA WorkerOwned ==
  ASSUME Typed, Known, Owned, NEW w \in Worker, WorkerStep(w)
  PROVE  Owned'
<1> USE ConstantsAssumption
    DEF ConstantsAssumption, Typed, TypeOK, Shape, Thread, At, Goto, Call, Done, Base
<1>0. /\ up' = up /\ \A v \in Worker \ {w} : Same(v)
      /\ PlacedAt(w)
  BY OneMoves DEF Owned, Placed
<1>1. ASSUME PlacedAt(w)', Mine(w)' \subseteq Mine(w) \cup {NoSid}
      PROVE  Owned'
  <2> HIDE DEF Typed
  <2> QED BY <1>0, <1>1, OneOwned
<1>2. ASSUME PlacedAt(w)', NEW s \in Sid, \A v \in Worker \ {w} : s \notin Mine(v),
             Mine(w)' \subseteq Mine(w) \cup {s, NoSid}
      PROVE  Owned'
  <2> HIDE DEF Typed
  <2> QED BY <1>0, <1>2, OneOwned
<1>3. ASSUME LeaveKill(w), pc[w] \in KillSteps \cup CallSteps, target[w] \in Sid,
             pc[w] \in CallSteps => cur[w] = NoSid
      PROVE  Owned'
  <2>1. handles[w] \subseteq handles'[w] /\ handles'[w] \subseteq handles[w] \cup {target[w]}
    BY <1>3, KeptHandles
  <2>2. pc[w] \in CallSteps => handles' = handles
    BY <1>3, KeptHandles DEF KillSteps, CallSteps
  <2> QED BY <1>0, <1>1, <1>3, <2>1, <2>2 DEF LeaveKill, PlacedAt, Mine, KillSteps, CallSteps
<1>4. CASE KillStep(w)
  <2>1. target[w] \in Sid /\ pc[w] \in KillSteps
    BY <1>4 DEF KillStep, Claim, ClaimRefused, Kill, KillFails, ConfirmDead, ConfirmFails,
                CleanGet, CleanPut, DeletePorts, KillSteps
  <2>2. ASSUME Return(w) \/ Raise(w)
        PROVE  Owned'
    BY <1>3, <2>1, <2>2 DEF Return, Raise, CallSteps, KillSteps
  <2>3. ASSUME NEW step \in KillSteps, Goto(w, step), UNCHANGED <<target, workerVars>>
        PROVE  Owned'
    BY <1>0, <1>1, <2>1, <2>3 DEF workerVars, PlacedAt, Mine, KillSteps
  <2>4. CASE ClaimRefused(w) \/ ConfirmFails(w) \/ DeletePorts(w)
    BY <2>2, <2>4 DEF ClaimRefused, ConfirmFails, DeletePorts
  <2>5. CASE Claim(w) \/ Kill(w) \/ KillFails(w) \/ ConfirmDead(w)
    BY <2>3, <2>5 DEF Claim, Kill, KillFails, ConfirmDead, KillSteps
  <2>6. CASE CleanGet(w)
    BY <2>2, <2>3, <2>6 DEF CleanGet, KillSteps
  <2>7. CASE CleanPut(w)
    BY <2>2, <2>3, <2>7 DEF CleanPut, KillSteps
  <2> QED BY <1>4, <2>4, <2>5, <2>6, <2>7 DEF KillStep
<1>5. ASSUME NEW free, LeaveBlock(w, free), cur[w] \in Sid
      PROVE  Owned'
  BY <1>0, <1>1, <1>5 DEF LeaveBlock, workerVars, PlacedAt, Mine, KillSteps
<1>6. CASE BlockStep(w)
  <2>1. ASSUME NEW s \in Sid, NEW api, Create(w, s, api)
        PROVE  Owned'
    <3>1. \A v \in Worker : s \notin Mine(v)
      BY <2>1, Fresh DEF Create
    <3> QED BY <1>0, <1>2, <2>1, <3>1 DEF Create, PlacedAt, Mine, KillSteps
  <2>2. CASE Record(w) \/ RecordFails(w) \/ Register(w) \/ EnterBody(w)
    BY <1>0, <1>1, <2>2 DEF Record, RecordFails, Register, EnterBody, workerVars, PlacedAt,
                            Mine, KillSteps
  <2>3. CASE Exit(w)
    BY <1>5, <2>3 DEF Exit
  <2> QED BY <1>6, <2>1, <2>2, <2>3 DEF BlockStep
<1>7. CASE HandleStep(w)
  <2>1. ASSUME NEW s \in Sid, PauseCall(w, s) \/ ResumeCall(w, s) \/ ExposePort(w, s)
                              \/ ClosePort(w, s) \/ Release(w, s)
        PROVE  Owned'
    BY <1>0, <1>1, <2>1 DEF PauseCall, ResumeCall, ExposePort, ClosePort, Release, Holds,
                            workerVars, PlacedAt, Mine, KillSteps
  <2>2. ASSUME NEW s \in Sid, NEW clone \in Sid, ForkCall(w, s, clone)
        PROVE  Owned'
    <3>1. \A v \in Worker : clone \notin Mine(v)
      BY <2>2, Fresh DEF ForkCall
    <3>2. /\ pc[w] \in {"idle", "body"} /\ ProcOf[w] \in up
          /\ pc' = [pc EXCEPT ![w] = "forked"] /\ target' = [target EXCEPT ![w] = clone]
          /\ cur' = cur /\ handles' = handles
      BY <2>2 DEF ForkCall, Holds, workerVars
    <3>3. PlacedAt(w)'
      BY <1>0, <3>1, <3>2 DEF PlacedAt, Mine, KillSteps
    <3> QED BY <1>2, <3>1, <3>2, <3>3 DEF Mine
  <2>3. ASSUME NEW s \in Sid, AdoptCall(w, s)
        PROVE  Owned'
    <3>1. \A v \in Worker : s \notin Mine(v)
      BY <2>3 DEF AdoptCall, Mine
    <3> QED BY <1>0, <1>2, <2>3, <3>1 DEF AdoptCall, workerVars, PlacedAt, Mine, KillSteps
  <2>4. CASE PauseGet(w) \/ ResumeGet(w)
    BY <1>0, <1>1, <2>4 DEF PauseGet, ResumeGet, SetStateGet, workerVars, PlacedAt, Mine, KillSteps
  <2>5. CASE PausePut(w) \/ ResumePut(w)
    BY <1>0, <1>1, <2>5 DEF PausePut, ResumePut, workerVars, PlacedAt, Mine, KillSteps
  <2>6. CASE RecordHandle(w)
    BY <1>0, <1>1, <2>6 DEF RecordHandle, PlacedAt, Mine, KillSteps, CallSteps
  <2> QED BY <1>7, <2>1, <2>2, <2>3, <2>4, <2>5, <2>6 DEF HandleStep
<1>8. CASE InterruptStep(w)
  <2>1. CASE InterruptCreate(w)
    BY <1>0, <1>1, <2>1 DEF InterruptCreate, PlacedAt, Mine, KillSteps
  <2>2. CASE InterruptRecorded(w)
    <3>1. CASE LeaveBlock(w, 0)
      BY <1>5, <2>2, <3>1 DEF InterruptRecorded
    <3>2. CASE ~ LeaveBlock(w, 0)
      BY <1>0, <1>1, <2>2, <3>2 DEF InterruptRecorded, PlacedAt, Mine, KillSteps
    <3> QED BY <3>1, <3>2
  <2>3. CASE InterruptBlock(w)
    BY <1>5, <2>3 DEF InterruptBlock
  <2>4. CASE InterruptCall(w)
    BY <1>3, <2>4 DEF InterruptCall, KillSteps, CallSteps
  <2>5. CASE InterruptHeartbeat(w)
    BY <1>0, <1>1, <2>5 DEF InterruptHeartbeat, PlacedAt, Mine, KillSteps
  <2> QED BY <1>8, <2>1, <2>2, <2>3, <2>4, <2>5 DEF InterruptStep
<1> HIDE DEF Typed
<1> QED BY <1>4, <1>6, <1>7, <1>8 DEF WorkerStep

LEMMA NextOwned ==
  ASSUME Typed, Known, Owned, [Next]_vars
  PROVE  Owned'
<1>1. ASSUME \A v \in Worker : Same(v), up \subseteq up'
      PROVE  Owned'
  BY <1>1 DEF Owned, Placed, PlacedAt, Separate, Mine, Same
<1>2. ASSUME NEW p \in Process, Crash(p)
      PROVE  Owned'
  <2>1. \A w \in Worker : ProcOf[w] # p => Same(w)
    BY <1>2, CrashMoves
  <2>2. \A w \in Worker : ProcOf[w] = p => /\ pc'[w] = "idle" /\ cur'[w] = NoSid
                                           /\ target'[w] = NoSid /\ handles'[w] = {}
    BY <1>2, CrashMoves
  <2>3. up' = up \ {p}
    BY <1>2 DEF Crash
  <2>4. Placed'
    BY <2>1, <2>2, <2>3 DEF Owned, Placed, PlacedAt, Same, KillSteps
  <2>5. Separate'
    BY <2>1, <2>2, ConstantsAssumption DEF ConstantsAssumption, Owned, Separate, Mine, Same
  <2> QED BY <2>4, <2>5 DEF Owned
<1>3. ASSUME NEW p \in Process, Restart(p)
      PROVE  Owned'
  BY <1>1, <1>3 DEF Restart, Same, workerVars
<1> QED BY <1>1, <1>2, <1>3, Steps, WorkerOwned, NoneMoves

LEMMA AlwaysOwned == Spec => [](Typed /\ Known /\ Owned)
<1>1. Init => Known /\ Owned
  BY InitKnown, InitOwned
<1>2. Typed /\ Known /\ Owned /\ [Next]_vars => Known' /\ Owned'
  BY NextKnown, NextOwned
<1> QED BY AlwaysTyped, <1>1, <1>2, PTL DEF Spec

-----------------------------------------------------------------------------
(* What _inflight misses of what workers hold.  Register and RecordHandle  *)
(* put a sandbox in, and only its own worker takes it out again, at the    *)
(* end of _kill_one; what it keeps then is PAUSED, and comes back to       *)
(* RUNNING by resume() alone.  shutdown() is excluded: it clears the set.  *)

\* A handle kept of a sandbox that was left PAUSED, and perhaps resumed since.
Excused(w, s) ==
  /\ "keep" \in Api /\ s \in handles[w]
  /\ row[s] = "running" => "resume" \in Api /\ s \in strays[ProcOf[w]]

Backed(w, s) == s \in inflight[ProcOf[w]] \/ Excused(w, s)

Listed ==
  /\ \A j \in Janitor : job[j] \notin {"downInflight", "downCleaning", "downStale"}
  /\ \A w \in Worker : pc[w] \in {"resumeGet", "resumePut"} => "resume" \in Api
  /\ \A w \in Worker : \A s \in HeldBy(w) : Backed(w, s)

\* A worker never names more than it has.
LEMMA HeldIsMine ==
  ASSUME NEW w \in Worker
  PROVE  HeldBy(w) \subseteq Mine(w)
BY DEF HeldBy, Mine

\* A row turns RUNNING by its own worker only, and if that worker holds a
\* handle of it, then by resume(), which starts a heartbeat.
TurnsRunning(w) ==
  /\ \A p \in Process : strays[p] \subseteq strays'[p]
  /\ \A s \in Sid : row'[s] = "running" /\ row[s] # "running" =>
       /\ s \in Mine(w)
       /\ s \in handles[w] => pc[w] = "resumePut" /\ s \in strays'[ProcOf[w]]

LEMMA WorkerTurns ==
  ASSUME Typed, Owned, NEW w \in Worker, WorkerStep(w)
  PROVE  TurnsRunning(w)
<1> USE ConstantsAssumption
    DEF ConstantsAssumption, Typed, TypeOK, Thread, At, WriteRow, Mine, TurnsRunning, dbVars,
        processVars
<1>0. PlacedAt(w)
  BY DEF Owned, Placed
<1>1. CASE KillStep(w)
  BY <1>1 DEF KillStep, Claim, ClaimRefused, Kill, KillFails, ConfirmDead, ConfirmFails,
              CleanGet, CleanPut, DeletePorts
<1>2. CASE BlockStep(w)
  <2>1. CASE Record(w)
    BY <1>0, <2>1 DEF Record, PlacedAt
  <2>2. CASE ~ Record(w)
    BY <1>2, <2>2 DEF BlockStep, Create, RecordFails, Register, EnterBody, Exit, LeaveBlock
  <2> QED BY <2>1, <2>2
<1>3. CASE HandleStep(w)
  <2>1. CASE ResumePut(w)
    BY <2>1 DEF ResumePut, Shape, CallSteps
  <2>2. CASE RecordHandle(w)
    BY <1>0, <2>2 DEF RecordHandle, PlacedAt
  <2>3. CASE ~ ResumePut(w) /\ ~ RecordHandle(w)
    BY <1>3, <2>3 DEF HandleStep, PauseCall, ResumeCall, ForkCall, ExposePort, ClosePort,
                      AdoptCall, Release, PauseGet, ResumeGet, SetStateGet, PausePut
  <2> QED BY <2>1, <2>2, <2>3
<1>4. CASE InterruptStep(w)
  BY <1>4 DEF InterruptStep, InterruptCreate, InterruptRecorded, InterruptHeartbeat,
              InterruptBlock, InterruptCall, LeaveBlock
<1> QED BY <1>1, <1>2, <1>3, <1>4 DEF WorkerStep

\* No sweep, no timeout and no heartbeat turns a row RUNNING.
LEMMA NoneTurns ==
  ASSUME Typed, Outside \/ UNCHANGED vars \/ \E j \in Janitor : JanitorStep(j),
         NEW s \in Sid, row'[s] = "running"
  PROVE  row[s] = "running"
<1> USE DEF Typed, TypeOK, At, WriteRow, dbVars
<1>1. CASE Outside \/ UNCHANGED vars
  BY <1>1 DEF Outside, Expire, Heartbeat, E2BTimeout, ForeignCreate, vars
<1>2. ASSUME NEW j \in Janitor, KillStep(j)
      PROVE  row[s] = "running"
  BY <1>2 DEF KillStep, Claim, ClaimRefused, Kill, KillFails, ConfirmDead, ConfirmFails,
              CleanGet, CleanPut, DeletePorts
<1>3. ASSUME NEW j \in Janitor, SweepBegin(j) \/ SweepStep(j)
      PROVE  row[s] = "running"
  BY <1>3 DEF SweepBegin, ReapBegin, ReconcileBegin, ShutdownBegin, Begin, SweepStep, Visit,
              ReapStale, ReapForeign, ReconcileCleaning, ShutdownCleaning, ShutdownStale,
              NextLoop, SweepEnd
<1> QED BY <1>1, <1>2, <1>3 DEF JanitorStep

\* What the set of its own process loses by a worker's step is the worker's
\* target, and what the worker still holds stays backed.
LEMMA WorkerListed ==
  ASSUME Typed, Owned, Listed, NEW w \in Worker, WorkerStep(w)
  PROVE  /\ \A p \in Process : p # ProcOf[w] => inflight[p] \subseteq inflight'[p]
         /\ inflight[ProcOf[w]] \ {target[w]} \subseteq inflight'[ProcOf[w]]
         /\ \A s \in HeldBy(w)' : Backed(w, s)'
<1> DEFINE Good == /\ \A p \in Process : p # ProcOf[w] => inflight[p] \subseteq inflight'[p]
                   /\ inflight[ProcOf[w]] \ {target[w]} \subseteq inflight'[ProcOf[w]]
                   /\ \A s \in HeldBy(w)' : Backed(w, s)'
<1> USE ConstantsAssumption
    DEF ConstantsAssumption, Typed, TypeOK, Thread, At, Goto, Call, Done, Base
<1>0. /\ PlacedAt(w) /\ \A s \in HeldBy(w) : Backed(w, s)
      /\ up' = up /\ TurnsRunning(w) /\ HeldBy(w) \subseteq Sid
  BY OneMoves, WorkerTurns DEF Owned, Placed, Listed, HeldBy, InBlock, InBody, Shape
<1>e. ASSUME NEW s \in Sid, Excused(w, s), s \in handles'[w]
      PROVE  Excused(w, s)'
  <2>1. row'[s] = "running" /\ row[s] # "running" => s \in strays'[ProcOf[w]] /\ "resume" \in Api
    BY <1>0, <1>e DEF TurnsRunning, Excused, Listed
  <2> QED BY <1>0, <1>e, <2>1 DEF TurnsRunning, Excused
<1>1. ASSUME \A p \in Process : inflight[p] \subseteq inflight'[p], HeldBy(w)' \subseteq HeldBy(w),
             handles[w] \subseteq handles'[w]
      PROVE  Good
  <2> SUFFICES ASSUME NEW s \in HeldBy(w)'
               PROVE  Backed(w, s)'
    BY <1>1
  <2>1. s \in Sid /\ Backed(w, s)
    BY <1>0, <1>1
  <2> HIDE DEF Typed
  <2> QED BY <1>e, <1>1, <2>1 DEF Backed, Excused, Typed, TypeOK
<1>2. ASSUME LeaveKill(w), pc[w] \in KillSteps \cup CallSteps,
             pc[w] \in CallSteps => cur[w] = NoSid
      PROVE  /\ handles[w] \subseteq handles'[w]
             /\ HeldBy(w)' \subseteq HeldBy(w) \cup {target[w]}
             /\ pc[w] \in KillSteps /\ target[w] \in HeldBy(w)' =>
                  "keep" \in Api /\ row[target[w]] = "paused" /\ target[w] \in handles'[w]
             /\ pc[w] \in CallSteps => HeldBy(w)' \subseteq HeldBy(w)
  <2>1. /\ handles[w] \subseteq handles'[w] /\ handles'[w] \subseteq handles[w] \cup {target[w]}
        /\ "keep" \notin Api \/ pc[w] \notin KillSteps \/ row[target[w]] # "paused"
             => handles' = handles
    BY <1>2, KeptHandles
  <2>2. /\ cur'[w] = IF cur[w] = target[w] THEN NoSid ELSE cur[w]
        /\ pc'[w] = IF cur[w] = target[w] \/ cur[w] = NoSid THEN "idle" ELSE "body"
    BY <1>2 DEF LeaveKill
  <2>3. CASE pc[w] \in CallSteps
    BY <1>0, <1>2, <2>1, <2>2, <2>3 DEF HeldBy, InBlock, InBody, KillSteps, CallSteps
  <2>4. CASE pc[w] \in KillSteps
    BY <1>0, <1>2, <2>1, <2>2, <2>4 DEF HeldBy, InBlock, InBody, PlacedAt, KillSteps, CallSteps
  <2> QED BY <1>2, <2>1, <2>3, <2>4
<1>3. CASE KillStep(w)
  <2>1. pc[w] \in KillSteps /\ target[w] \in Sid
    BY <1>3 DEF Shape, KillStep, Claim, ClaimRefused, Kill, KillFails, ConfirmDead, ConfirmFails,
                CleanGet, CleanPut, DeletePorts, KillSteps
  <2>2. ASSUME Return(w) \/ Raise(w), row' = row
        PROVE  Good
    <3>1. LeaveKill(w) /\ inflight' \in {inflight, [inflight EXCEPT ![ProcOf[w]] = @ \ {target[w]}]}
      BY <2>2 DEF Return, Raise
    <3>2. /\ handles[w] \subseteq handles'[w]
          /\ HeldBy(w)' \subseteq HeldBy(w) \cup {target[w]}
          /\ target[w] \in HeldBy(w)' =>
               "keep" \in Api /\ row[target[w]] = "paused" /\ target[w] \in handles'[w]
      BY <1>2, <2>1, <3>1 DEF KillSteps, CallSteps
    <3>3. ASSUME NEW s \in HeldBy(w)', s = target[w]
          PROVE  Backed(w, s)'
      BY <2>2, <3>2, <3>3 DEF Backed, Excused
    <3>4. ASSUME NEW s \in HeldBy(w)', s # target[w]
          PROVE  Backed(w, s)'
      <4>1. s \in Sid /\ Backed(w, s)
        BY <1>0, <3>2, <3>4
      <4>2. s \in inflight[ProcOf[w]] => s \in inflight'[ProcOf[w]]
        BY <3>1, <3>4
      <4>3. Excused(w, s) => Excused(w, s)'
        BY <1>e, <3>2, <4>1 DEF Excused
      <4> QED BY <4>1, <4>2, <4>3 DEF Backed
    <3> QED BY <3>1, <3>3, <3>4
  <2>3. ASSUME NEW step \in KillSteps, Goto(w, step),
               UNCHANGED <<inflight, target, workerVars>>
        PROVE  Good
    BY <1>0, <1>1, <2>1, <2>3 DEF workerVars, HeldBy, InBlock, InBody, KillSteps, CallSteps
  <2>4. CASE ClaimRefused(w) \/ ConfirmFails(w) \/ DeletePorts(w)
    BY <2>2, <2>4 DEF ClaimRefused, ConfirmFails, DeletePorts, dbVars
  <2>5. CASE Claim(w) \/ Kill(w) \/ KillFails(w) \/ ConfirmDead(w)
    BY <2>3, <2>5 DEF Claim, Kill, KillFails, ConfirmDead, KillSteps, processVars
  <2>6. CASE CleanGet(w)
    BY <2>2, <2>3, <2>6 DEF CleanGet, KillSteps, dbVars
  <2>7. CASE CleanPut(w)
    BY <2>3, <2>7 DEF CleanPut, KillSteps, Forced
  <2> HIDE DEF Good, Typed
  <2> QED BY <1>3, <2>4, <2>5, <2>6, <2>7 DEF KillStep
<1>4. ASSUME NEW free, LeaveBlock(w, free)
      PROVE  Good
  BY <1>1, <1>4 DEF LeaveBlock, workerVars, HeldBy, InBlock, InBody, KillSteps, CallSteps
<1>5. CASE BlockStep(w)
  <2>1. ASSUME NEW s \in Sid, NEW api, Create(w, s, api)
        PROVE  Good
    BY <1>1, <2>1 DEF Create, processVars, HeldBy, InBlock, InBody, KillSteps, CallSteps
  <2>2. CASE Record(w) \/ RecordFails(w) \/ EnterBody(w)
    BY <1>1, <2>2 DEF Record, RecordFails, EnterBody, processVars, workerVars, HeldBy, InBlock,
                      InBody, KillSteps, CallSteps
  <2>3. CASE Register(w)
    <3>1. /\ inflight' = [inflight EXCEPT ![ProcOf[w]] = @ \cup {cur[w]}] /\ UNCHANGED workerVars
          /\ row' = row
      BY <2>3 DEF Register, JoinInflight
    <3>2. HeldBy(w)' \subseteq handles[w] \cup {cur[w]}
      BY <3>1 DEF workerVars, HeldBy
    <3>3. \A s \in handles[w] : s \in HeldBy(w) /\ s \in handles'[w]
      BY <3>1 DEF workerVars, HeldBy
    <3>4. \A s \in handles[w] : Backed(w, s)'
      <4> SUFFICES ASSUME NEW s \in handles[w]
                   PROVE  Backed(w, s)'
        OBVIOUS
      <4>1. s \in Sid /\ Backed(w, s)
        BY <1>0, <3>3
      <4>2. Excused(w, s) => Excused(w, s)'
        BY <1>e, <3>3, <4>1
      <4> QED BY <3>1, <4>1, <4>2 DEF Backed
    <3> QED BY <3>1, <3>2, <3>4 DEF Backed
  <2>4. CASE Exit(w)
    BY <1>4, <2>4 DEF Exit
  <2> QED BY <1>5, <2>1, <2>2, <2>3, <2>4 DEF BlockStep
<1>6. CASE HandleStep(w)
  <2>1. ASSUME NEW s \in Sid, PauseCall(w, s) \/ ResumeCall(w, s) \/ ExposePort(w, s)
                              \/ ClosePort(w, s) \/ AdoptCall(w, s)
        PROVE  Good
    BY <1>0, <1>1, <2>1 DEF PauseCall, ResumeCall, ExposePort, ClosePort, AdoptCall, Holds,
                            processVars, workerVars, PlacedAt, HeldBy, InBlock, InBody,
                            KillSteps, CallSteps
  <2>2. ASSUME NEW s \in Sid, NEW clone \in Sid, ForkCall(w, s, clone)
        PROVE  Good
    BY <1>0, <1>1, <2>2 DEF ForkCall, Holds, processVars, workerVars, PlacedAt, HeldBy, InBlock,
                            InBody, KillSteps, CallSteps
  <2>3. ASSUME NEW s \in Sid, Release(w, s)
        PROVE  Good
    <3>1. /\ inflight' = inflight /\ handles'[w] = handles[w] \ {s}
          /\ HeldBy(w)' \subseteq HeldBy(w) \ {s}
      BY <1>0, <2>3 DEF Release, Holds, processVars, PlacedAt, HeldBy, InBlock, InBody,
                        KillSteps, CallSteps
    <3>2. \A r \in HeldBy(w)' : Backed(w, r)'
      <4> SUFFICES ASSUME NEW r \in HeldBy(w)'
                   PROVE  Backed(w, r)'
        OBVIOUS
      <4>1. r \in Sid /\ Backed(w, r) /\ r # s
        BY <1>0, <3>1
      <4>2. Excused(w, r) => Excused(w, r)'
        BY <1>e, <3>1, <4>1 DEF Excused
      <4> QED BY <3>1, <4>1, <4>2 DEF Backed
    <3> QED BY <3>1, <3>2
  <2>4. CASE PauseGet(w) \/ ResumeGet(w)
    BY <1>0, <1>1, <2>4 DEF PauseGet, ResumeGet, SetStateGet, processVars, workerVars, PlacedAt,
                            HeldBy, InBlock, InBody, KillSteps, CallSteps
  <2>5. CASE PausePut(w) \/ ResumePut(w)
    BY <1>0, <1>1, <2>5 DEF PausePut, ResumePut, processVars, workerVars, PlacedAt, HeldBy,
                            InBlock, InBody, KillSteps, CallSteps
  <2>6. CASE RecordHandle(w)
    <3>1. /\ inflight' = [inflight EXCEPT ![ProcOf[w]] = @ \cup {target[w]}]
          /\ handles' = [handles EXCEPT ![w] = @ \cup {target[w]}]
          /\ HeldBy(w)' \subseteq HeldBy(w) \cup {target[w]}
      BY <1>0, <2>6 DEF RecordHandle, JoinInflight, HeldBy, InBlock, InBody, CallSteps, KillSteps
    <3>2. \A s \in HeldBy(w) : Backed(w, s)'
      <4> SUFFICES ASSUME NEW s \in HeldBy(w)
                   PROVE  Backed(w, s)'
        OBVIOUS
      <4>1. s \in Sid /\ Backed(w, s)
        BY <1>0
      <4>2. Excused(w, s) => Excused(w, s)'
        BY <1>e, <3>1, <4>1 DEF Excused
      <4> QED BY <3>1, <4>1, <4>2 DEF Backed
    <3> QED BY <3>1, <3>2 DEF Backed
  <2> QED BY <1>6, <2>1, <2>2, <2>3, <2>4, <2>5, <2>6 DEF HandleStep
<1>7. CASE InterruptStep(w)
  <2>1. CASE InterruptCreate(w)
    BY <1>1, <2>1 DEF InterruptCreate, processVars, HeldBy, InBlock, InBody, KillSteps, CallSteps
  <2>2. CASE InterruptRecorded(w)
    <3>1. CASE LeaveBlock(w, 0)
      BY <1>4, <3>1
    <3>2. CASE ~ LeaveBlock(w, 0)
      <4>1. \A p \in Process : inflight[p] \subseteq inflight'[p]
        BY <2>2, <3>2, JoinGrows DEF InterruptRecorded
      <4>2. HeldBy(w)' \subseteq HeldBy(w) /\ handles' = handles
        BY <2>2, <3>2 DEF InterruptRecorded, HeldBy, InBlock, InBody, KillSteps, CallSteps
      <4> QED BY <1>1, <4>1, <4>2
    <3> QED BY <3>1, <3>2
  <2>3. CASE InterruptBlock(w)
    BY <1>4, <2>3 DEF InterruptBlock
  <2>4. CASE InterruptCall(w)
    <3>1. LeaveKill(w) /\ inflight' = inflight /\ row' = row
      BY <2>4 DEF InterruptCall, processVars, dbVars
    <3>2. target[w] \in Sid
      BY <2>4 DEF InterruptCall, Shape, KillSteps, CallSteps
    <3>3. CASE pc[w] \in CallSteps
      <4>1. HeldBy(w)' \subseteq HeldBy(w) /\ handles[w] \subseteq handles'[w]
        BY <1>2, <2>4, <3>1, <3>3 DEF InterruptCall, KillSteps, CallSteps
      <4> QED BY <1>1, <3>1, <4>1
    <3>4. CASE pc[w] \in KillSteps
      <4>1. /\ handles[w] \subseteq handles'[w]
            /\ HeldBy(w)' \subseteq HeldBy(w) \cup {target[w]}
            /\ target[w] \in HeldBy(w)' =>
                 "keep" \in Api /\ row[target[w]] = "paused" /\ target[w] \in handles'[w]
        BY <1>2, <3>1, <3>4 DEF KillSteps, CallSteps
      <4>2. ASSUME NEW s \in HeldBy(w)', s = target[w]
            PROVE  Backed(w, s)'
        BY <3>1, <4>1, <4>2 DEF Backed, Excused
      <4>3. ASSUME NEW s \in HeldBy(w)', s # target[w]
            PROVE  Backed(w, s)'
        <5>1. s \in Sid /\ Backed(w, s)
          BY <1>0, <4>1, <4>3
        <5>2. Excused(w, s) => Excused(w, s)'
          BY <1>e, <4>1, <5>1 DEF Excused
        <5> QED BY <3>1, <5>1, <5>2 DEF Backed
      <4> QED BY <3>1, <4>2, <4>3
    <3> QED BY <2>4, <3>3, <3>4 DEF InterruptCall
  <2>5. CASE InterruptHeartbeat(w)
    <3>1. inflight' = [inflight EXCEPT ![ProcOf[w]] = @ \cup {cur[w]}] /\ handles' = handles
      BY <2>5 DEF InterruptHeartbeat, JoinInflight
    <3>2. HeldBy(w)' \subseteq HeldBy(w)
      BY <2>5 DEF InterruptHeartbeat, HeldBy, InBlock, InBody, KillSteps, CallSteps
    <3> QED BY <1>1, <3>1, <3>2
  <2> QED BY <1>7, <2>1, <2>2, <2>3, <2>4, <2>5 DEF InterruptStep
<1> HIDE DEF Typed, Good
<1> QED BY <1>3, <1>5, <1>6, <1>7 DEF WorkerStep

LEMMA NextListed ==
  ASSUME "shutdown" \notin Api, Typed, Owned, Listed, [Next]_vars
  PROVE  Listed'
<1> USE ConstantsAssumption DEF ConstantsAssumption, Typed, TypeOK, Thread
<1>1. \A j \in Janitor : job'[j] \notin {"downInflight", "downCleaning", "downStale"}
  <2>1. CASE UNCHANGED job
    BY <2>1 DEF Listed
  <2>2. ASSUME NEW j \in Janitor, KillStep(j)
        PROVE  \A k \in Janitor : job'[k] \in {job[k], "none"}
    BY <2>2 DEF KillStep, Claim, ClaimRefused, Kill, KillFails, ConfirmDead, ConfirmFails,
                CleanGet, CleanPut, DeletePorts, Return, Raise, janitorVars
  <2>3. ASSUME NEW j \in Janitor, SweepBegin(j) \/ SweepStep(j)
        PROVE  \A k \in Janitor :
                 job'[k] \in {job[k], "none", "reapCleaning", "reapStale", "reapForeign",
                              "recStale", "recCleaning"}
    <3>1. CASE ReapBegin(j) \/ ReconcileBegin(j) \/ ShutdownBegin(j)
      BY <3>1 DEF ReapBegin, ReconcileBegin, ShutdownBegin, Begin
    <3>2. CASE \E s \in Sid : Visit(j, s)
      BY <3>2 DEF Visit
    <3>3. CASE ReapStale(j) \/ ReapForeign(j) \/ ReconcileCleaning(j) \/ SweepEnd(j)
      BY <3>3 DEF ReapStale, ReapForeign, ReconcileCleaning, NextLoop, SweepEnd
    <3>4. CASE ShutdownCleaning(j) \/ ShutdownStale(j)
      BY <3>4 DEF ShutdownCleaning, ShutdownStale, NextLoop, Listed
    <3> HIDE DEF Typed
    <3> QED BY <2>3, <3>1, <3>2, <3>3, <3>4 DEF SweepBegin, SweepStep
  <2>4. CASE Outside
    BY <2>1, <2>4 DEF Outside, Expire, Heartbeat, E2BTimeout, ForeignCreate, janitorVars
  <2>5. ASSUME NEW p \in Process, Crash(p) \/ Restart(p)
        PROVE  \A k \in Janitor : job'[k] \in {job[k], "none"}
    BY <2>5 DEF Crash, Restart, janitorVars
  <2>6. ASSUME NEW w \in Worker, WorkerStep(w)
        PROVE  UNCHANGED job
    <3>1. LeaveKill(w) => UNCHANGED job
      BY DEF LeaveKill, janitorVars
    <3>2. CASE KillStep(w)
      BY <3>1, <3>2 DEF KillStep, Claim, ClaimRefused, Kill, KillFails, ConfirmDead,
                        ConfirmFails, CleanGet, CleanPut, DeletePorts, Return, Raise, janitorVars
    <3>3. CASE BlockStep(w)
      BY <3>3 DEF BlockStep, Create, Record, RecordFails, Register, EnterBody, Exit, LeaveBlock,
                  janitorVars
    <3>4. CASE HandleStep(w)
      BY <3>4 DEF HandleStep, PauseCall, ResumeCall, ForkCall, ExposePort, ClosePort, AdoptCall,
                  Release, PauseGet, ResumeGet, SetStateGet, PausePut, ResumePut, RecordHandle,
                  janitorVars
    <3>5. CASE InterruptStep(w)
      BY <3>1, <3>5 DEF InterruptStep, InterruptCreate, InterruptRecorded, InterruptHeartbeat,
                        InterruptBlock,
                        InterruptCall, LeaveBlock, janitorVars
    <3> QED BY <2>6, <3>2, <3>3, <3>4, <3>5 DEF WorkerStep
  <2>7. CASE UNCHANGED vars
    BY <2>1, <2>7 DEF vars, janitorVars
  <2> HIDE DEF Typed
  <2> QED BY <2>1, <2>2, <2>3, <2>4, <2>5, <2>6, <2>7, Steps DEF JanitorStep, Listed
<1>2. ASSUME NEW w \in Worker, WorkerStep(w)
      PROVE  pc'[w] \in {"resumeGet", "resumePut"} => "resume" \in Api
  <2> USE DEF At, Goto, Call, Done, Base
  <2>1. LeaveKill(w) => pc'[w] \in {"idle", "body"}
    BY DEF LeaveKill
  <2>2. CASE KillStep(w)
    BY <2>1, <2>2 DEF KillStep, Claim, ClaimRefused, Kill, KillFails, ConfirmDead, ConfirmFails,
                      CleanGet, CleanPut, DeletePorts, Return, Raise
  <2>3. CASE BlockStep(w)
    BY <2>3 DEF BlockStep, Create, Record, RecordFails, Register, EnterBody, Exit, LeaveBlock,
                Listed
  <2>4. CASE HandleStep(w)
    BY <2>4 DEF HandleStep, PauseCall, ResumeCall, ForkCall, ExposePort, ClosePort, AdoptCall,
                Release, PauseGet, ResumeGet, SetStateGet, PausePut, ResumePut, RecordHandle,
                Listed
  <2>5. CASE InterruptStep(w)
    BY <2>1, <2>5 DEF InterruptStep, InterruptCreate, InterruptRecorded, InterruptHeartbeat,
                      InterruptBlock, InterruptCall, LeaveBlock
  <2> QED BY <1>2, <2>2, <2>3, <2>4, <2>5 DEF WorkerStep
<1>3. ASSUME NEW v \in Worker, NEW s \in HeldBy(v), s \in HeldBy(v)', handles'[v] = handles[v],
             strays[ProcOf[v]] \subseteq strays'[ProcOf[v]],
             row'[s] = "running" => row[s] = "running",
             s \in inflight[ProcOf[v]] => s \in inflight'[ProcOf[v]]
      PROVE  Backed(v, s)'
  BY <1>3 DEF Listed, Backed, Excused
<1>4. ASSUME NEW w \in Worker, WorkerStep(w), NEW v \in Worker
      PROVE  \A s \in HeldBy(v)' : Backed(v, s)'
  <2>1. CASE v = w
    BY <1>4, <2>1, WorkerListed
  <2>2. CASE v # w
    <3> SUFFICES ASSUME NEW s \in HeldBy(v)'
                 PROVE  Backed(v, s)'
      OBVIOUS
    <3>1. HeldBy(v)' = HeldBy(v) /\ handles'[v] = handles[v]
      BY <1>4, <2>2, OneMoves DEF Same, HeldBy, InBlock, InBody
    <3>2. s \in Sid /\ s \in Mine(v)
      BY <3>1, HeldIsMine DEF HeldBy, InBlock, InBody, Shape
    <3>3. s \notin Mine(w)
      BY <2>2, <3>2 DEF Owned, Separate
    <3>4. /\ strays[ProcOf[v]] \subseteq strays'[ProcOf[v]]
          /\ row'[s] = "running" => row[s] = "running"
      BY <1>4, <3>2, <3>3, WorkerTurns DEF TurnsRunning
    <3>5. s \in inflight[ProcOf[v]] => s \in inflight'[ProcOf[v]]
      BY <1>4, <3>3, WorkerListed DEF Mine
    <3> HIDE DEF Typed
    <3> QED BY <1>3, <3>1, <3>4, <3>5
  <2> QED BY <2>1, <2>2
<1>5. ASSUME Outside \/ UNCHANGED vars \/ \E j \in Janitor : JanitorStep(j), NEW v \in Worker
      PROVE  \A s \in HeldBy(v)' : Backed(v, s)'
  <2>1. HeldBy(v)' = HeldBy(v) /\ handles'[v] = handles[v] /\ strays' = strays
    BY <1>5, NoneMoves DEF Same, HeldBy, InBlock, InBody
  <2>2. inflight' = inflight
    <3>1. CASE Outside \/ UNCHANGED vars
      BY <3>1 DEF Outside, Expire, Heartbeat, E2BTimeout, ForeignCreate, vars, processVars
    <3>2. ASSUME NEW j \in Janitor, KillStep(j)
          PROVE  inflight' = inflight
      BY <3>2 DEF KillStep, Claim, ClaimRefused, Kill, KillFails, ConfirmDead, ConfirmFails,
                  CleanGet, CleanPut, DeletePorts, Return, Raise, processVars
    <3>3. ASSUME NEW j \in Janitor, SweepBegin(j) \/ SweepStep(j)
          PROVE  inflight' = inflight
      <4>1. ~ ShutdownCleaning(j)
        BY DEF ShutdownCleaning, NextLoop, Listed
      <4> QED BY <3>3, <4>1
              DEF SweepBegin, ReapBegin, ReconcileBegin, ShutdownBegin, Begin, SweepStep, Visit,
                  ReapStale, ReapForeign, ReconcileCleaning, ShutdownStale, NextLoop, SweepEnd,
                  processVars
    <3> QED BY <1>5, <3>1, <3>2, <3>3 DEF JanitorStep
  <2>3. HeldBy(v) \subseteq Sid
    BY DEF HeldBy, InBlock, InBody, Shape
  <2>4. \A s \in Sid : row'[s] = "running" => row[s] = "running"
    BY <1>5, NoneTurns
  <2> HIDE DEF Typed
  <2> QED BY <1>3, <2>1, <2>2, <2>3, <2>4
<1>6. ASSUME NEW p \in Process, Crash(p) \/ Restart(p), NEW v \in Worker
      PROVE  \A s \in HeldBy(v)' : Backed(v, s)'
  <2>1. CASE Crash(p) /\ ProcOf[v] = p
    <3>1. handles'[v] = {} /\ pc'[v] = "idle"
      BY <2>1, CrashMoves
    <3> QED BY <3>1 DEF HeldBy, InBlock, InBody, CallSteps, KillSteps
  <2>2. CASE Crash(p) /\ ProcOf[v] # p
    <3>1. /\ Same(v) /\ up' = up \ {p} /\ row' = row
          /\ inflight'[ProcOf[v]] = inflight[ProcOf[v]] /\ strays'[ProcOf[v]] = strays[ProcOf[v]]
      BY <2>2, CrashMoves DEF Crash, dbVars
    <3>2. HeldBy(v)' = HeldBy(v)
      BY <2>2, <3>1 DEF Same, HeldBy, InBlock, InBody
    <3> HIDE DEF Typed
    <3> QED BY <1>3, <3>1, <3>2 DEF Same
  <2>3. CASE Restart(p)
    <3>1. /\ UNCHANGED <<pc, cur, target, handles, inflight, strays, row>>
          /\ up' = up \cup {p} /\ p \notin up
      BY <2>3 DEF Restart, workerVars, dbVars
    <3>2. HeldBy(v)' \subseteq HeldBy(v)
      BY <3>1 DEF Owned, Placed, PlacedAt, HeldBy, InBlock, InBody, CallSteps, KillSteps
    <3> HIDE DEF Typed
    <3> QED BY <1>3, <3>1, <3>2
  <2> QED BY <1>6, <2>1, <2>2, <2>3
<1> HIDE DEF Typed
<1>7. \A v \in Worker : \A s \in HeldBy(v)' : Backed(v, s)'
  BY <1>4, <1>5, <1>6, Steps
<1>8. \A v \in Worker : pc'[v] \in {"resumeGet", "resumePut"} => "resume" \in Api
  <2>1. CASE \E w \in Worker : WorkerStep(w)
    BY <1>2, <2>1, OneMoves DEF Same, Listed
  <2>2. CASE Outside \/ UNCHANGED vars \/ \E j \in Janitor : JanitorStep(j)
    BY <2>2, NoneMoves DEF Same, Listed
  <2>3. ASSUME NEW p \in Process, Crash(p) \/ Restart(p)
        PROVE  \A v \in Worker : pc'[v] \in {pc[v], "idle"}
    BY <2>3 DEF Crash, Restart, Typed, TypeOK
  <2> QED BY <2>1, <2>2, <2>3, Steps DEF Listed
<1> QED BY <1>1, <1>7, <1>8 DEF Listed

LEMMA AlwaysListed == "shutdown" \notin Api => (Spec => []Listed)
<1>1. Init => Listed
  BY ConstantsAssumption
     DEF ConstantsAssumption, Init, Listed, HeldBy, InBlock, InBody, CallSteps, KillSteps, Thread
<1> SUFFICES ASSUME "shutdown" \notin Api
             PROVE  Spec => []Listed
  OBVIOUS
<1>2. Typed /\ Known /\ Owned /\ Listed /\ [Next]_vars => Listed'
  BY NextListed
<1> QED BY AlwaysOwned, <1>1, <1>2, PTL DEF Spec

\* Without shutdown(), the RUNNING sandboxes a worker of a running process
\* holds, by a with block or by a handle, are in the _inflight of its process,
\* but for those a kept handle resumed after their block, which have a
\* heartbeat: threads that register, release and leave blocks at the same time
\* never take out of the set what another one holds, whatever sweeps, faults
\* and crashes occur.
THEOREM HeldOrResumedStays ==
  ASSUME "shutdown" \notin Api
  PROVE  Spec => []HeldOrResumed
<1>1. Listed => HeldOrResumed
  BY DEF Listed, Backed, Excused, HeldOrResumed
<1> QED BY AlwaysListed, <1>1, PTL

\* "All methods that produce a sandbox join _inflight" holds of applications
\* that never call shutdown() and do not both keep the handle of a sandbox
\* they left PAUSED and resume it: what their workers hold RUNNING is in the
\* _inflight of its process.
THEOREM HeldStaysInflight ==
  ASSUME "shutdown" \notin Api, ~ ({"keep", "resume"} \subseteq Api)
  PROVE  Spec => []HeldIsInflight
<1>1. Listed => HeldIsInflight
  BY DEF Listed, Backed, Excused, HeldIsInflight
<1> QED BY AlwaysListed, <1>1, PTL

-----------------------------------------------------------------------------
(* A heartbeat belongs to a with block.  Register starts it and every way  *)
(* out of the block stops it; the heartbeats of resume() and of            *)
(* restore_from_snapshot, which nothing stops, are excluded.               *)

BeatsHeld ==
  \A p \in Process : \A s \in beats[p] :
    \E w \in Worker : ProcOf[w] = p /\ cur[w] = s /\ InBlock(w)

NoStrays ==
  /\ \A p \in Process : strays[p] = {}
  /\ \A w \in Worker : via[w] = "acquire" /\ pc[w] \notin {"resumeGet", "resumePut"}

\* A worker starts a heartbeat only for the block it then is in, and comes out
\* of a block only after stopping its heartbeat.
LEMMA WorkerBeats ==
  ASSUME Typed, NoStrays, NEW w \in Worker, WorkerStep(w)
  PROVE  /\ \A p \in Process : p # ProcOf[w] => beats'[p] = beats[p]
         /\ \A s \in beats'[ProcOf[w]] :
              s \in beats[ProcOf[w]] \/ (cur'[w] = s /\ InBlock(w)')
         /\ InBlock(w) => \/ InBlock(w)' /\ cur'[w] = cur[w]
                          \/ cur[w] \notin beats'[ProcOf[w]]
<1> DEFINE Stays == InBlock(w) => InBlock(w)' /\ cur'[w] = cur[w]
<1> USE ConstantsAssumption
    DEF ConstantsAssumption, Typed, TypeOK, Thread, At, Goto, Call, Done, Base, processVars,
        workerVars
<1>0. up' = up
  BY OneMoves
<1>1. ASSUME beats' = beats, Stays
      PROVE  /\ \A p \in Process : p # ProcOf[w] => beats'[p] = beats[p]
             /\ \A s \in beats'[ProcOf[w]] :
                  s \in beats[ProcOf[w]] \/ (cur'[w] = s /\ InBlock(w)')
             /\ InBlock(w) => \/ InBlock(w)' /\ cur'[w] = cur[w]
                              \/ cur[w] \notin beats'[ProcOf[w]]
  BY <1>1
<1>2. ASSUME LeaveKill(w), pc[w] \in KillSteps \/ (pc[w] \in CallSteps /\ cur[w] = NoSid)
      PROVE  Stays
  BY <1>0, <1>2 DEF LeaveKill, InBlock, InBody, KillSteps, CallSteps
<1>3. CASE KillStep(w)
  <2>1. pc[w] \in KillSteps
    BY <1>3 DEF KillStep, Claim, ClaimRefused, Kill, KillFails, ConfirmDead, ConfirmFails,
                CleanGet, CleanPut, DeletePorts, KillSteps
  <2>2. Return(w) \/ Raise(w) => LeaveKill(w)
    BY DEF Return, Raise
  <2>3. ASSUME NEW step \in KillSteps, Goto(w, step), UNCHANGED <<target, workerVars>>
        PROVE  Stays
    BY <1>0, <2>1, <2>3 DEF InBlock, InBody, KillSteps, CallSteps
  <2>4. ClaimRefused(w) \/ ConfirmFails(w) \/ DeletePorts(w) => LeaveKill(w)
    BY <2>2 DEF ClaimRefused, ConfirmFails, DeletePorts
  <2>5. ASSUME Claim(w) \/ Kill(w) \/ KillFails(w) \/ ConfirmDead(w)
        PROVE  Stays
    BY <2>3, <2>5 DEF Claim, Kill, KillFails, ConfirmDead, KillSteps
  <2>6. ASSUME CleanGet(w) \/ CleanPut(w)
        PROVE  Stays
    <3>1. LeaveKill(w) \/ \E step \in KillSteps : Goto(w, step) /\ UNCHANGED <<target, workerVars>>
      BY <2>2, <2>6 DEF CleanGet, CleanPut, KillSteps
    <3> QED BY <1>2, <2>1, <2>3, <3>1
  <2>7. beats' = beats
    BY <1>3 DEF KillStep, Claim, ClaimRefused, Kill, KillFails, ConfirmDead, ConfirmFails,
                CleanGet, CleanPut, DeletePorts
  <2>8. Stays
    <3> HIDE DEF Typed
    <3> QED BY <1>2, <1>3, <2>1, <2>4, <2>5, <2>6 DEF KillStep
  <2> HIDE DEF Typed
  <2> QED BY <1>1, <2>7, <2>8
<1>4. ASSUME NEW free, LeaveBlock(w, free)
      PROVE  beats' = [beats EXCEPT ![ProcOf[w]] = @ \ {cur[w]}]
  BY <1>4 DEF LeaveBlock, StopBeating
<1>5. CASE BlockStep(w)
  <2>1. ASSUME NEW s \in Sid, NEW api, Create(w, s, api)
        PROVE  beats' = beats /\ Stays
    BY <2>1 DEF Create, InBlock, InBody, KillSteps, CallSteps
  <2>2. CASE Record(w) \/ RecordFails(w) \/ EnterBody(w)
    BY <1>0, <1>1, <2>2 DEF Record, RecordFails, EnterBody, InBlock, InBody, KillSteps,
                      CallSteps, Shape
  <2>3. CASE Register(w)
    <3>1. /\ beats' = [beats EXCEPT ![ProcOf[w]] = @ \cup {cur[w]}]
          /\ cur' = cur /\ pc[w] = "recorded" /\ InBlock(w)'
      BY <1>0, <2>3 DEF Register, NoStrays, InBlock
    <3> QED BY <3>1 DEF InBlock, InBody, CallSteps, KillSteps
  <2>4. CASE Exit(w)
    BY <1>4, <2>4 DEF Exit
  <2> QED BY <1>1, <1>5, <2>1, <2>2, <2>3, <2>4 DEF BlockStep
<1>6. CASE HandleStep(w)
  <2>1. ASSUME NEW s \in Sid, PauseCall(w, s) \/ ResumeCall(w, s) \/ ExposePort(w, s)
                              \/ ClosePort(w, s) \/ AdoptCall(w, s) \/ Release(w, s)
        PROVE  beats' = beats /\ Stays
    BY <1>0, <2>1 DEF PauseCall, ResumeCall, ExposePort, ClosePort, AdoptCall, Release, Holds,
                      InBlock, InBody, KillSteps, CallSteps
  <2>2. ASSUME NEW s \in Sid, NEW clone \in Sid, ForkCall(w, s, clone)
        PROVE  beats' = beats /\ Stays
    BY <1>0, <2>2 DEF ForkCall, Holds, InBlock, InBody, KillSteps, CallSteps
  <2>3. CASE PauseGet(w) \/ ResumeGet(w)
    BY <1>0, <1>1, <2>3 DEF PauseGet, ResumeGet, SetStateGet, InBlock, InBody, KillSteps, CallSteps
  <2>4. CASE PausePut(w) \/ ResumePut(w)
    BY <1>0, <1>1, <2>4 DEF PausePut, ResumePut, InBlock, InBody, KillSteps, CallSteps
  <2>5. CASE RecordHandle(w)
    BY <1>0, <1>1, <2>5 DEF RecordHandle, InBlock, InBody, KillSteps, CallSteps
  <2> QED BY <1>1, <1>6, <2>1, <2>2, <2>3, <2>4, <2>5 DEF HandleStep
<1>7. CASE InterruptStep(w)
  <2>1. CASE InterruptCreate(w)
    BY <1>1, <2>1 DEF InterruptCreate, InBlock, InBody, KillSteps, CallSteps
  <2>2. CASE InterruptRecorded(w)
    <3>1. LeaveBlock(w, 0)
      BY <2>2 DEF InterruptRecorded, NoStrays
    <3> QED BY <1>4, <3>1
  <2>3. CASE InterruptBlock(w)
    BY <1>4, <2>3 DEF InterruptBlock
  <2>4. CASE InterruptCall(w)
    <3>1. Stays
      BY <1>2, <2>4 DEF InterruptCall
    <3>2. beats' = beats
      BY <2>4 DEF InterruptCall
    <3> QED BY <1>1, <3>1, <3>2
  <2>5. CASE InterruptHeartbeat(w)
    BY <1>1, <2>5 DEF InterruptHeartbeat, InBlock, InBody, KillSteps, CallSteps
  <2> QED BY <1>7, <2>1, <2>2, <2>3, <2>4, <2>5 DEF InterruptStep
<1> HIDE DEF Typed
<1> QED BY <1>3, <1>5, <1>6, <1>7 DEF WorkerStep

LEMMA NextNoStrays ==
  ASSUME Api \cap {"restore", "resume"} = {}, "hbstart" \notin Faults, Typed, NoStrays,
         [Next]_vars
  PROVE  NoStrays'
<1> USE ConstantsAssumption
    DEF ConstantsAssumption, Typed, TypeOK, Thread, At, Goto, Call, Done, Base, processVars,
        workerVars
<1>1. ASSUME NEW w \in Worker, WorkerStep(w)
      PROVE  /\ strays' = strays
             /\ via'[w] = "acquire" /\ pc'[w] \notin {"resumeGet", "resumePut"}
  <2>1. LeaveKill(w) => UNCHANGED via /\ pc'[w] \in {"idle", "body"}
    BY DEF LeaveKill
  <2>2. CASE KillStep(w)
    BY <2>1, <2>2 DEF KillStep, Claim, ClaimRefused, Kill, KillFails, ConfirmDead, ConfirmFails,
                      CleanGet, CleanPut, DeletePorts, Return, Raise, NoStrays
  <2>3. CASE BlockStep(w)
    BY <2>3 DEF BlockStep, Create, Record, RecordFails, Register, EnterBody, Exit, LeaveBlock,
                NoStrays
  <2>4. CASE HandleStep(w)
    BY <2>4 DEF HandleStep, PauseCall, ResumeCall, ForkCall, ExposePort, ClosePort, AdoptCall,
                Release, PauseGet, ResumeGet, SetStateGet, PausePut, ResumePut, RecordHandle,
                NoStrays
  <2>5. CASE InterruptStep(w)
    BY <2>1, <2>5 DEF InterruptStep, InterruptCreate, InterruptRecorded, InterruptHeartbeat,
                      InterruptBlock,
                      InterruptCall, LeaveBlock, NoStrays
  <2> QED BY <1>1, <2>2, <2>3, <2>4, <2>5 DEF WorkerStep
<1>2. ASSUME NEW p \in Process, Crash(p)
      PROVE  NoStrays'
  <2>1. \A w \in Worker : pc'[w] \in {pc[w], "idle"} /\ via' = via
    BY <1>2 DEF Crash
  <2>2. \A q \in Process : strays'[q] \subseteq strays[q]
    BY <1>2 DEF Crash
  <2> QED BY <2>1, <2>2 DEF NoStrays
<1>3. ASSUME NEW p \in Process, Restart(p)
      PROVE  NoStrays'
  BY <1>3 DEF Restart, NoStrays
<1> HIDE DEF Typed
<1>4. ASSUME NEW w \in Worker, WorkerStep(w)
      PROVE  NoStrays'
  BY <1>1, <1>4, OneMoves DEF NoStrays, Same
<1>5. CASE Outside \/ UNCHANGED vars \/ \E j \in Janitor : JanitorStep(j)
  BY <1>5, NoneMoves DEF NoStrays, Same
<1> QED BY <1>2, <1>3, <1>4, <1>5, Steps

LEMMA NextBeatsHeld ==
  ASSUME Typed, NoStrays, BeatsHeld, [Next]_vars
  PROVE  BeatsHeld'
<1> USE ConstantsAssumption DEF ConstantsAssumption, Thread
<1>1. ASSUME NEW w \in Worker, WorkerStep(w)
      PROVE  BeatsHeld'
  <2> SUFFICES ASSUME NEW p \in Process, NEW s \in beats'[p]
               PROVE  \E v \in Worker : ProcOf[v] = p /\ cur'[v] = s /\ InBlock(v)'
    BY DEF BeatsHeld
  <2>1. \A v \in Worker \ {w} : InBlock(v)' = InBlock(v) /\ cur'[v] = cur[v]
    BY <1>1, OneMoves DEF Same, InBlock, InBody
  <2>2. CASE p = ProcOf[w] /\ s \notin beats[p]
    BY <1>1, <2>2, WorkerBeats
  <2>3. CASE s \in beats[p]
    <3>1. PICK v \in Worker : ProcOf[v] = p /\ cur[v] = s /\ InBlock(v)
      BY <2>3 DEF BeatsHeld
    <3>2. CASE v = w
      BY <1>1, <3>1, <3>2, WorkerBeats
    <3> QED BY <2>1, <3>1, <3>2
  <2> QED BY <1>1, <2>2, <2>3, WorkerBeats
<1>2. CASE Outside \/ UNCHANGED vars \/ \E j \in Janitor : JanitorStep(j)
  <2>1. \A v \in Worker : InBlock(v)' = InBlock(v) /\ cur'[v] = cur[v]
    BY <1>2, NoneMoves DEF Same, InBlock, InBody
  <2>2. beats' = beats
    BY <1>2, NoneMoves
  <2> QED BY <2>1, <2>2 DEF BeatsHeld
<1>3. ASSUME NEW p \in Process, Crash(p)
      PROVE  BeatsHeld'
  <2>1. \A q \in Process : beats'[q] = IF q = p THEN {} ELSE beats[q]
    BY <1>3 DEF Crash, Typed, TypeOK
  <2>2. \A v \in Worker : ProcOf[v] # p => InBlock(v)' = InBlock(v) /\ cur'[v] = cur[v]
    <3>1. up' = up \ {p}
      BY <1>3 DEF Crash
    <3> QED BY <1>3, <3>1, CrashMoves DEF Same, InBlock, InBody
  <2> QED BY <2>1, <2>2 DEF BeatsHeld
<1>4. ASSUME NEW p \in Process, Restart(p)
      PROVE  BeatsHeld'
  <2>1. UNCHANGED <<beats, pc, cur, target>> /\ up \subseteq up'
    BY <1>4 DEF Restart, workerVars
  <2> QED BY <2>1 DEF BeatsHeld, InBlock, InBody
<1> QED BY <1>1, <1>2, <1>3, <1>4, Steps

\* For applications without restore_from_snapshot and resume(): every
\* heartbeat that runs is that of a with block whose worker is in it, so no
\* row stays fresh, out of reach of reap, that nobody holds; through exits,
\* interrupts at every point of a block but inside hb.start(), kills that fail,
\* and crashes.
THEOREM HeartbeatsAreHeld ==
  ASSUME Api \cap {"restore", "resume"} = {}, "hbstart" \notin Faults
  PROVE  Spec => []HeartbeatMeansHeld
<1>1. Init => NoStrays /\ BeatsHeld
  BY ConstantsAssumption DEF ConstantsAssumption, Init, NoStrays, BeatsHeld, Thread
<1>2. Typed /\ NoStrays /\ BeatsHeld /\ [Next]_vars => NoStrays' /\ BeatsHeld'
  BY NextNoStrays, NextBeatsHeld
<1>3. Typed /\ NoStrays /\ BeatsHeld => HeartbeatMeansHeld
  <2> SUFFICES ASSUME Typed, NoStrays, BeatsHeld, NEW s \in Sid, Beating(s)
               PROVE  \E w \in Worker : ProcOf[w] \in up /\ s \in handles[w] \cup {cur[w],
               target[w]}
    BY DEF HeartbeatMeansHeld
  <2>1. PICK p \in up : s \in beats[p] \cup strays[p]
    BY DEF Beating
  <2>2. p \in Process /\ s \in beats[p]
    BY <2>1 DEF Typed, TypeOK, NoStrays
  <2> QED BY <2>1, <2>2 DEF BeatsHeld
<1> QED BY AlwaysTyped, <1>1, <1>2, <1>3, PTL DEF Spec

-----------------------------------------------------------------------------
(* Nothing alive is out of reach.  A sandbox of ours that E2B runs has a   *)
(* RUNNING or CLEANING row from the first write on; before it, a worker is *)
(* about to write, or died there.  pause() is excluded: no sweep lists a   *)
(* PAUSED row.                                                             *)

Creating(w, s) ==
  \/ pc[w] = "created" /\ cur[w] = s
  \/ pc[w] = "forked" /\ target[w] = s

\* How a creation ends, and that it is the only beginning.
CreationRule ==
  /\ lost \subseteq lost'
  /\ \A s \in Sid : row[s] # "none" => row'[s] # "none"
  /\ \A w \in Worker, s \in Sid : Creating(w, s) =>
       Creating(w, s)' \/ row'[s] # "none" \/ s \in lost' \/ e2b'[s] = "dead"
  /\ \A s \in Sid \ Foreign : e2b[s] = "none" /\ e2b'[s] # "none" =>
       \E w \in Worker : Creating(w, s)'

LEMMA CreationRuleHolds ==
  ASSUME Typed, Known, [Next]_vars
  PROVE  CreationRule
<1> USE ConstantsAssumption
    DEF ConstantsAssumption, Typed, TypeOK, Thread, At, Goto, Call, Done, Base, WriteRow,
        dbVars, processVars, workerVars, janitorVars
<1>1. ASSUME NEW w \in Worker, WorkerStep(w)
      PROVE  /\ lost \subseteq lost'
             /\ \A s \in Sid : row[s] # "none" => row'[s] # "none"
             /\ \A s \in Sid : Creating(w, s) =>
                  Creating(w, s)' \/ row'[s] # "none" \/ s \in lost' \/ e2b'[s] = "dead"
             /\ \A s \in Sid : e2b[s] = "none" /\ e2b'[s] # "none" => Creating(w, s)'
  <2>1. CASE KillStep(w)
    <3>1. /\ lost' = lost /\ pc[w] \in KillSteps /\ target[w] \in Sid
          /\ \A s \in Sid : row[s] # "none" => row'[s] # "none"
      BY <2>1 DEF Shape, KillStep, Claim, ClaimRefused, Kill, KillFails, ConfirmDead,
                  ConfirmFails, CleanGet, CleanPut, DeletePorts, KillSteps
    <3>2. \A s \in Sid : e2b[s] = "none" => e2b'[s] = "none"
      BY <2>1, <3>1 DEF Known, KillStep, Claim, ClaimRefused, Kill, KillFails, ConfirmDead,
                        ConfirmFails, CleanGet, CleanPut, DeletePorts
    <3> QED BY <3>1, <3>2 DEF Creating, KillSteps
  <2>2. CASE BlockStep(w)
    <3>1. ASSUME NEW s \in Sid, NEW api, Create(w, s, api)
          PROVE  /\ lost' = lost /\ row' = row /\ pc[w] = "idle"
                 /\ \A r \in Sid : e2b[r] = "none" /\ e2b'[r] # "none" => Creating(w, r)'
      BY <3>1 DEF Create, Creating
    <3>2. CASE Record(w) \/ RecordFails(w) \/ Register(w) \/ EnterBody(w)
      BY <3>2 DEF Record, RecordFails, Register, EnterBody, Creating, Shape, Known
    <3>3. CASE Exit(w)
      BY <3>3 DEF Exit, LeaveBlock, Creating
    <3> QED BY <2>2, <3>1, <3>2, <3>3 DEF BlockStep, Creating
  <2>3. CASE HandleStep(w)
    <3>1. ASSUME NEW s \in Sid, PauseCall(w, s) \/ ResumeCall(w, s) \/ ExposePort(w, s)
                                \/ ClosePort(w, s) \/ AdoptCall(w, s) \/ Release(w, s)
          PROVE  /\ lost' = lost /\ row' = row /\ pc[w] \in {"idle", "body"}
                 /\ \A r \in Sid : e2b[r] = "none" => e2b'[r] = "none"
      BY <3>1 DEF PauseCall, ResumeCall, ExposePort, ClosePort, AdoptCall, Release, Holds, Live,
                  RecordForward
    <3>2. ASSUME NEW s \in Sid, NEW clone \in Sid, ForkCall(w, s, clone)
          PROVE  /\ lost' = lost /\ row' = row /\ pc[w] \in {"idle", "body"}
                 /\ \A r \in Sid : e2b[r] = "none" /\ e2b'[r] # "none" => Creating(w, r)'
      BY <3>2 DEF ForkCall, Holds, Creating
    <3>3. CASE PauseGet(w) \/ ResumeGet(w)
      BY <3>3 DEF PauseGet, ResumeGet, SetStateGet, Creating
    <3>4. CASE PausePut(w) \/ ResumePut(w)
      BY <3>4 DEF PausePut, ResumePut, Creating, Shape, CallSteps
    <3>5. CASE RecordHandle(w)
      BY <3>5 DEF RecordHandle, Creating, Shape, CallSteps
    <3> HIDE DEF Typed
    <3> QED BY <2>3, <3>1, <3>2, <3>3, <3>4, <3>5 DEF HandleStep, Creating
  <2>4. CASE InterruptStep(w)
    BY <2>4 DEF InterruptStep, InterruptCreate, InterruptRecorded, InterruptHeartbeat,
                InterruptBlock, InterruptCall,
                LeaveBlock, Creating, CallSteps, KillSteps
  <2> QED BY <1>1, <2>1, <2>2, <2>3, <2>4 DEF WorkerStep
<1>2. ASSUME NEW w \in Worker, WorkerStep(w)
      PROVE  CreationRule
  <2>1. \A v \in Worker \ {w}, s \in Sid : Creating(v, s) => Creating(v, s)'
    BY <1>2, OneMoves DEF Same, Creating
  <2> HIDE DEF Typed
  <2> QED BY <1>1, <1>2, <2>1 DEF CreationRule
<1>3. CASE Outside \/ UNCHANGED vars \/ \E j \in Janitor : JanitorStep(j)
  <2>1. \A v \in Worker, s \in Sid : Creating(v, s) => Creating(v, s)'
    BY <1>3, NoneMoves DEF Same, Creating
  <2>2. lost' = lost
    BY <1>3, NoneMoves
  <2>3. CASE Outside \/ UNCHANGED vars
    <3>1. row' = row /\ \A s \in Sid \ Foreign : e2b[s] = "none" => e2b'[s] = "none"
      BY <2>3 DEF Outside, Expire, Heartbeat, E2BTimeout, ForeignCreate, vars
    <3> QED BY <2>1, <2>2, <3>1 DEF CreationRule
  <2>4. ASSUME NEW j \in Janitor, KillStep(j)
        PROVE  CreationRule
    <3>1. /\ target[j] \in Sid
          /\ \A s \in Sid : row[s] # "none" => row'[s] # "none"
      BY <2>4 DEF Shape, KillStep, Claim, ClaimRefused, Kill, KillFails, ConfirmDead,
                  ConfirmFails, CleanGet, CleanPut, DeletePorts, KillSteps
    <3>2. \A s \in Sid : e2b[s] = "none" => e2b'[s] = "none"
      BY <2>4, <3>1 DEF Known, KillStep, Claim, ClaimRefused, Kill, KillFails, ConfirmDead,
                        ConfirmFails, CleanGet, CleanPut, DeletePorts, Connected
    <3> QED BY <2>1, <2>2, <3>1, <3>2 DEF CreationRule
  <2>5. ASSUME NEW j \in Janitor, SweepBegin(j) \/ SweepStep(j)
        PROVE  CreationRule
    <3>1. row' = row /\ e2b' = e2b
      BY <2>5 DEF SweepBegin, ReapBegin, ReconcileBegin, ShutdownBegin, Begin, SweepStep, Visit,
                  ReapStale, ReapForeign, ReconcileCleaning, ShutdownCleaning, ShutdownStale,
                  NextLoop, SweepEnd
    <3> QED BY <2>1, <2>2, <3>1 DEF CreationRule
  <2> HIDE DEF Typed
  <2> QED BY <1>3, <2>3, <2>4, <2>5 DEF JanitorStep
<1>4. ASSUME NEW p \in Process, Crash(p)
      PROVE  CreationRule
  <2>1. row' = row /\ e2b' = e2b
    BY <1>4 DEF Crash
  <2>2. lost' = lost \cup {cur[w] : w \in {v \in Worker : ProcOf[v] = p /\ pc[v] = "created"}}
                     \cup {target[w] : w \in {v \in Worker : ProcOf[v] = p /\ pc[v] = "forked"}}
    BY <1>4 DEF Crash
  <2>3. \A v \in Worker, s \in Sid : ProcOf[v] # p /\ Creating(v, s) => Creating(v, s)'
    BY <1>4, CrashMoves DEF Same, Creating
  <2>4. \A v \in Worker, s \in Sid : ProcOf[v] = p /\ Creating(v, s) => s \in lost'
    BY <2>2 DEF Creating
  <2> QED BY <2>1, <2>2, <2>3, <2>4 DEF CreationRule
<1>5. ASSUME NEW p \in Process, Restart(p)
      PROVE  CreationRule
  BY <1>5 DEF Restart, CreationRule, Creating
<1> HIDE DEF Typed
<1> QED BY <1>2, <1>3, <1>4, <1>5, Steps

Booked ==
  \A s \in Sid \ Foreign : e2b[s] \in Live /\ row[s] = "none" =>
    s \in lost \/ \E w \in Worker : Creating(w, s)

LEMMA NextBooked ==
  ASSUME Typed, Known, Booked, [Next]_vars
  PROVE  Booked'
<1> SUFFICES ASSUME NEW s \in Sid \ Foreign, e2b'[s] \in Live, row'[s] = "none"
             PROVE  s \in lost' \/ \E w \in Worker : Creating(w, s)'
  BY DEF Booked, Live
<1>1. CreationRule
  BY CreationRuleHolds
<1>2. row[s] = "none"
  BY <1>1 DEF CreationRule
<1>3. e2b[s] # "dead"
  BY E2BEvolves DEF Evolves, Live
<1>4. CASE e2b[s] = "none"
  BY <1>1, <1>4 DEF CreationRule, Live
<1>5. CASE e2b[s] \in Live
  BY <1>1, <1>2, <1>5 DEF CreationRule, Booked, Live
<1> QED BY <1>3, <1>4, <1>5 DEF Typed, TypeOK

\* Only pause() writes PAUSED.
Unpaused ==
  /\ \A s \in Sid : row[s] # "paused"
  /\ \A w \in Worker : pc[w] \notin {"pauseGet", "pausePut"}

LEMMA NextUnpaused ==
  ASSUME "pause" \notin Api, Typed, Unpaused, [Next]_vars
  PROVE  Unpaused'
<1> USE ConstantsAssumption
    DEF ConstantsAssumption, Typed, TypeOK, Thread, At, Goto, Call, Done, Base, WriteRow,
        dbVars, janitorVars
<1>1. ASSUME NEW w \in Worker, WorkerStep(w)
      PROVE  /\ \A s \in Sid : row'[s] # "paused"
             /\ pc'[w] \notin {"pauseGet", "pausePut"}
  <2>1. LeaveKill(w) => pc'[w] \notin {"pauseGet", "pausePut"}
    BY DEF LeaveKill
  <2>2. CASE KillStep(w)
    BY <2>1, <2>2 DEF KillStep, Claim, ClaimRefused, Kill, KillFails, ConfirmDead, ConfirmFails,
                      CleanGet, CleanPut, DeletePorts, Return, Raise, Unpaused
  <2>3. CASE BlockStep(w)
    BY <2>3 DEF BlockStep, Create, Record, RecordFails, Register, EnterBody, Exit, LeaveBlock,
                Unpaused
  <2>4. CASE HandleStep(w)
    BY <2>4 DEF HandleStep, PauseCall, ResumeCall, ForkCall, ExposePort, ClosePort, AdoptCall,
                Release, PauseGet, ResumeGet, SetStateGet, PausePut, ResumePut, RecordHandle,
                Unpaused
  <2>5. CASE InterruptStep(w)
    BY <2>1, <2>5 DEF InterruptStep, InterruptCreate, InterruptRecorded, InterruptHeartbeat,
                      InterruptBlock,
                      InterruptCall, LeaveBlock, Unpaused
  <2> QED BY <1>1, <2>2, <2>3, <2>4, <2>5 DEF WorkerStep
<1>2. ASSUME Outside \/ UNCHANGED vars \/ \E j \in Janitor : JanitorStep(j)
      PROVE  \A s \in Sid : row'[s] # "paused"
  <2>1. CASE Outside \/ UNCHANGED vars
    BY <2>1 DEF Outside, Expire, Heartbeat, E2BTimeout, ForeignCreate, vars, Unpaused
  <2>2. ASSUME NEW j \in Janitor, KillStep(j)
        PROVE  \A s \in Sid : row'[s] # "paused"
    BY <2>2 DEF KillStep, Claim, ClaimRefused, Kill, KillFails, ConfirmDead, ConfirmFails,
                CleanGet, CleanPut, DeletePorts, Unpaused
  <2>3. ASSUME NEW j \in Janitor, SweepBegin(j) \/ SweepStep(j)
        PROVE  \A s \in Sid : row'[s] # "paused"
    BY <2>3 DEF SweepBegin, ReapBegin, ReconcileBegin, ShutdownBegin, Begin, SweepStep, Visit,
                ReapStale, ReapForeign, ReconcileCleaning, ShutdownCleaning, ShutdownStale,
                NextLoop, SweepEnd, Unpaused
  <2> QED BY <1>2, <2>1, <2>2, <2>3 DEF JanitorStep
<1>3. ASSUME NEW p \in Process, Crash(p) \/ Restart(p)
      PROVE  Unpaused'
  <2>1. row' = row /\ \A w \in Worker : pc'[w] \in {pc[w], "idle"}
    BY <1>3 DEF Crash, Restart
  <2> QED BY <2>1 DEF Unpaused
<1> HIDE DEF Typed
<1>4. ASSUME NEW w \in Worker, WorkerStep(w)
      PROVE  Unpaused'
  BY <1>1, <1>4, OneMoves DEF Unpaused, Same
<1>5. CASE Outside \/ UNCHANGED vars \/ \E j \in Janitor : JanitorStep(j)
  BY <1>2, <1>5, NoneMoves DEF Unpaused, Same
<1> QED BY <1>3, <1>4, <1>5, Steps

\* Without pause(), every sandbox of ours that E2B bills has a RUNNING or
\* CLEANING row, which the sweeps list, or its creator is about to write the
\* first one, or died just before: failing kills, confirmations that say
\* nothing, forced kills, interrupts, crashes and E2B's own timeouts leave
\* none with a CLEANED row, and nothing deletes a row.
THEOREM NothingLiveIsForgotten ==
  ASSUME "pause" \notin Api
  PROVE  Spec => []LiveIsReapable
<1>1. Init => Known /\ Dead /\ Booked /\ Unpaused
  BY InitKnown, ConstantsAssumption
     DEF ConstantsAssumption, Init, Dead, CleanedIsDead, Confirmed, Booked, Unpaused, Live, Thread
<1>2. Typed /\ Known /\ Dead /\ Booked /\ Unpaused /\ [Next]_vars
        => Known' /\ Dead' /\ Booked' /\ Unpaused'
  BY NextKnown, NextDead, NextBooked, NextUnpaused
<1>3. Typed /\ Dead /\ Booked /\ Unpaused => LiveIsReapable
  <2> SUFFICES ASSUME Typed, Dead, Booked, Unpaused, NEW s \in Sid \ Foreign, e2b[s] \in Live,
                      row[s] \notin {"running", "cleaning"}
               PROVE  s \in lost \/ \E w \in Worker : Creating(w, s)
    BY DEF LiveIsReapable, Creating
  <2>1. row[s] = "none"
    BY DEF Typed, TypeOK, Dead, CleanedIsDead, Unpaused, Live
  <2> QED BY <2>1 DEF Booked
<1> QED BY AlwaysTyped, <1>1, <1>2, <1>3, PTL DEF Spec

-----------------------------------------------------------------------------
(* The end of a with block.  A worker that comes out of _kill_one has      *)
(* passed a point that shows its sandbox dead, or leaves a CLEANING row    *)
(* that the next sweep lists: no other thread can have taken the row of a  *)
(* sandbox this worker is killing to any other state.                      *)

Engaged ==
  \A w \in Worker :
    /\ pc[w] \in KillSteps => row[target[w]] # "none"
    /\ pc[w] \in KillSteps \ {"claim"} => row[target[w]] \in {"cleaning", "cleaned"}
    /\ \A s \in handles[w] : row[s] # "none"
    /\ pc[w] \notin {"idle", "created"} /\ cur[w] # NoSid => row[cur[w]] # "none"

\* A claimed row is taken back only by a worker that has the sandbox and is
\* not killing it.
LEMMA RowsComeBack ==
  ASSUME Typed, [Next]_vars, NEW s \in Sid, row[s] \in {"cleaning", "cleaned"},
         row'[s] \notin {"cleaning", "cleaned"}
  PROVE  \E v \in Worker : s \in Mine(v) /\ pc[v] \notin KillSteps
<1> USE DEF Typed, TypeOK, At, WriteRow, Mine
<1>1. ASSUME NEW w \in Worker, WorkerStep(w)
      PROVE  s \in Mine(w) /\ pc[w] \notin KillSteps
  <2>1. CASE KillStep(w)
    BY <2>1 DEF KillStep, Claim, ClaimRefused, Kill, KillFails, ConfirmDead, ConfirmFails,
                CleanGet, CleanPut, DeletePorts, dbVars
  <2>2. CASE BlockStep(w)
    BY <2>2 DEF BlockStep, Create, Record, RecordFails, Register, EnterBody, Exit, LeaveBlock,
                dbVars, KillSteps
  <2>3. CASE HandleStep(w)
    BY <2>3 DEF HandleStep, PauseCall, ResumeCall, ForkCall, ExposePort, ClosePort, AdoptCall,
                Release, PauseGet, ResumeGet, SetStateGet, PausePut, ResumePut, RecordHandle,
                dbVars, KillSteps
  <2>4. CASE InterruptStep(w)
    BY <2>4 DEF InterruptStep, InterruptCreate, InterruptRecorded, InterruptHeartbeat,
                InterruptBlock, InterruptCall,
                LeaveBlock, dbVars
  <2> QED BY <1>1, <2>1, <2>2, <2>3, <2>4 DEF WorkerStep
<1>2. ASSUME NEW j \in Janitor, JanitorStep(j)
      PROVE  FALSE
  <2>1. CASE KillStep(j)
    BY <2>1 DEF KillStep, Claim, ClaimRefused, Kill, KillFails, ConfirmDead, ConfirmFails,
                CleanGet, CleanPut, DeletePorts, dbVars
  <2>2. CASE SweepBegin(j) \/ SweepStep(j)
    BY <2>2 DEF SweepBegin, ReapBegin, ReconcileBegin, ShutdownBegin, Begin, SweepStep, Visit,
                ReapStale, ReapForeign, ReconcileCleaning, ShutdownCleaning, ShutdownStale,
                NextLoop, SweepEnd, dbVars
  <2> QED BY <1>2, <2>1, <2>2 DEF JanitorStep
<1>3. ~ (Outside \/ UNCHANGED vars \/ \E p \in Process : Crash(p) \/ Restart(p))
  BY DEF Outside, Expire, Heartbeat, E2BTimeout, ForeignCreate, vars, Crash, Restart, dbVars
<1> QED BY <1>1, <1>2, <1>3, Steps

LEMMA NextEngaged ==
  ASSUME Faults \cap {"interrupt", "hbstart"} = {}, Typed, Known, Owned, Engaged, [Next]_vars
  PROVE  Engaged'
<1> USE ConstantsAssumption
    DEF ConstantsAssumption, Typed, TypeOK, Thread, At, Goto, Call, Done, Base
<1>1. \A s \in Sid : row[s] # "none" => row'[s] # "none"
  BY CreationRuleHolds DEF CreationRule
<1>2. ASSUME NEW v \in Worker, NEW s \in Sid, s \in Mine(v), pc[v] \in KillSteps,
             row[s] \in {"cleaning", "cleaned"}
      PROVE  row'[s] \in {"cleaning", "cleaned"}
  <2>1. \A u \in Worker : s \in Mine(u) => u = v
    BY <1>2 DEF Owned, Separate
  <2> HIDE DEF Typed
  <2> QED BY <1>2, <2>1, RowsComeBack
<1> DEFINE EngagedAt(v) ==
      /\ pc[v] \in KillSteps => row[target[v]] # "none"
      /\ pc[v] \in KillSteps \ {"claim"} => row[target[v]] \in {"cleaning", "cleaned"}
      /\ \A s \in handles[v] : row[s] # "none"
      /\ pc[v] \notin {"idle", "created"} /\ cur[v] # NoSid => row[cur[v]] # "none"
<1>3. ASSUME NEW v \in Worker, Same(v)
      PROVE  EngagedAt(v)'
  <2>1. EngagedAt(v)
    BY DEF Engaged
  <2>2. pc[v] \in KillSteps => target[v] \in Sid /\ target[v] \in Mine(v)
    BY DEF Shape, Mine
  <2> QED BY <1>1, <1>2, <1>3, <2>1, <2>2 DEF Same
<1>4. ASSUME NEW w \in Worker, WorkerStep(w)
      PROVE  EngagedAt(w)'
  <2>0. EngagedAt(w) /\ PlacedAt(w)
    BY DEF Engaged, Owned, Placed
  <2>1. CASE KillStep(w)
    <3>1. target[w] \in Sid /\ pc[w] \in KillSteps
      BY <2>1 DEF Shape, KillStep, Claim, ClaimRefused, Kill, KillFails, ConfirmDead,
                  ConfirmFails, CleanGet, CleanPut, DeletePorts, KillSteps
    <3>2. ASSUME Return(w) \/ Raise(w)
          PROVE  EngagedAt(w)'
      <4>1. /\ pc'[w] \in {"idle", "body"} /\ handles'[w] \subseteq handles[w] \cup {target[w]}
            /\ cur'[w] \in {NoSid, cur[w]}
        <5>1. LeaveKill(w)
          BY <3>2 DEF Return, Raise
        <5> QED BY <5>1, KeptHandles DEF LeaveKill
      <4> QED BY <1>1, <2>0, <3>1, <4>1 DEF KillSteps
    <3>3. CASE Claim(w)
      <4>1. /\ pc'[w] = "kill" /\ target' = target /\ UNCHANGED workerVars
            /\ row'[target[w]] = "cleaning"
        BY <2>1, <3>1, <3>3 DEF Claim, WriteRow
      <4> QED BY <1>1, <2>0, <3>1, <4>1 DEF workerVars, KillSteps
    <3>4. ASSUME pc[w] # "claim", NEW step, Goto(w, step), UNCHANGED <<target, workerVars>>
          PROVE  EngagedAt(w)'
      <4>1. row'[target[w]] \in {"cleaning", "cleaned"}
        BY <1>2, <2>0, <3>1, <3>4 DEF Mine
      <4> QED BY <1>1, <2>0, <3>1, <3>4, <4>1 DEF workerVars, KillSteps
    <3>5. CASE Kill(w) \/ KillFails(w) \/ ConfirmDead(w)
      BY <3>4, <3>5 DEF Kill, KillFails, ConfirmDead
    <3>6. CASE CleanGet(w) \/ CleanPut(w)
      BY <3>2, <3>4, <3>6 DEF CleanGet, CleanPut
    <3>7. CASE ClaimRefused(w) \/ ConfirmFails(w) \/ DeletePorts(w)
      BY <3>2, <3>7 DEF ClaimRefused, ConfirmFails, DeletePorts
    <3> HIDE DEF EngagedAt, Typed
    <3> QED BY <2>1, <3>3, <3>5, <3>6, <3>7 DEF KillStep
  <2>2. CASE BlockStep(w)
    <3>1. ASSUME NEW s \in Sid, NEW api, Create(w, s, api)
          PROVE  EngagedAt(w)'
      BY <1>1, <2>0, <3>1 DEF Create, KillSteps
    <3>2. CASE Record(w)
      BY <1>1, <2>0, <3>2 DEF Record, WriteRow, workerVars, KillSteps, Shape
    <3>3. CASE RecordFails(w)
      BY <1>1, <2>0, <3>3 DEF RecordFails, KillSteps
    <3>4. CASE Register(w) \/ EnterBody(w)
      BY <1>1, <2>0, <3>4 DEF Register, EnterBody, workerVars, KillSteps
    <3>5. CASE Exit(w)
      BY <1>1, <2>0, <3>5 DEF Exit, LeaveBlock, workerVars, KillSteps, Shape
    <3> HIDE DEF EngagedAt, Typed
    <3> QED BY <2>2, <3>1, <3>2, <3>3, <3>4, <3>5 DEF BlockStep
  <2>3. CASE HandleStep(w)
    <3>1. ASSUME NEW s \in Sid, PauseCall(w, s) \/ ResumeCall(w, s) \/ ExposePort(w, s)
                                \/ ClosePort(w, s) \/ AdoptCall(w, s) \/ Release(w, s)
          PROVE  EngagedAt(w)'
      BY <1>1, <2>0, <3>1 DEF PauseCall, ResumeCall, ExposePort, ClosePort, AdoptCall, Release,
                              Holds, workerVars, KillSteps, PlacedAt
    <3>2. ASSUME NEW s \in Sid, NEW clone \in Sid, ForkCall(w, s, clone)
          PROVE  EngagedAt(w)'
      BY <1>1, <2>0, <3>2 DEF ForkCall, Holds, workerVars, KillSteps, PlacedAt
    <3>3. CASE PauseGet(w) \/ ResumeGet(w)
      BY <1>1, <2>0, <3>3 DEF PauseGet, ResumeGet, SetStateGet, workerVars, KillSteps
    <3>4. CASE PausePut(w) \/ ResumePut(w)
      BY <1>1, <2>0, <3>4 DEF PausePut, ResumePut, workerVars, KillSteps
    <3>5. CASE RecordHandle(w)
      <4>1. /\ pc'[w] \in {"idle", "body"} /\ cur' = cur /\ target[w] \in Sid
            /\ handles'[w] = handles[w] \cup {target[w]} /\ row'[target[w]] = "running"
            /\ pc[w] \in {"forked", "adopting"}
        BY <3>5 DEF RecordHandle, WriteRow, Shape, CallSteps
      <4> QED BY <1>1, <2>0, <4>1 DEF KillSteps
    <3> HIDE DEF EngagedAt, Typed
    <3> QED BY <2>3, <3>1, <3>2, <3>3, <3>4, <3>5 DEF HandleStep
  <2>4. ~ InterruptStep(w)
    BY DEF InterruptStep, InterruptCreate, InterruptRecorded, InterruptHeartbeat, InterruptBlock,
           InterruptCall
  <2> HIDE DEF EngagedAt, Typed
  <2> QED BY <1>4, <2>1, <2>2, <2>3, <2>4 DEF WorkerStep
<1>5. ASSUME NEW p \in Process, Crash(p), NEW v \in Worker
      PROVE  EngagedAt(v)'
  <2>1. CASE ProcOf[v] = p
    BY <1>5, <2>1, CrashMoves DEF KillSteps
  <2>2. CASE ProcOf[v] # p
    <3> HIDE DEF EngagedAt, Typed
    <3> QED BY <1>3, <1>5, <2>2, CrashMoves
  <2> QED BY <2>1, <2>2
<1>6. ASSUME NEW p \in Process, Restart(p), NEW v \in Worker
      PROVE  Same(v)
  BY <1>6 DEF Restart, Same, workerVars
<1> HIDE DEF EngagedAt, Typed
<1>7. \A v \in Worker : EngagedAt(v)'
  <2>1. CASE \E w \in Worker : WorkerStep(w)
    BY <1>3, <1>4, <2>1, OneMoves
  <2>2. CASE Outside \/ UNCHANGED vars \/ \E j \in Janitor : JanitorStep(j)
    BY <1>3, <2>2, NoneMoves
  <2> QED BY <1>3, <1>5, <1>6, <2>1, <2>2, Steps
<1> QED BY <1>7 DEF EngagedAt, Engaged

\* The step on which a worker comes out of _kill_one.
LEMMA KillEnds ==
  ASSUME Faults \cap {"interrupt", "hbstart"} = {}, Typed, Known, Dead, Unpaused, Owned, Engaged,
         [Next]_vars, NEW w \in Worker, ProcOf[w] \in up', pc[w] \in KillSteps, pc'[w] = "idle"
  PROVE  e2b'[target[w]] = "dead" \/ row'[target[w]] = "cleaning"
<1> USE ConstantsAssumption DEF ConstantsAssumption, Thread
<1>1. target[w] \in Sid
  BY DEF Typed, Shape
<1>2. ~ Same(w)
  BY DEF Same, KillSteps
<1>3. WorkerStep(w)
  <2>1. ~ (Outside \/ UNCHANGED vars \/ \E j \in Janitor : JanitorStep(j))
    BY <1>2, NoneMoves
  <2>2. \A p \in Process : ~ Crash(p)
    BY <1>2, CrashMoves DEF Crash
  <2>3. \A p \in Process : ~ Restart(p)
    BY <1>2 DEF Restart, Same, workerVars
  <2> QED BY <1>2, <2>1, <2>2, <2>3, OneMoves, Steps
<1>4. KillStep(w)
  <2>1. ~ BlockStep(w)
    BY DEF BlockStep, Create, Record, RecordFails, Register, EnterBody, Exit, At, KillSteps
  <2>2. ~ HandleStep(w)
    BY DEF HandleStep, PauseCall, ResumeCall, ForkCall, ExposePort, ClosePort, AdoptCall,
           Release, PauseGet, ResumeGet, SetStateGet, PausePut, ResumePut, RecordHandle, Holds,
           At, KillSteps, Typed, TypeOK
  <2>3. ~ InterruptStep(w)
    BY DEF InterruptStep, InterruptCreate, InterruptRecorded, InterruptHeartbeat, InterruptBlock,
           InterruptCall
  <2> QED BY <1>3, <2>1, <2>2, <2>3 DEF WorkerStep
<1>5. pc[w] \in {"cleanGet", "cleanPut", "ports"} => e2b'[target[w]] = "dead"
  BY <1>1, E2BEvolves DEF Dead, Confirmed, Evolves
<1>6. CASE ClaimRefused(w)
  <2>1. row[target[w]] = "cleaned"
    BY <1>1, <1>6 DEF ClaimRefused, At, Claimable, Engaged, KillSteps, Unpaused, Typed, TypeOK
  <2> QED BY <1>1, <2>1, E2BEvolves DEF Dead, CleanedIsDead, Evolves
<1>7. CASE ConfirmFails(w)
  <2>1. row[target[w]] \in {"cleaning", "cleaned"} /\ row' = row
    BY <1>7 DEF ConfirmFails, At, Engaged, KillSteps, dbVars
  <2> QED BY <1>1, <2>1, E2BEvolves DEF Dead, CleanedIsDead, Evolves
<1>8. CASE Claim(w) \/ Kill(w) \/ KillFails(w) \/ ConfirmDead(w)
  BY <1>8 DEF Claim, Kill, KillFails, ConfirmDead, Goto, Typed, TypeOK
<1>9. CASE CleanGet(w) \/ CleanPut(w) \/ DeletePorts(w)
  BY <1>5, <1>9 DEF CleanGet, CleanPut, DeletePorts, At
<1> QED BY <1>4, <1>6, <1>7, <1>8, <1>9 DEF KillStep

\* Without pause() and interrupts: a worker that comes out of the kill at the
\* end of its block, or of _release, leaves its sandbox dead, or its row
\* CLEANING for the next sweep, however many sweeps, forced kills and other
\* threads race it for the row, and whatever calls fail.
THEOREM BlockEndsKill ==
  ASSUME "pause" \notin Api, Faults \cap {"interrupt", "hbstart"} = {}
  PROVE  Spec => BlockEndKills
<1>1. Init => Dead /\ Unpaused /\ Engaged
  BY ConstantsAssumption
     DEF ConstantsAssumption, Init, Dead, CleanedIsDead, Confirmed, Unpaused, Engaged, KillSteps,
         Thread
<1>2. Typed /\ Known /\ Owned /\ Dead /\ Unpaused /\ Engaged /\ [Next]_vars
        => Dead' /\ Unpaused' /\ Engaged'
  BY NextDead, NextUnpaused, NextEngaged
<1>3. Typed /\ Known /\ Owned /\ Dead /\ Unpaused /\ Engaged /\ [Next]_vars
        => [\A w \in Worker :
              ProcOf[w] \in up' /\ pc[w] \in KillSteps /\ pc'[w] = "idle"
                => e2b'[target[w]] = "dead" \/ row'[target[w]] = "cleaning"]_vars
  BY KillEnds
<1> QED BY AlwaysOwned, <1>1, <1>2, <1>3, PTL DEF Spec, BlockEndKills

-----------------------------------------------------------------------------
(* Port forwards die with their sandbox.  For the applications whose held  *)
(* sandboxes are left alone, with no interrupt or crash between the last   *)
(* two writes of _kill_one.                                                *)

\* A step that neither exposes a port, nor marks a row CLEANED, nor takes a
\* thread out of the last write of _kill_one.
Aloof ==
  /\ ports' \subseteq ports
  /\ \A s \in Sid : row'[s] = "cleaned" => row[s] = "cleaned"
  /\ \A t \in Thread : pc[t] = "ports" => pc'[t] = "ports" /\ target'[t] = target[t]

LEMMA NextPorts ==
  ASSUME Plain, Faults \cap {"interrupt", "hbstart"} = {}, Mortal = {}, Typed, Kept,
  PortsDieWithSandbox,
         [Next]_vars
  PROVE  PortsDieWithSandbox'
<1> USE ConstantsAssumption
    DEF ConstantsAssumption, Typed, TypeOK, Thread, At, Goto, Call, Done, Base, WriteRow,
        dbVars, processVars, workerVars, janitorVars
<1>1. ASSUME Aloof
      PROVE  PortsDieWithSandbox'
  BY <1>1 DEF Aloof, PortsDieWithSandbox
<1>2. ASSUME NEW t \in Thread, KillStep(t)
      PROVE  PortsDieWithSandbox'
  <2>1. Return(t) \/ Raise(t) => \A u \in Thread \ {t} : pc'[u] = pc[u] /\ target'[u] = target[u]
    BY DEF Return, Raise, LeaveKill
  <2>2. CASE Claim(t) \/ Kill(t) \/ KillFails(t) \/ ConfirmDead(t)
    BY <1>1, <2>2 DEF Claim, Kill, KillFails, ConfirmDead, Aloof
  <2>3. CASE ClaimRefused(t) \/ ConfirmFails(t) \/ CleanGet(t)
    BY <1>1, <2>1, <2>3 DEF ClaimRefused, ConfirmFails, CleanGet, Aloof
  <2>4. CASE CleanPut(t)
    <3>1. ~ Forced(t)
      BY DEF Forced, Kept, Ownership
    <3>2. /\ pc[t] = "cleanPut" /\ pc' = [pc EXCEPT ![t] = "ports"] /\ target' = target
          /\ row' = [row EXCEPT ![target[t]] = "cleaned"] /\ ports' = ports
      BY <2>4, <3>1 DEF CleanPut
    <3> QED BY <3>2 DEF PortsDieWithSandbox
  <2>5. CASE DeletePorts(t)
    <3>1. ports' = ports \ {target[t]} /\ row' = row
      BY <2>5 DEF DeletePorts
    <3>2. \A u \in Thread \ {t} : pc'[u] = pc[u] /\ target'[u] = target[u]
      BY <2>1, <2>5 DEF DeletePorts
    <3> QED BY <3>1, <3>2 DEF PortsDieWithSandbox
  <2> HIDE DEF Typed
  <2> QED BY <1>2, <2>2, <2>3, <2>4, <2>5 DEF KillStep
<1>3. ASSUME NEW w \in Worker, BlockStep(w) \/ HandleStep(w) \/ InterruptStep(w)
      PROVE  PortsDieWithSandbox'
  <2>1. CASE BlockStep(w)
    BY <1>1, <2>1 DEF BlockStep, Create, Record, RecordFails, Register, EnterBody, Exit,
                      LeaveBlock, Aloof
  <2>2. ASSUME NEW s \in Sid, ExposePort(w, s)
        PROVE  PortsDieWithSandbox'
    <3>1. row[s] = "running"
      BY <2>2 DEF ExposePort, Holds, Kept, Ownership, Untouched, Owning
    <3>2. ports' = ports \cup {s} /\ UNCHANGED <<row, pc, target>>
      BY <2>2 DEF ExposePort, RecordForward
    <3> QED BY <3>1, <3>2 DEF PortsDieWithSandbox
  <2>3. ASSUME NEW s \in Sid, ClosePort(w, s)
        PROVE  PortsDieWithSandbox'
    BY <1>1, <2>3 DEF ClosePort, Aloof
  <2>4. ~ (PauseGet(w) \/ ResumeGet(w) \/ PausePut(w) \/ ResumePut(w) \/ RecordHandle(w))
    BY DEF PauseGet, ResumeGet, SetStateGet, PausePut, ResumePut, RecordHandle, CallSteps, Kept,
           Ownership
  <2>5. \A s, clone \in Sid : ~ (PauseCall(w, s) \/ ResumeCall(w, s) \/ ForkCall(w, s, clone)
                                  \/ AdoptCall(w, s) \/ Release(w, s))
    BY DEF PauseCall, ResumeCall, ForkCall, AdoptCall, Release, Plain, PlainCalls
  <2>6. ~ InterruptStep(w)
    BY DEF InterruptStep, InterruptCreate, InterruptRecorded, InterruptHeartbeat, InterruptBlock,
           InterruptCall
  <2> HIDE DEF Typed
  <2> QED BY <1>3, <2>1, <2>2, <2>3, <2>4, <2>5, <2>6 DEF HandleStep
<1>4. ASSUME NEW j \in Janitor, SweepBegin(j) \/ SweepStep(j)
      PROVE  PortsDieWithSandbox'
  BY <1>1, <1>4 DEF SweepBegin, ReapBegin, ReconcileBegin, ShutdownBegin, Begin, SweepStep,
                    Visit, ReapStale, ReapForeign, ReconcileCleaning, ShutdownCleaning,
                    ShutdownStale, NextLoop, SweepEnd, Aloof
<1>5. CASE Environment
  BY <1>1, <1>5 DEF Environment, Expire, Heartbeat, E2BTimeout, ForeignCreate, Crash, Restart,
                    Aloof
<1>6. CASE UNCHANGED vars
  BY <1>1, <1>6 DEF vars, Aloof
<1> HIDE DEF Typed
<1> QED BY <1>2, <1>3, <1>4, <1>5, <1>6 DEF Next

\* For an application of with blocks, port forwards, reaps and reconciles
\* whose heartbeats come in time, without interrupts and crashes: a row that
\* says CLEANED has no port forward left, except under a killer that is about
\* to delete them; no forward is added to a sandbox that has been cleaned.
THEOREM PortsGoWithSandbox ==
  ASSUME Plain, Faults \cap {"interrupt", "hbstart"} = {}, Mortal = {}
  PROVE  Spec => []PortsDieWithSandbox
<1>1. Init => Known /\ Kept /\ PortsDieWithSandbox
  BY InitKnown, InitKept DEF Init, PortsDieWithSandbox
<1>2. Typed /\ Known /\ Kept /\ PortsDieWithSandbox /\ [Next]_vars
        => Known' /\ Kept' /\ PortsDieWithSandbox'
  BY NextKnown, NextKept, NextPorts
<1> QED BY AlwaysTyped, <1>1, <1>2, PTL DEF Spec

-----------------------------------------------------------------------------
(* The run limiter.  A worker that has entered the body of its block has   *)
(* one permit of its process until it begins to leave the block.           *)

Inside(p) == {w \in Worker : ProcOf[w] = p /\ InBody(w)}

\* A step of a worker takes a permit as it enters its body, gives it back as
\* it leaves, and touches none otherwise.
LEMMA WorkerPermits ==
  ASSUME Typed, Owned, NEW w \in Worker, WorkerStep(w)
  PROVE  /\ \A p \in Process : p # ProcOf[w] => permits'[p] = permits[p]
         /\ \/ (InBody(w)' <=> InBody(w)) /\ permits'[ProcOf[w]] = permits[ProcOf[w]]
            \/ ~ InBody(w) /\ InBody(w)' /\ permits'[ProcOf[w]] = permits[ProcOf[w]] - 1
            \/ InBody(w) /\ ~ InBody(w)' /\ permits'[ProcOf[w]] = permits[ProcOf[w]] + 1
<1> DEFINE Calm == permits' = permits /\ InBody(w)' = InBody(w)
<1> USE ConstantsAssumption
    DEF ConstantsAssumption, Typed, TypeOK, Thread, At, Goto, Call, Done, Base, processVars,
        workerVars
<1>0. PlacedAt(w)
  BY DEF Owned, Placed
<1>1. ASSUME LeaveKill(w), pc[w] \in KillSteps \/ (pc[w] \in CallSteps /\ cur[w] = NoSid)
      PROVE  InBody(w)' = InBody(w)
  BY <1>1 DEF LeaveKill, InBody, KillSteps, CallSteps
<1>2. ASSUME NEW free \in {0, 1}, LeaveBlock(w, free), InBody(w) <=> free = 1
      PROVE  /\ \A p \in Process : p # ProcOf[w] => permits'[p] = permits[p]
             /\ permits'[ProcOf[w]] = permits[ProcOf[w]] + free
             /\ ~ InBody(w)'
  BY <1>2 DEF LeaveBlock, InBody, KillSteps, CallSteps
<1>3. CASE KillStep(w)
  <2>1. pc[w] \in KillSteps
    BY <1>3 DEF KillStep, Claim, ClaimRefused, Kill, KillFails, ConfirmDead, ConfirmFails,
                CleanGet, CleanPut, DeletePorts, KillSteps
  <2>2. Return(w) \/ Raise(w) => LeaveKill(w)
    BY DEF Return, Raise
  <2>3. ASSUME NEW step \in KillSteps, Goto(w, step), UNCHANGED <<target, workerVars>>
        PROVE  InBody(w)' = InBody(w)
    BY <2>1, <2>3 DEF InBody, KillSteps, CallSteps
  <2>4. LeaveKill(w) \/ \E step \in KillSteps : Goto(w, step) /\ UNCHANGED <<target, workerVars>>
    BY <1>3, <2>2 DEF KillStep, Claim, ClaimRefused, Kill, KillFails, ConfirmDead, ConfirmFails,
                      CleanGet, CleanPut, DeletePorts, KillSteps
  <2>5. permits' = permits
    BY <1>3 DEF KillStep, Claim, ClaimRefused, Kill, KillFails, ConfirmDead, ConfirmFails,
                CleanGet, CleanPut, DeletePorts
  <2>6. InBody(w)' = InBody(w)
    BY <1>1, <2>1, <2>3, <2>4
  <2> QED BY <2>5, <2>6
<1>4. CASE BlockStep(w)
  <2>1. ASSUME NEW s \in Sid, NEW api, Create(w, s, api)
        PROVE  Calm
    BY <2>1 DEF Create, InBody, KillSteps, CallSteps
  <2>2. Record(w) \/ RecordFails(w) \/ Register(w) => Calm
    BY DEF Record, RecordFails, Register, InBody, KillSteps, CallSteps
  <2>3. CASE EnterBody(w)
    BY <2>3 DEF EnterBody, FreePermit, InBody, Shape, KillSteps, CallSteps
  <2>4. CASE Exit(w)
    <3>1. InBody(w) /\ LeaveBlock(w, 1)
      BY <2>4 DEF Exit, InBody, Shape
    <3> QED BY <1>2, <3>1
  <2> QED BY <1>4, <2>1, <2>2, <2>3, <2>4 DEF BlockStep
<1>5. CASE HandleStep(w)
  <2>1. ASSUME NEW s \in Sid, PauseCall(w, s) \/ ResumeCall(w, s) \/ ExposePort(w, s)
                              \/ ClosePort(w, s) \/ AdoptCall(w, s) \/ Release(w, s)
        PROVE  Calm
    BY <1>0, <2>1 DEF PauseCall, ResumeCall, ExposePort, ClosePort, AdoptCall, Release, Holds,
                      PlacedAt, InBody, KillSteps, CallSteps
  <2>2. ASSUME NEW s \in Sid, NEW clone \in Sid, ForkCall(w, s, clone)
        PROVE  Calm
    BY <1>0, <2>2 DEF ForkCall, Holds, PlacedAt, InBody, KillSteps, CallSteps
  <2>3. PauseGet(w) \/ ResumeGet(w) \/ PausePut(w) \/ ResumePut(w) \/ RecordHandle(w) => Calm
    BY DEF PauseGet, ResumeGet, SetStateGet, PausePut, ResumePut, RecordHandle, InBody,
           KillSteps, CallSteps
  <2> QED BY <1>5, <2>1, <2>2, <2>3 DEF HandleStep
<1>6. CASE InterruptStep(w)
  <2>1. InterruptCreate(w) => Calm
    BY DEF InterruptCreate, InBody, KillSteps, CallSteps
  <2>2. CASE InterruptRecorded(w)
    <3>1. ~ InBody(w)
      BY <2>2 DEF InterruptRecorded, InBody, KillSteps, CallSteps
    <3>2. CASE LeaveBlock(w, 0)
      BY <1>2, <3>1, <3>2
    <3>3. CASE ~ LeaveBlock(w, 0)
      BY <2>2, <3>3 DEF InterruptRecorded, InBody, KillSteps, CallSteps
    <3> QED BY <3>2, <3>3
  <2>3. CASE InterruptBlock(w)
    <3>1. CASE pc[w] = "waiting" /\ LeaveBlock(w, 0)
      BY <1>2, <3>1 DEF InBody, KillSteps, CallSteps
    <3>2. CASE pc[w] \in CallSteps /\ LeaveBlock(w, 1)
      BY <1>2, <2>3, <3>2 DEF InterruptBlock, InBody
    <3> QED BY <2>3, <3>1, <3>2 DEF InterruptBlock
  <2>4. CASE InterruptCall(w)
    BY <1>1, <2>4 DEF InterruptCall
  <2>5. InterruptHeartbeat(w) => Calm
    BY DEF InterruptHeartbeat, InBody, KillSteps, CallSteps
  <2> QED BY <1>6, <2>1, <2>2, <2>3, <2>4, <2>5 DEF InterruptStep
<1> HIDE DEF Typed
<1> QED BY <1>3, <1>4, <1>5, <1>6 DEF WorkerStep

LEMMA NextPermits ==
  ASSUME Typed, Owned, PermitsBalance, [Next]_vars
  PROVE  PermitsBalance'
<1> USE ConstantsAssumption DEF ConstantsAssumption, Thread
<1>1. \A p \in Process : /\ permits[p] \in Nat /\ IsFiniteSet(Inside(p))
                         /\ Cardinality(Inside(p)) \in Nat
                         /\ permits[p] + Cardinality(Inside(p)) = MaxConcurrent
  <2>1. \A p \in Process : IsFiniteSet(Inside(p))
    BY WorkersFinite, FS_Subset DEF Inside
  <2> QED BY <2>1, FS_CardinalityType DEF Typed, TypeOK, PermitsBalance, Inside
<1>2. ASSUME NEW p \in Process, permits'[p] = permits[p], Inside(p)' = Inside(p)
      PROVE  permits'[p] + Cardinality(Inside(p)') = MaxConcurrent
  BY <1>1, <1>2
<1>3. ASSUME NEW w \in Worker, WorkerStep(w), NEW p \in Process
      PROVE  permits'[p] + Cardinality(Inside(p)') = MaxConcurrent
  <2>1. \A v \in Worker \ {w} : InBody(v)' = InBody(v)
    BY <1>3, OneMoves DEF Same, InBody
  <2>2. CASE p # ProcOf[w] \/ ((InBody(w)' <=> InBody(w)) /\ permits'[p] = permits[p])
    <3>1. Inside(p)' = Inside(p)
      BY <2>1, <2>2 DEF Inside
    <3> QED BY <1>2, <1>3, <2>2, <3>1, WorkerPermits
  <2>3. CASE p = ProcOf[w] /\ ~ InBody(w) /\ InBody(w)' /\ permits'[p] = permits[p] - 1
    <3>1. Inside(p)' = Inside(p) \cup {w} /\ w \notin Inside(p)
      BY <2>1, <2>3 DEF Inside
    <3>2. Cardinality(Inside(p)') = Cardinality(Inside(p)) + 1
      BY <1>1, <3>1, FS_AddElement
    <3> QED BY <1>1, <2>3, <3>2
  <2>4. CASE p = ProcOf[w] /\ InBody(w) /\ ~ InBody(w)' /\ permits'[p] = permits[p] + 1
    <3>1. Inside(p)' = Inside(p) \ {w} /\ w \in Inside(p)
      BY <2>1, <2>4 DEF Inside
    <3>2. Cardinality(Inside(p)') = Cardinality(Inside(p)) - 1
      <4>1. IsFiniteSet(Inside(p))
        BY <1>1
      <4> QED BY <3>1, <4>1, FS_RemoveElement
    <3> QED BY <1>1, <2>4, <3>2
  <2> QED BY <1>3, <2>2, <2>3, <2>4, WorkerPermits
<1>4. ASSUME Outside \/ UNCHANGED vars \/ \E j \in Janitor : JanitorStep(j), NEW p \in Process
      PROVE  permits'[p] + Cardinality(Inside(p)') = MaxConcurrent
  BY <1>2, <1>4, NoneMoves DEF Same, InBody, Inside
<1>5. ASSUME NEW q \in Process, Crash(q), NEW p \in Process
      PROVE  permits'[p] + Cardinality(Inside(p)') = MaxConcurrent
  <2>1. permits' = [permits EXCEPT ![q] = MaxConcurrent]
    BY <1>5 DEF Crash
  <2>2. CASE p = q
    <3>1. \A w \in Worker : ProcOf[w] = p => ~ InBody(w)'
      BY <1>5, <2>2, CrashMoves DEF InBody
    <3>2. Inside(p)' = {}
      BY <3>1 DEF Inside
    <3>3. permits'[p] = MaxConcurrent
      BY <2>1, <2>2 DEF Typed, TypeOK
    <3> QED BY <3>2, <3>3, FS_EmptySet
  <2>3. CASE p # q
    <3>1. Inside(p)' = Inside(p)
      BY <1>5, <2>3, CrashMoves DEF Same, InBody, Inside
    <3> QED BY <1>2, <2>1, <2>3, <3>1 DEF Typed, TypeOK
  <2> QED BY <2>2, <2>3
<1>6. ASSUME NEW q \in Process, Restart(q), NEW p \in Process
      PROVE  permits'[p] + Cardinality(Inside(p)') = MaxConcurrent
  BY <1>2, <1>6 DEF Restart, workerVars, InBody, Inside
<1>7. \A p \in Process : permits'[p] + Cardinality(Inside(p)') = MaxConcurrent
  BY <1>3, <1>4, <1>5, <1>6, Steps
<1> QED BY <1>7 DEF PermitsBalance, Inside

\* For every application and every fault: no path out of a block, by its end,
\* an interrupt at any point, a failed kill or a crash, loses or doubles a
\* permit of the run limiter.
THEOREM PermitsAreBalanced == Spec => []PermitsBalance
<1>1. Init => PermitsBalance
  <2> SUFFICES ASSUME Init, NEW p \in Process
               PROVE  permits[p] + Cardinality(Inside(p)) = MaxConcurrent
    BY DEF PermitsBalance, Inside
  <2>1. Inside(p) = {}
    BY DEF Init, Inside, InBody
  <2>2. permits[p] = MaxConcurrent
    BY DEF Init
  <2> QED BY <2>1, <2>2, FS_EmptySet, ConstantsAssumption DEF ConstantsAssumption
<1>2. Typed /\ Owned /\ PermitsBalance /\ [Next]_vars => PermitsBalance'
  BY NextPermits
<1> QED BY AlwaysOwned, <1>1, <1>2, PTL DEF Spec

=============================================================================
