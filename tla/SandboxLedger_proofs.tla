------------------------- MODULE SandboxLedger_proofs -------------------------
(***************************************************************************)
(* SandboxLifecycle implements SandboxLedger: every step of threads,       *)
(* sweeps, crashes and failing calls is a step of the books, or none.      *)
(* Excluded are pause() and resume(), whose writes may undo a sweep's, and *)
(* the purge of untracked sandboxes, which settles what was never          *)
(* recorded.                                                               *)
(***************************************************************************)
EXTENDS SandboxHolding_proofs

Excluded == {"pause", "resume", "purge"}

-----------------------------------------------------------------------------
(* What is on the books, beside the rows themselves.                       *)

\* A sandbox that is about to be recorded has no row and is not lost.
FreshRows ==
  \A w \in Worker, s \in Sid : Creating(w, s) =>
    s \notin Foreign /\ row[s] = "none" /\ s \notin lost

\* What is lost was created, and gets no row.
LostRows == \A s \in lost : s \notin Foreign /\ e2b[s] # "none" /\ row[s] = "none"

\* A killer past its claim, a forced loop and _inflight name sandboxes with rows.
KilledRows == \A t \in Thread : pc[t] \in KillSteps \ {"claim"} => row[target[t]] # "none"

ListedRows ==
  \A j \in Janitor :
    /\ job[j] # "reapForeign"
    /\ job[j] = "downInflight" => \A s \in todo[j] : row[s] # "none"

InflightRows == \A p \in Process : \A s \in inflight[p] : row[s] # "none"

\* What is adopted is foreign, and nothing is resumed.
WorkerRows ==
  \A w \in Worker :
    /\ pc[w] = "recorded" => row[cur[w]] # "none"
    /\ pc[w] = "adopting" => target[w] \in Foreign
    /\ pc[w] \notin {"resumeGet", "resumePut"}

NamedRows == KilledRows /\ ListedRows /\ InflightRows /\ WorkerRows

Recorded == FreshRows /\ LostRows /\ NamedRows

LEMMA InitRecorded == Init => Recorded
BY ConstantsAssumption
DEF ConstantsAssumption, Init, Recorded, FreshRows, LostRows, NamedRows, KilledRows, ListedRows,
    InflightRows, WorkerRows, Creating, KillSteps, Thread

\* A step that adds no name and takes its thread to no step with an obligation.
LEMMA NamedStays ==
  ASSUME Typed, NamedRows, NEW t \in Thread,
         \A s \in Sid : row[s] # "none" => row'[s] # "none",
         \A p \in Process : \A s \in inflight'[p] : s \in inflight[p] \/ row'[s] # "none",
         \A u \in Thread \ {t} : pc'[u] = pc[u] /\ target'[u] = target[u],
         \A v \in Worker \ {t} : cur'[v] = cur[v],
         \A j \in Janitor : job'[j] \in {job[j], "none"} /\ todo'[j] \subseteq todo[j],
         pc'[t] \notin (KillSteps \ {"claim"})
                       \cup {"recorded", "adopting", "resumeGet", "resumePut"}
  PROVE  NamedRows'
<1> USE ConstantsAssumption DEF ConstantsAssumption, Typed, TypeOK, Thread
<1>1. KilledRows'
  <2> SUFFICES ASSUME NEW u \in Thread, pc'[u] \in KillSteps \ {"claim"}
               PROVE  row'[target'[u]] # "none"
    BY DEF KilledRows
  <2>1. u # t /\ pc[u] \in KillSteps \ {"claim"} /\ target'[u] = target[u]
    OBVIOUS
  <2>2. target[u] \in Sid /\ row[target[u]] # "none"
    BY <2>1 DEF Shape, NamedRows, KilledRows
  <2> QED BY <2>1, <2>2
<1>2. ListedRows'
  BY DEF NamedRows, ListedRows
<1>3. InflightRows'
  BY DEF NamedRows, InflightRows
<1>4. WorkerRows'
  <2> SUFFICES ASSUME NEW v \in Worker
               PROVE  /\ pc'[v] = "recorded" => row'[cur'[v]] # "none"
                      /\ pc'[v] = "adopting" => target'[v] \in Foreign
                      /\ pc'[v] \notin {"resumeGet", "resumePut"}
    BY DEF WorkerRows
  <2>1. CASE v = t
    BY <2>1
  <2>2. CASE v # t
    <3>1. pc'[v] = pc[v] /\ target'[v] = target[v] /\ cur'[v] = cur[v]
      BY <2>2
    <3>2. pc[v] = "recorded" => cur[v] \in Sid
      BY DEF Shape
    <3> QED BY <3>1, <3>2 DEF NamedRows, WorkerRows
  <2> QED BY <2>1, <2>2
<1> QED BY <1>1, <1>2, <1>3, <1>4 DEF NamedRows

LEMMA KillStepNamed ==
  ASSUME Typed, NamedRows, NEW t \in Thread, KillStep(t),
         \A s \in Sid : row[s] # "none" => row'[s] # "none"
  PROVE  NamedRows'
<1> USE ConstantsAssumption
    DEF ConstantsAssumption, Typed, TypeOK, Thread, At, Goto, Call, Base, processVars,
        workerVars, janitorVars, NamedRows, KilledRows, ListedRows, InflightRows, WorkerRows
<1>0. target[t] \in Sid /\ pc[t] \in KillSteps
  BY DEF Shape, KillStep, Claim, ClaimRefused, Kill, KillFails, ConfirmDead, ConfirmFails,
         CleanGet, CleanPut, DeletePorts, KillSteps
<1>1. ASSUME NEW step \in KillSteps, Goto(t, step), row'[target[t]] # "none",
             UNCHANGED <<inflight, target, workerVars, janitorVars>>
      PROVE  NamedRows'
  BY <1>0, <1>1 DEF Shape, KillSteps, CallSteps
<1>2. ASSUME Return(t) \/ Raise(t)
      PROVE  NamedRows'
  <2>1. CASE t \in Worker /\ LeaveKill(t)
    <3>1. /\ \A u \in Thread \ {t} : pc'[u] = pc[u] /\ target'[u] = target[u]
          /\ \A v \in Worker \ {t} : cur'[v] = cur[v]
          /\ pc'[t] \in {"idle", "body"} /\ UNCHANGED janitorVars
      BY <2>1 DEF LeaveKill
    <3>2. \A p \in Process : inflight'[p] \subseteq inflight[p]
      BY <1>2 DEF Return, Raise
    <3> HIDE DEF Typed, NamedRows
    <3> QED BY <3>1, <3>2, NamedStays DEF KillSteps
  <2>2. CASE t \in Janitor /\ ~ (t \in Worker /\ LeaveKill(t))
    <3>1. /\ \A u \in Thread \ {t} : pc'[u] = pc[u] /\ target'[u] = target[u]
          /\ pc'[t] \in {"idle", "sweep"} /\ UNCHANGED <<inflight, workerVars>>
          /\ \A j \in Janitor : job'[j] \in {job[j], "none"} /\ todo'[j] \in {todo[j], {}}
      BY <1>2, <2>2 DEF Return, Raise
    <3> HIDE DEF Typed, NamedRows
    <3> QED BY <3>1, NamedStays DEF KillSteps
  <2> QED BY <1>2, <2>1, <2>2 DEF Return, Raise
<1>3. CASE Claim(t)
  BY <1>0, <1>1, <1>3 DEF Claim, WriteRow, KillSteps
<1>4. CASE Kill(t) \/ KillFails(t) \/ ConfirmDead(t)
  <2>1. row[target[t]] # "none"
    BY <1>4 DEF Kill, KillFails, ConfirmDead, KillSteps
  <2> QED BY <1>0, <1>1, <1>4, <2>1 DEF Kill, KillFails, ConfirmDead, KillSteps
<1>5. CASE ClaimRefused(t) \/ ConfirmFails(t) \/ DeletePorts(t)
  BY <1>2, <1>5 DEF ClaimRefused, ConfirmFails, DeletePorts
<1>6. CASE CleanGet(t) \/ CleanPut(t)
  <2>1. row[target[t]] # "none"
    BY <1>6 DEF CleanGet, CleanPut, KillSteps
  <2> QED BY <1>0, <1>1, <1>2, <1>6, <2>1 DEF CleanGet, CleanPut, KillSteps
<1> HIDE DEF Typed, NamedRows
<1> QED BY <1>3, <1>4, <1>5, <1>6 DEF KillStep

LEMMA WorkerNamed ==
  ASSUME Api \cap Excluded = {}, Typed, Unpaused, NamedRows, NEW w \in Worker,
         BlockStep(w) \/ HandleStep(w) \/ InterruptStep(w),
         \A s \in Sid : row[s] # "none" => row'[s] # "none"
  PROVE  NamedRows'
<1> USE ConstantsAssumption
    DEF ConstantsAssumption, Typed, TypeOK, Thread, At, Goto, Call, Done, Base, processVars,
        workerVars, janitorVars, NamedRows, KilledRows, ListedRows, InflightRows, WorkerRows,
        Excluded
<1>1. ASSUME inflight' = inflight, UNCHANGED janitorVars,
             \A u \in Thread \ {w} : pc'[u] = pc[u] /\ target'[u] = target[u],
             \A v \in Worker \ {w} : cur'[v] = cur[v],
             pc'[w] \notin (KillSteps \ {"claim"})
                           \cup {"recorded", "adopting", "resumeGet", "resumePut"}
      PROVE  NamedRows'
  <2> HIDE DEF Typed, NamedRows
  <2> QED BY <1>1, NamedStays DEF KillSteps
<1>2. ASSUME NEW free, LeaveBlock(w, free)
      PROVE  NamedRows'
  BY <1>1, <1>2 DEF LeaveBlock, KillSteps
<1>3. CASE BlockStep(w)
  <2>1. ASSUME NEW s \in Sid, NEW api, Create(w, s, api)
        PROVE  NamedRows'
    BY <1>1, <2>1 DEF Create, KillSteps
  <2>2. CASE Record(w)
    BY <2>2 DEF Record, WriteRow, Shape, KillSteps, CallSteps
  <2>3. CASE RecordFails(w) \/ EnterBody(w)
    BY <1>1, <2>3 DEF RecordFails, EnterBody, KillSteps
  <2>4. CASE Register(w)
    <3>1. row[cur[w]] # "none" /\ row' = row
      BY <2>4 DEF Register
    <3>2. /\ \A p \in Process : inflight'[p] \subseteq inflight[p] \cup {cur[w]}
          /\ pc' = [pc EXCEPT ![w] = "waiting"] /\ target' = target /\ cur' = cur
          /\ UNCHANGED janitorVars
      BY <2>4 DEF Register, JoinInflight
    <3> QED BY <3>1, <3>2 DEF KillSteps
  <2>5. CASE Exit(w)
    BY <1>2, <2>5 DEF Exit
  <2> HIDE DEF Typed, NamedRows
  <2> QED BY <1>3, <2>1, <2>2, <2>3, <2>4, <2>5 DEF BlockStep
<1>4. CASE HandleStep(w)
  <2>1. ASSUME NEW s \in Sid, ExposePort(w, s) \/ ClosePort(w, s)
        PROVE  NamedRows'
    BY <2>1 DEF ExposePort, ClosePort
  <2>2. ASSUME NEW s \in Sid, AdoptCall(w, s)
        PROVE  NamedRows'
    <3>1. /\ s \in Foreign /\ pc' = [pc EXCEPT ![w] = "adopting"]
          /\ target' = [target EXCEPT ![w] = s]
          /\ UNCHANGED <<row, inflight, cur, job, todo>>
      BY <2>2 DEF AdoptCall, Unpaused, dbVars
    <3> QED BY <3>1 DEF KillSteps
  <2>3. ASSUME NEW s \in Sid, Release(w, s)
        PROVE  NamedRows'
    BY <1>1, <2>3 DEF Release, KillSteps
  <2>4. ASSUME NEW s \in Sid, NEW clone \in Sid, ForkCall(w, s, clone)
        PROVE  NamedRows'
    BY <1>1, <2>4 DEF ForkCall, KillSteps
  <2>5. CASE RecordHandle(w)
    <3>1. /\ target[w] \in Sid /\ row'[target[w]] = "running"
          /\ \A p \in Process : inflight'[p] \subseteq inflight[p] \cup {target[w]}
          /\ pc'[w] \in {"idle", "body"} /\ cur' = cur /\ UNCHANGED janitorVars
          /\ \A u \in Thread \ {w} : pc'[u] = pc[u] /\ target'[u] = target[u]
      BY <2>5 DEF RecordHandle, JoinInflight, WriteRow, Shape, CallSteps
    <3> HIDE DEF Typed, NamedRows
    <3> QED BY <3>1, NamedStays DEF KillSteps
  <2>6. ~ (PauseGet(w) \/ ResumeGet(w) \/ PausePut(w) \/ ResumePut(w))
    BY DEF PauseGet, ResumeGet, SetStateGet, PausePut, ResumePut, Unpaused
  <2>7. \A s \in Sid : ~ (PauseCall(w, s) \/ ResumeCall(w, s))
    BY DEF PauseCall, ResumeCall
  <2> HIDE DEF Typed, NamedRows
  <2> QED BY <1>4, <2>1, <2>2, <2>3, <2>4, <2>5, <2>6, <2>7 DEF HandleStep
<1>5. CASE InterruptStep(w)
  <2>1. CASE InterruptCreate(w)
    BY <1>1, <2>1 DEF InterruptCreate, KillSteps
  <2>5. CASE InterruptHeartbeat(w) \/ (InterruptRecorded(w) /\ ~ LeaveBlock(w, 0))
    <3>1. row[cur[w]] # "none" /\ row' = row
      BY <2>5 DEF InterruptHeartbeat, InterruptRecorded, dbVars
    <3>2. \A p \in Process : inflight'[p] \subseteq inflight[p] \cup {cur[w]}
      BY <2>5, JoinGrows DEF InterruptHeartbeat, InterruptRecorded
    <3>3. pc'[w] \in {"claim", "idle"} /\ UNCHANGED janitorVars
      BY <2>5 DEF InterruptHeartbeat, InterruptRecorded
    <3>4. /\ \A u \in Thread \ {w} : pc'[u] = pc[u] /\ target'[u] = target[u]
          /\ \A v \in Worker \ {w} : cur'[v] = cur[v]
      BY <2>5 DEF InterruptHeartbeat, InterruptRecorded
    <3>5. \A p \in Process : \A s \in inflight'[p] : s \in inflight[p] \/ row'[s] # "none"
      BY <3>1, <3>2
    <3> HIDE DEF Typed, NamedRows
    <3> QED BY <3>1, <3>3, <3>4, <3>5, NamedStays DEF KillSteps
  <2>2. CASE InterruptRecorded(w)
    BY <1>2, <2>2, <2>5
  <2>3. CASE InterruptBlock(w)
    BY <1>2, <2>3 DEF InterruptBlock
  <2>4. CASE InterruptCall(w)
    BY <1>1, <2>4 DEF InterruptCall, LeaveKill, KillSteps
  <2> HIDE DEF Typed, NamedRows
  <2> QED BY <1>5, <2>1, <2>2, <2>3, <2>4, <2>5 DEF InterruptStep
<1> HIDE DEF Typed, NamedRows
<1> QED BY <1>3, <1>4, <1>5

LEMMA SweepNamed ==
  ASSUME Api \cap Excluded = {}, Typed, NamedRows, NEW j \in Janitor,
         SweepBegin(j) \/ SweepStep(j)
  PROVE  NamedRows'
<1> USE ConstantsAssumption
    DEF ConstantsAssumption, Typed, TypeOK, Thread, At, Goto, Call, dbVars, processVars,
        workerVars, janitorVars, NamedRows, KilledRows, ListedRows, InflightRows, WorkerRows,
        Excluded
<1>1. CASE SweepBegin(j)
  <2>1. ASSUME NEW loop, NEW list, Begin(j, loop, list), loop # "reapForeign",
               loop = "downInflight" => \A s \in list : row[s] # "none"
        PROVE  NamedRows'
    BY <2>1 DEF Begin, KillSteps
  <2>2. CASE ShutdownBegin(j)
    <3>1. \A s \in inflight[ProcOf[j]] : row[s] # "none"
      OBVIOUS
    <3> QED BY <2>1, <2>2, <3>1 DEF ShutdownBegin
  <2> HIDE DEF Typed, NamedRows
  <2>3. CASE ReapBegin(j) \/ ReconcileBegin(j)
    BY <2>1, <2>3 DEF ReapBegin, ReconcileBegin
  <2> QED BY <1>1, <2>2, <2>3 DEF SweepBegin
<1>2. ASSUME NEW s \in Sid, Visit(j, s)
      PROVE  NamedRows'
  BY <1>2 DEF Visit, Forced, ForcedLoops, KillSteps
<1>3. CASE ReapStale(j) \/ ReconcileCleaning(j) \/ ShutdownStale(j)
  BY <1>3 DEF ReapStale, ReconcileCleaning, ShutdownStale, NextLoop
<1>4. CASE ShutdownCleaning(j)
  BY <1>4 DEF ShutdownCleaning, NextLoop
<1>5. ~ ReapForeign(j)
  BY DEF ReapForeign
<1>6. CASE SweepEnd(j)
  BY <1>6 DEF SweepEnd, KillSteps
<1> HIDE DEF Typed, NamedRows
<1> QED BY <1>1, <1>2, <1>3, <1>4, <1>5, <1>6 DEF SweepStep

LEMMA NextNamed ==
  ASSUME Api \cap Excluded = {}, Typed, Known, Unpaused, NamedRows, [Next]_vars
  PROVE  NamedRows'
<1>1. \A s \in Sid : row[s] # "none" => row'[s] # "none"
  BY CreationRuleHolds DEF CreationRule
<1>2. CASE Environment
  <2>1. CASE Outside
    BY <2>1 DEF Outside, Expire, Heartbeat, E2BTimeout, ForeignCreate, dbVars, processVars,
                workerVars, janitorVars, NamedRows, KilledRows, ListedRows, InflightRows,
                WorkerRows
  <2>2. ASSUME NEW p \in Process, Crash(p)
        PROVE  NamedRows'
    <3>1. /\ \A t \in Thread : pc'[t] = "idle" \/ (pc'[t] = pc[t] /\ target'[t] = target[t])
          /\ \A w \in Worker : pc'[w] = "idle" \/ cur'[w] = cur[w]
          /\ \A j \in Janitor : job'[j] \in {job[j], "none"} /\ todo'[j] \subseteq todo[j]
          /\ \A q \in Process : inflight'[q] \subseteq inflight[q]
          /\ row' = row
      BY <2>2, ConstantsAssumption
         DEF Crash, ConstantsAssumption, Thread, Typed, TypeOK, dbVars
    <3> QED BY <3>1 DEF NamedRows, KilledRows, ListedRows, InflightRows, WorkerRows, KillSteps,
                        Thread
  <2>3. ASSUME NEW p \in Process, Restart(p)
        PROVE  NamedRows'
    BY <2>3 DEF Restart, dbVars, workerVars, janitorVars, NamedRows, KilledRows, ListedRows,
                InflightRows, WorkerRows
  <2> QED BY <1>2, <2>1, <2>2, <2>3 DEF Environment, Outside
<1>3. CASE UNCHANGED vars
  BY <1>3 DEF vars, dbVars, processVars, workerVars, janitorVars, NamedRows, KilledRows,
              ListedRows, InflightRows, WorkerRows
<1> QED BY <1>1, <1>2, <1>3, KillStepNamed, WorkerNamed, SweepNamed DEF Next

-----------------------------------------------------------------------------
(* A creation ends on the step that writes the row or loses the sandbox.   *)

Ends(v, s) == Creating(v, s) /\ ~ Creating(v, s)'

FirstWrites ==
  /\ \A w \in Worker, s \in Sid : Creating(w, s)' =>
       Creating(w, s) \/ (e2b[s] = "none" /\ s \notin Foreign)
  /\ \A s \in Sid : row[s] = "none" /\ row'[s] # "none" =>
       s \in Foreign \/ \E v \in Worker : Ends(v, s)
  /\ \A s \in lost' : s \in lost \/ (row' = row /\ \E v \in Worker : Ends(v, s))

LEMMA FirstWritesHold ==
  ASSUME Api \cap Excluded = {}, Typed, Known, Unpaused, NamedRows, [Next]_vars
  PROVE  FirstWrites
<1> USE ConstantsAssumption
    DEF ConstantsAssumption, Typed, TypeOK, Thread, At, Goto, Call, Done, Base, WriteRow,
        dbVars, processVars, workerVars, janitorVars
<1> DEFINE First(w) ==
      /\ \A s \in Sid : Creating(w, s)' => Creating(w, s) \/ (e2b[s] = "none" /\ s \notin Foreign)
      /\ \A s \in Sid : row[s] = "none" /\ row'[s] # "none" => s \in Foreign \/ Ends(w, s)
      /\ \A s \in lost' : s \in lost \/ (row' = row /\ Ends(w, s))
<1>1. ASSUME NEW t \in Thread, KillStep(t)
      PROVE  /\ \A s \in Sid : row[s] = "none" => row'[s] = "none"
             /\ lost' = lost
  <2>1. pc[t] \in KillSteps \ {"claim"} => row[target[t]] # "none"
    BY DEF NamedRows, KilledRows
  <2> QED BY <1>1, <2>1 DEF KillStep, Claim, ClaimRefused, Kill, KillFails, ConfirmDead,
                            ConfirmFails, CleanGet, CleanPut, DeletePorts, KillSteps, Claimable
<1>2. ASSUME NEW w \in Worker, WorkerStep(w)
      PROVE  First(w)
  <2>1. CASE KillStep(w)
    <3>1. pc'[w] \notin {"created", "forked"}
      BY <2>1 DEF KillStep, Claim, ClaimRefused, Kill, KillFails, ConfirmDead, ConfirmFails,
                  CleanGet, CleanPut, DeletePorts, Return, Raise, LeaveKill
    <3> QED BY <1>1, <2>1, <3>1 DEF Creating
  <2>2. CASE BlockStep(w)
    <3>1. ASSUME NEW s \in Sid, NEW api, Create(w, s, api)
          PROVE  First(w)
      BY <3>1 DEF Create, Creating
    <3>2. CASE Record(w) \/ RecordFails(w) \/ Register(w) \/ EnterBody(w)
      BY <3>2 DEF Record, RecordFails, Register, EnterBody, Creating, Ends
    <3>3. CASE Exit(w)
      BY <3>3 DEF Exit, LeaveBlock, Creating
    <3> HIDE DEF Typed, First
    <3> QED BY <2>2, <3>1, <3>2, <3>3 DEF BlockStep
  <2>3. CASE HandleStep(w)
    <3>1. ASSUME NEW s \in Sid, PauseCall(w, s) \/ ResumeCall(w, s) \/ ExposePort(w, s)
                                \/ ClosePort(w, s) \/ AdoptCall(w, s) \/ Release(w, s)
          PROVE  First(w)
      BY <3>1 DEF PauseCall, ResumeCall, ExposePort, ClosePort, AdoptCall, Release, Holds,
                  Creating
    <3>2. ASSUME NEW s \in Sid, NEW clone \in Sid, ForkCall(w, s, clone)
          PROVE  First(w)
      BY <3>2 DEF ForkCall, Holds, Creating
    <3>3. ~ (PauseGet(w) \/ PausePut(w) \/ ResumeGet(w) \/ ResumePut(w))
      BY DEF PauseGet, ResumeGet, SetStateGet, PausePut, ResumePut, Unpaused, NamedRows,
             WorkerRows
    <3>4. CASE RecordHandle(w)
      <4>1. pc[w] = "adopting" => target[w] \in Foreign
        BY DEF NamedRows, WorkerRows
      <4> QED BY <3>4, <4>1 DEF RecordHandle, Creating, Ends
    <3> HIDE DEF Typed, First
    <3> QED BY <2>3, <3>1, <3>2, <3>3, <3>4 DEF HandleStep
  <2>4. CASE InterruptStep(w)
    <3>1. CASE InterruptCreate(w) \/ InterruptRecorded(w) \/ InterruptHeartbeat(w)
      BY <3>1 DEF InterruptCreate, InterruptRecorded, InterruptHeartbeat, LeaveBlock, Creating,
                  Ends
    <3>2. CASE InterruptBlock(w)
      BY <3>2 DEF InterruptBlock, LeaveBlock, Creating, Ends
    <3>3. CASE InterruptCall(w)
      BY <3>3 DEF InterruptCall, LeaveKill, Creating, Ends
    <3> HIDE DEF Typed, First
    <3> QED BY <2>4, <3>1, <3>2, <3>3 DEF InterruptStep
  <2> HIDE DEF Typed, First
  <2> QED BY <1>2, <2>1, <2>2, <2>3, <2>4 DEF WorkerStep
<1>3. ASSUME NEW w \in Worker, WorkerStep(w)
      PROVE  FirstWrites
  <2>1. \A v \in Worker \ {w}, s \in Sid : Creating(v, s)' = Creating(v, s)
    BY <1>3, OneMoves DEF Same, Creating
  <2> HIDE DEF Typed
  <2> QED BY <1>2, <1>3, <2>1 DEF FirstWrites
<1>4. CASE Outside \/ UNCHANGED vars \/ \E j \in Janitor : JanitorStep(j)
  <2>1. /\ \A v \in Worker, s \in Sid : Creating(v, s)' = Creating(v, s)
        /\ lost' = lost
    BY <1>4, NoneMoves DEF Same, Creating
  <2>2. \A s \in Sid : row[s] = "none" => row'[s] = "none"
    <3>1. CASE Outside \/ UNCHANGED vars
      BY <3>1 DEF Outside, Expire, Heartbeat, E2BTimeout, ForeignCreate, vars
    <3>2. ASSUME NEW j \in Janitor, SweepBegin(j) \/ SweepStep(j)
          PROVE  row' = row
      BY <3>2 DEF SweepBegin, ReapBegin, ReconcileBegin, ShutdownBegin, Begin, SweepStep, Visit,
                  ReapStale, ReapForeign, ReconcileCleaning, ShutdownCleaning, ShutdownStale,
                  NextLoop, SweepEnd
    <3> HIDE DEF Typed
    <3> QED BY <1>1, <1>4, <3>1, <3>2 DEF JanitorStep, Thread
  <2> HIDE DEF Typed
  <2> QED BY <2>1, <2>2 DEF FirstWrites
<1>5. ASSUME NEW p \in Process, Crash(p)
      PROVE  FirstWrites
  <2>1. row' = row
    BY <1>5 DEF Crash
  <2>2. lost' = lost \cup {cur[w] : w \in {v \in Worker : ProcOf[v] = p /\ pc[v] = "created"}}
                     \cup {target[w] : w \in {v \in Worker : ProcOf[v] = p /\ pc[v] = "forked"}}
    BY <1>5 DEF Crash
  <2>3. \A v \in Worker, s \in Sid : ProcOf[v] # p => Creating(v, s)' = Creating(v, s)
    BY <1>5, CrashMoves DEF Same, Creating
  <2>4. \A v \in Worker, s \in Sid : ProcOf[v] = p => ~ Creating(v, s)'
    BY <1>5, CrashMoves DEF Creating
  <2>5. \A s \in lost' : s \in lost \/ \E v \in Worker : ProcOf[v] = p /\ Creating(v, s)
    BY <2>2 DEF Creating
  <2>6. lost' \subseteq Sid
    BY <2>2 DEF Shape, CallSteps
  <2> QED BY <2>1, <2>3, <2>4, <2>5, <2>6 DEF FirstWrites, Ends
<1>6. ASSUME NEW p \in Process, Restart(p)
      PROVE  FirstWrites
  BY <1>6 DEF Restart, FirstWrites, Creating
<1> HIDE DEF Typed
<1> QED BY <1>3, <1>4, <1>5, <1>6, Steps

LEMMA NextRecorded ==
  ASSUME Api \cap Excluded = {}, Typed, Known, Owned, Unpaused, Recorded, [Next]_vars
  PROVE  Recorded'
<1>1. FirstWrites
  BY FirstWritesHold DEF Recorded
<1>2. \A s \in Sid : e2b[s] # "none" => e2b'[s] # "none"
  BY E2BEvolves DEF Evolves
<1>3. \A v, w \in Worker, s \in Sid : Creating(v, s) /\ Creating(w, s) => v = w
  BY DEF Creating, Mine, Owned, Separate
<1>4. \A w \in Worker, s \in Sid : Creating(w, s) => e2b[s] # "none"
  BY DEF Creating, Known, Thread
<1>5. FreshRows'
  <2> SUFFICES ASSUME NEW w \in Worker, NEW s \in Sid, Creating(w, s)'
               PROVE  s \notin Foreign /\ row'[s] = "none" /\ s \notin lost'
    BY DEF FreshRows
  <2>1. \A v \in Worker : ~ Ends(v, s)
    BY <1>1, <1>3, <1>4 DEF FirstWrites, Ends
  <2>2. CASE Creating(w, s)
    <3>1. s \notin Foreign /\ row[s] = "none" /\ s \notin lost
      BY <2>2 DEF Recorded, FreshRows
    <3> QED BY <1>1, <2>1, <3>1 DEF FirstWrites
  <2>3. CASE e2b[s] = "none" /\ s \notin Foreign
    <3>1. row[s] = "none" /\ s \notin lost
      BY <2>3 DEF Known, Recorded, LostRows
    <3> QED BY <1>1, <2>1, <2>3, <3>1 DEF FirstWrites
  <2> QED BY <1>1, <2>2, <2>3 DEF FirstWrites
<1>6. LostRows'
  <2> SUFFICES ASSUME NEW s \in lost'
               PROVE  s \notin Foreign /\ e2b'[s] # "none" /\ row'[s] = "none"
    BY DEF LostRows
  <2>1. CASE s \in lost
    <3>1. s \in Sid /\ s \notin Foreign /\ e2b[s] # "none" /\ row[s] = "none"
      BY <2>1 DEF Typed, TypeOK, Recorded, LostRows
    <3>2. \A v \in Worker : ~ Creating(v, s)
      BY <2>1, <3>1 DEF Recorded, FreshRows
    <3> QED BY <1>1, <1>2, <3>1, <3>2 DEF FirstWrites, Ends
  <2>2. CASE row' = row /\ \E v \in Worker : Ends(v, s)
    <3>1. PICK v \in Worker : Creating(v, s)
      BY <2>2 DEF Ends
    <3>2. s \in Sid
      BY <3>1 DEF Creating, Typed, Shape, CallSteps
    <3> QED BY <1>2, <1>4, <2>2, <3>1, <3>2 DEF Recorded, FreshRows
  <2> QED BY <1>1, <2>1, <2>2 DEF FirstWrites
<1>7. NamedRows'
  BY NextNamed DEF Recorded
<1> QED BY <1>5, <1>6, <1>7 DEF Recorded

-----------------------------------------------------------------------------
(* The refinement mapping.  The account of a sandbox depends on its row,   *)
(* on whether it was ever created, on lost, and on its creator.            *)

Books(s) ==
  /\ row[s] = "cleaned" => Account(s) = "settled"
  /\ row[s] \notin {"none", "cleaned"} => Account(s) = "tracked"
  /\ row[s] = "none" /\ e2b[s] = "none" => Account(s) = "absent"
  /\ row[s] = "none" /\ e2b[s] # "none" /\ s \in lost => Account(s) = "lost"
  /\ row[s] = "none" /\ e2b[s] # "none" /\ s \notin lost =>
       Account(s) = IF AboutToRecord(s) THEN "pending" ELSE "dropped"

LEMMA BooksHold == ASSUME NEW s PROVE Books(s) /\ Books(s)'
<1>1. Books(s)
  BY DEF Books, Account
<1>2. Books(s)'
  BY DEF Books, Account
<1> QED BY <1>1, <1>2

\* A step that leaves the account of s alone, and one that leaves its bill alone.
Calm(s) ==
  /\ row'[s] = row[s] \/ {row[s], row'[s]} \cap {"none", "cleaned"} = {}
  /\ e2b'[s] = "none" <=> e2b[s] = "none"
  /\ s \in lost' <=> s \in lost
  /\ AboutToRecord(s)' <=> AboutToRecord(s)

Paid(s) == e2b'[s] \in Live <=> e2b[s] \in Live

LEMMA CalmKeeps == ASSUME NEW s, Calm(s) PROVE Account(s)' = Account(s)
<1>1. Books(s) /\ Books(s)'
  BY BooksHold
<1>2. CASE row[s] # "none" /\ row'[s] # "none"
  BY <1>1, <1>2 DEF Books, Calm
<1>3. CASE row[s] = "none" /\ row'[s] = "none"
  <2>1. CASE e2b[s] = "none" \/ s \in lost
    BY <1>1, <1>3, <2>1 DEF Books, Calm
  <2>2. CASE e2b[s] # "none" /\ s \notin lost
    BY <1>1, <1>3, <2>2 DEF Books, Calm
  <2> QED BY <2>1, <2>2
<1> QED BY <1>2, <1>3 DEF Calm

\* A step that moves the accounts of S and no other.
LEMMA Enters ==
  ASSUME NEW S, S \subseteq Own, NEW from, NEW to,
         \A s \in S : Account(s) = from /\ Account(s)' = to, \A s \in Own \ S : Calm(s)
  PROVE  Ledger!Enter(S, from, to)
BY CalmKeeps DEF Ledger!Enter

LEMMA Stutters ==
  ASSUME \A s \in Own : Calm(s) /\ Paid(s)
  PROVE  UNCHANGED <<[s \in Own |-> Account(s)], {s \in Own : e2b[s] \in Live}>>
<1>1. [s \in Own |-> Account(s)]' = [s \in Own |-> Account(s)]
  BY CalmKeeps DEF Own
<1>2. {s \in Own : e2b[s] \in Live}' = {s \in Own : e2b[s] \in Live}
  BY DEF Paid, Own
<1> QED BY <1>1, <1>2

AbstractStep ==
  [Ledger!Next]_<<[s \in Own |-> Account(s)], {s \in Own : e2b[s] \in Live}>>

LEMMA Stops ==
  ASSUME NEW s \in Own, e2b[s] \in Live, e2b' = [e2b EXCEPT ![s] = "dead"],
         \A r \in Own : Calm(r), Typed
  PROVE  AbstractStep
<1>1. UNCHANGED [r \in Own |-> Account(r)]
  BY CalmKeeps DEF Own
<1>2. {r \in Own : e2b[r] \in Live}' = {r \in Own : e2b[r] \in Live} \ {s}
  BY DEF Typed, TypeOK, Own, Live
<1>3. Ledger!Stop(s)
  BY <1>1, <1>2 DEF Ledger!Stop
<1> QED BY <1>3 DEF AbstractStep, Ledger!Next

\* The creators beside w are the same after a step of w.
LEMMA AboutMoves ==
  ASSUME NEW w \in Worker, \A v \in Worker \ {w} : Same(v), NEW s,
         Creating(w, s)' <=> Creating(w, s)
  PROVE  AboutToRecord(s)' <=> AboutToRecord(s)
<1>1. AboutToRecord(s) <=> \E v \in Worker : Creating(v, s)
  BY DEF AboutToRecord, Creating
<1>2. AboutToRecord(s)' <=> \E v \in Worker : Creating(v, s)'
  BY DEF AboutToRecord, Creating
<1>3. \A v \in Worker \ {w} : Creating(v, s)' <=> Creating(v, s)
  BY DEF Same, Creating
<1> QED BY <1>1, <1>2, <1>3

\* E2B hands out a new sandbox.
LEMMA Starts ==
  ASSUME Typed, Known, Recorded, NEW w \in Worker, \A v \in Worker \ {w} : Same(v),
         NEW s \in Own, e2b[s] = "none", e2b' = [e2b EXCEPT ![s] = "running"],
         row' = row, lost' = lost, Creating(w, s)',
         \A r : r # s => (Creating(w, r)' <=> Creating(w, r))
  PROVE  AbstractStep
<1> USE DEF Typed, TypeOK
<1>1. s \in Sid /\ row[s] = "none" /\ s \notin lost
  BY DEF Own, Known, Recorded, LostRows
<1>2. Account(s) = "absent" /\ Account(s)' = "pending"
  <2>1. Books(s) /\ Books(s)'
    BY BooksHold
  <2>2. AboutToRecord(s)'
    BY DEF AboutToRecord, Creating
  <2> QED BY <1>1, <2>1, <2>2 DEF Books
<1>3. \A r \in Own \ {s} : Calm(r)
  BY AboutMoves DEF Calm, Own
<1>4. Ledger!Enter({s}, "absent", "pending")
  BY <1>2, <1>3, Enters
<1>5. {r \in Own : e2b[r] \in Live}' = {r \in Own : e2b[r] \in Live} \cup {s}
  BY <1>1 DEF Own, Live
<1>6. Ledger!Start(s)
  BY <1>4, <1>5 DEF Ledger!Start
<1> QED BY <1>6 DEF AbstractStep, Ledger!Next

\* A creation ends: the row is written, the creator is lost, or it gives the
\* sandbox up and kills it.
LEMMA EndsWell ==
  ASSUME Typed, Known, Owned, Recorded, NEW w \in Worker, \A v \in Worker \ {w} : Same(v),
         NEW s \in Sid, Ends(w, s), \A r : r # s => (Creating(w, r)' <=> Creating(w, r)),
         \/ row' = [row EXCEPT ![s] = "running"] /\ lost' = lost /\ e2b' = e2b
         \/ row' = row /\ lost' = lost \cup {s} /\ e2b' = e2b
         \/ row' = row /\ lost' = lost /\ e2b' = [e2b EXCEPT ![s] = "dead"]
  PROVE  AbstractStep
<1> USE DEF Typed, TypeOK
<1>1. s \in Own /\ row[s] = "none" /\ s \notin lost /\ e2b[s] # "none"
  BY DEF Ends, Creating, Known, Recorded, FreshRows, Own, Thread
<1>2. AboutToRecord(s) /\ ~ AboutToRecord(s)'
  <2>1. \A v \in Worker \ {w} : ~ Creating(v, s)
    BY DEF Ends, Creating, Mine, Owned, Separate
  <2>2. \A v \in Worker \ {w} : ~ Creating(v, s)'
    BY <2>1 DEF Creating, Same
  <2>3. AboutToRecord(s)
    BY DEF AboutToRecord, Ends, Creating
  <2>4. AboutToRecord(s)' <=> \E v \in Worker : Creating(v, s)'
    BY DEF AboutToRecord, Creating
  <2> QED BY <2>2, <2>3, <2>4 DEF Ends
<1>3. Books(s) /\ Books(s)'
  BY BooksHold
<1>4. Account(s) = "pending"
  BY <1>1, <1>2, <1>3 DEF Books
<1>5. \A r \in Own \ {s} : Calm(r)
  BY AboutMoves DEF Calm, Own
<1>6. CASE row' = [row EXCEPT ![s] = "running"] /\ lost' = lost /\ e2b' = e2b
  <2>1. Account(s)' = "tracked"
    BY <1>3, <1>6 DEF Books
  <2>2. Ledger!Enter({s}, "pending", "tracked")
    BY <1>1, <1>4, <1>5, <2>1, Enters
  <2>3. Ledger!Track(s)
    BY <1>6, <2>2 DEF Ledger!Track
  <2> QED BY <1>1, <2>3 DEF AbstractStep, Ledger!Next
<1>7. CASE row' = row /\ lost' = lost \cup {s} /\ e2b' = e2b
  <2>1. Account(s)' = "lost"
    BY <1>1, <1>3, <1>7 DEF Books
  <2>2. Ledger!Enter({s}, "pending", "lost")
    BY <1>1, <1>4, <1>5, <2>1, Enters
  <2>3. Ledger!Lose({s})
    BY <1>7, <2>2 DEF Ledger!Lose
  <2>4. {s} \in SUBSET Own
    BY <1>1
  <2> QED BY <2>3, <2>4 DEF AbstractStep, Ledger!Next
<1>8. CASE row' = row /\ lost' = lost /\ e2b' = [e2b EXCEPT ![s] = "dead"]
  <2>1. Account(s)' = "dropped"
    BY <1>1, <1>2, <1>3, <1>8 DEF Books
  <2>2. Ledger!Enter({s}, "pending", "dropped")
    BY <1>1, <1>4, <1>5, <2>1, Enters
  <2>3. {r \in Own : e2b[r] \in Live}' = {r \in Own : e2b[r] \in Live} \ {s}
    BY <1>8 DEF Own, Live
  <2>4. Ledger!Drop(s)
    BY <2>2, <2>3 DEF Ledger!Drop
  <2> QED BY <1>1, <2>4 DEF AbstractStep, Ledger!Next
<1> QED BY <1>6, <1>7, <1>8

\* A row is marked CLEANED.
LEMMA Settles ==
  ASSUME Typed, NEW s \in Own, row[s] \notin {"none", "cleaned"}, e2b[s] \notin Live,
         row' = [row EXCEPT ![s] = "cleaned"], e2b' = e2b, lost' = lost,
         \A r : AboutToRecord(r)' <=> AboutToRecord(r)
  PROVE  AbstractStep
<1> USE DEF Typed, TypeOK
<1>1. Books(s) /\ Books(s)' /\ s \in Sid
  BY BooksHold DEF Own
<1>2. Account(s) = "tracked"
  BY <1>1 DEF Books
<1>3. Account(s)' = "settled"
  BY <1>1 DEF Books
<1>4. \A r \in Own \ {s} : Calm(r)
  BY DEF Calm, Own
<1>5. Ledger!Enter({s}, "tracked", "settled")
  BY <1>2, <1>3, <1>4, Enters
<1>6. Ledger!Settle(s)
  BY <1>5 DEF Ledger!Settle
<1> QED BY <1>6 DEF AbstractStep, Ledger!Next

\* A step that moves no account and no bill.
LEMMA Rests ==
  ASSUME \A s \in Own : Calm(s) /\ Paid(s)
  PROVE  AbstractStep
BY Stutters DEF AbstractStep

-----------------------------------------------------------------------------
(* Every step is one of these.                                             *)

LEMMA KillBooked ==
  ASSUME Typed, Known, Dead, Unpaused, Recorded, NEW t \in Thread, KillStep(t)
  PROVE  AbstractStep
<1> USE DEF Typed, TypeOK
<1>1. target[t] \in Sid /\ e2b[target[t]] # "none"
  BY DEF Shape, Known, KillStep, At, Claim, ClaimRefused, Kill, KillFails, ConfirmDead,
         ConfirmFails, CleanGet, CleanPut, DeletePorts, KillSteps
<1>2. lost' = lost
  BY DEF KillStep, Claim, ClaimRefused, Kill, KillFails, ConfirmDead, ConfirmFails, CleanGet,
         CleanPut, DeletePorts
<1>3. \A s : AboutToRecord(s)' <=> AboutToRecord(s)
  <2>1. CASE t \in Worker
    <3>1. pc[t] \notin {"created", "forked"}
      BY DEF KillStep, At, Claim, ClaimRefused, Kill, KillFails, ConfirmDead, ConfirmFails,
             CleanGet, CleanPut, DeletePorts
    <3>2. pc'[t] \notin {"created", "forked"}
      BY ConstantsAssumption
         DEF ConstantsAssumption, Thread, KillStep, Claim, ClaimRefused, Kill, KillFails,
             ConfirmDead, ConfirmFails, CleanGet, CleanPut, DeletePorts, Return, Raise, LeaveKill,
             Goto, Call, Base
    <3>3. \A s : ~ Creating(t, s) /\ ~ Creating(t, s)'
      BY <3>1, <3>2 DEF Creating
    <3> HIDE DEF Typed
    <3>4. \A v \in Worker \ {t} : Same(v)
      BY <2>1, OneMoves DEF WorkerStep
    <3> QED BY <2>1, <3>3, <3>4, AboutMoves
  <2>2. CASE t \in Janitor
    <3> HIDE DEF Typed
    <3>1. \A v \in Worker : Same(v)
      BY <2>2, NoneMoves DEF JanitorStep
    <3> QED BY <3>1 DEF AboutToRecord, Same
  <2> QED BY <2>1, <2>2 DEF Thread
<1>4. ASSUME row' = row, \/ e2b' = e2b
                         \/ e2b' = [e2b EXCEPT ![target[t]] = Connected(@)]
      PROVE  AbstractStep
  <2>1. \A s \in Own : Calm(s) /\ Paid(s)
    BY <1>1, <1>2, <1>3, <1>4 DEF Calm, Paid, Own, Connected, Live
  <2> QED BY <2>1, Rests
<1>5. CASE Claim(t)
  <2>1. \A s \in Own : Calm(s) /\ Paid(s)
    BY <1>1, <1>2, <1>3, <1>5 DEF Claim, WriteRow, Claimable, Calm, Paid, Own
  <2> QED BY <2>1, Rests
<1>6. CASE Kill(t)
  <2>1. row' = row /\ e2b' = [e2b EXCEPT ![target[t]] = "dead"]
    BY <1>6 DEF Kill, dbVars
  <2>2. \A s \in Own : Calm(s)
    BY <1>1, <1>2, <1>3, <2>1 DEF Calm, Own
  <2>3. CASE target[t] \in Own /\ e2b[target[t]] \in Live
    <3> HIDE DEF Typed
    <3> QED BY <2>1, <2>2, <2>3, Stops
  <2>4. CASE ~ (target[t] \in Own /\ e2b[target[t]] \in Live)
    <3>1. \A s \in Own : Paid(s)
      BY <1>1, <2>1, <2>4 DEF Paid, Own, Live
    <3> QED BY <2>2, <3>1, Rests
  <2> QED BY <2>3, <2>4
<1>7. CASE CleanPut(t)
  <2>1. row' = [row EXCEPT ![target[t]] = "cleaned"] /\ e2b' = e2b
    BY <1>7 DEF CleanPut, WriteRow
  <2>2. row[target[t]] # "none" /\ e2b[target[t]] \notin Live
    BY <1>7 DEF CleanPut, At, Recorded, NamedRows, KilledRows, KillSteps, Dead, Confirmed, Live
  <2>3. CASE target[t] \in Own /\ row[target[t]] # "cleaned"
    <3> HIDE DEF Typed
    <3> QED BY <1>2, <1>3, <2>1, <2>2, <2>3, Settles
  <2>4. CASE ~ (target[t] \in Own /\ row[target[t]] # "cleaned")
    <3>1. \A s \in Own : Calm(s) /\ Paid(s)
      BY <1>2, <1>3, <2>1, <2>4 DEF Calm, Paid, Own
    <3> QED BY <3>1, Rests
  <2> QED BY <2>3, <2>4
<1>8. CASE KillFails(t) \/ ConfirmFails(t)
  BY <1>4, <1>8 DEF KillFails, ConfirmFails, dbVars
<1>9. CASE ClaimRefused(t) \/ ConfirmDead(t) \/ CleanGet(t) \/ DeletePorts(t)
  BY <1>4, <1>9 DEF ClaimRefused, ConfirmDead, CleanGet, DeletePorts, dbVars
<1> HIDE DEF Typed
<1> QED BY <1>5, <1>6, <1>7, <1>8, <1>9 DEF KillStep

\* A worker's step that begins and ends no creation.
LEMMA WorkerRests ==
  ASSUME Typed, NEW w \in Worker, WorkerStep(w),
         \A s : Creating(w, s)' <=> Creating(w, s),
         lost' = lost, \A s \in Own : row'[s] = row[s],
         \A s \in Own : (e2b'[s] = "none" <=> e2b[s] = "none") /\ Paid(s)
  PROVE  AbstractStep
<1>1. \A s : AboutToRecord(s)' <=> AboutToRecord(s)
  BY OneMoves, AboutMoves
<1>2. \A s \in Own : Calm(s) /\ Paid(s)
  BY <1>1 DEF Calm
<1> QED BY <1>2, Rests

LEMMA BlockBooked ==
  ASSUME Typed, Known, Owned, Recorded, NEW w \in Worker, BlockStep(w)
  PROVE  AbstractStep
<1> USE ConstantsAssumption DEF ConstantsAssumption, Typed, TypeOK, Thread, At, Goto, Call
<1>1. WorkerStep(w) /\ \A v \in Worker \ {w} : Same(v)
  BY OneMoves DEF WorkerStep
<1>2. ASSUME NEW s \in Sid, NEW api, Create(w, s, api)
      PROVE  AbstractStep
  <2>1. /\ s \in Own /\ e2b[s] = "none" /\ e2b' = [e2b EXCEPT ![s] = "running"]
        /\ row' = row /\ lost' = lost
    BY <1>2 DEF Create, Own, dbVars
  <2>2. Creating(w, s)' /\ \A r : r # s => (Creating(w, r)' <=> Creating(w, r))
    BY <1>2 DEF Create, Creating
  <2> HIDE DEF Typed
  <2> QED BY <1>1, <2>1, <2>2, Starts
<1>3. CASE Record(w) \/ RecordFails(w)
  <2>1. Ends(w, cur[w]) /\ \A r : r # cur[w] => (Creating(w, r)' <=> Creating(w, r))
    BY <1>3 DEF Record, RecordFails, Ends, Creating
  <2>2. \/ row' = [row EXCEPT ![cur[w]] = "running"] /\ lost' = lost /\ e2b' = e2b
        \/ row' = row /\ lost' = lost \cup {cur[w]} /\ e2b' = e2b
        \/ row' = row /\ lost' = lost /\ e2b' = [e2b EXCEPT ![cur[w]] = "dead"]
    BY <1>3 DEF Record, RecordFails, WriteRow, dbVars
  <2>3. cur[w] \in Sid
    BY <1>3 DEF Record, RecordFails, Shape
  <2> HIDE DEF Typed
  <2> QED BY <1>1, <2>1, <2>2, <2>3, EndsWell
<1>4. CASE Register(w) \/ EnterBody(w) \/ Exit(w)
  <2>1. \A s : Creating(w, s)' <=> Creating(w, s)
    BY <1>4 DEF Register, EnterBody, Exit, LeaveBlock, Creating
  <2>2. row' = row /\ e2b' = e2b /\ lost' = lost
    BY <1>4 DEF Register, EnterBody, Exit, LeaveBlock, dbVars
  <2> HIDE DEF Typed
  <2> QED BY <1>1, <2>1, <2>2, WorkerRests DEF Paid
<1> HIDE DEF Typed
<1> QED BY <1>2, <1>3, <1>4 DEF BlockStep

LEMMA HandleBooked ==
  ASSUME Api \cap Excluded = {}, Typed, Known, Owned, Unpaused, Recorded, NEW w \in Worker,
         HandleStep(w)
  PROVE  AbstractStep
<1> USE ConstantsAssumption
    DEF ConstantsAssumption, Typed, TypeOK, Thread, At, Goto, Call, Done, Base
<1>1. WorkerStep(w) /\ \A v \in Worker \ {w} : Same(v)
  BY OneMoves DEF WorkerStep
<1>2. ASSUME NEW s \in Sid, ExposePort(w, s) \/ ClosePort(w, s) \/ Release(w, s)
      PROVE  AbstractStep
  <2>1. \A r : Creating(w, r)' <=> Creating(w, r)
    BY <1>2 DEF ExposePort, ClosePort, Release, Holds, Creating
  <2>2. row' = row /\ e2b' = e2b /\ lost' = lost
    BY <1>2 DEF ExposePort, ClosePort, Release, dbVars
  <2> HIDE DEF Typed
  <2> QED BY <1>1, <2>1, <2>2, WorkerRests DEF Paid
<1>3. ASSUME NEW s \in Sid, AdoptCall(w, s)
      PROVE  AbstractStep
  <2>1. \A r : Creating(w, r)' <=> Creating(w, r)
    BY <1>3 DEF AdoptCall, Creating
  <2>2. row' = row /\ lost' = lost /\ s \notin Own /\ e2b' = [e2b EXCEPT ![s] = Connected(@)]
    BY <1>3 DEF AdoptCall, Unpaused, Own, dbVars
  <2>3. \A r \in Own : e2b'[r] = e2b[r]
    BY <2>2 DEF Own
  <2> HIDE DEF Typed
  <2> QED BY <1>1, <2>1, <2>2, <2>3, WorkerRests DEF Paid
<1>4. ASSUME NEW s \in Sid, NEW clone \in Sid, ForkCall(w, s, clone)
      PROVE  AbstractStep
  <2>1. /\ clone \in Own /\ e2b[clone] = "none" /\ e2b' = [e2b EXCEPT ![clone] = "running"]
        /\ row' = row /\ lost' = lost
    BY <1>4 DEF ForkCall, Own, dbVars
  <2>2. Creating(w, clone)' /\ \A r : r # clone => (Creating(w, r)' <=> Creating(w, r))
    BY <1>4 DEF ForkCall, Holds, Creating
  <2> HIDE DEF Typed
  <2> QED BY <1>1, <2>1, <2>2, Starts
<1>5. CASE RecordHandle(w) /\ pc[w] = "forked"
  <2>1. Ends(w, target[w]) /\ \A r : r # target[w] => (Creating(w, r)' <=> Creating(w, r))
    BY <1>5 DEF RecordHandle, Ends, Creating
  <2>2. row' = [row EXCEPT ![target[w]] = "running"] /\ lost' = lost /\ e2b' = e2b
    BY <1>5 DEF RecordHandle, WriteRow
  <2>3. target[w] \in Sid
    BY <1>5 DEF Shape, CallSteps
  <2> HIDE DEF Typed
  <2> QED BY <1>1, <2>1, <2>2, <2>3, EndsWell
<1>6. CASE RecordHandle(w) /\ pc[w] = "adopting"
  <2>1. \A r : Creating(w, r)' <=> Creating(w, r)
    BY <1>6 DEF RecordHandle, Creating
  <2>2. lost' = lost /\ e2b' = e2b /\ row' = [row EXCEPT ![target[w]] = "running"]
    BY <1>6 DEF RecordHandle, WriteRow
  <2>3. target[w] \notin Own
    BY <1>6 DEF Recorded, NamedRows, WorkerRows, Own
  <2>4. \A r \in Own : row'[r] = row[r]
    BY <2>2, <2>3 DEF Own
  <2> HIDE DEF Typed
  <2> QED BY <1>1, <2>1, <2>2, <2>4, WorkerRests DEF Paid
<1>7. ~ (PauseGet(w) \/ PausePut(w) \/ ResumeGet(w) \/ ResumePut(w))
  BY DEF PauseGet, ResumeGet, SetStateGet, PausePut, ResumePut, Unpaused, Recorded, NamedRows,
         WorkerRows
<1>8. \A s \in Sid : ~ (PauseCall(w, s) \/ ResumeCall(w, s))
  BY DEF PauseCall, ResumeCall, Excluded
<1>9. RecordHandle(w) => pc[w] \in {"forked", "adopting"}
  BY DEF RecordHandle
<1> HIDE DEF Typed
<1> QED BY <1>2, <1>3, <1>4, <1>5, <1>6, <1>7, <1>8, <1>9 DEF HandleStep

LEMMA InterruptBooked ==
  ASSUME Typed, Known, Owned, Recorded, NEW w \in Worker, InterruptStep(w)
  PROVE  AbstractStep
<1> USE ConstantsAssumption DEF ConstantsAssumption, Typed, TypeOK, Thread, At, Goto, Call, Base
<1>1. WorkerStep(w) /\ \A v \in Worker \ {w} : Same(v)
  BY OneMoves DEF WorkerStep
<1>2. row' = row /\ e2b' = e2b
  BY DEF InterruptStep, InterruptCreate, InterruptRecorded, InterruptHeartbeat, InterruptBlock,
         InterruptCall,
         LeaveBlock, dbVars
<1>3. pc'[w] \notin {"created", "forked"}
  BY DEF InterruptStep, InterruptCreate, InterruptRecorded, InterruptHeartbeat, InterruptBlock,
         InterruptCall,
         LeaveBlock, LeaveKill
<1>4. /\ pc[w] = "created" => lost' = lost \cup {cur[w]}
      /\ pc[w] = "forked" => lost' = lost \cup {target[w]}
      /\ pc[w] \notin {"created", "forked"} => lost' = lost
  BY DEF InterruptStep, InterruptCreate, InterruptRecorded, InterruptHeartbeat, InterruptBlock,
         InterruptCall,
         CallSteps, KillSteps
<1>5. ASSUME NEW s \in Sid, Creating(w, s)
      PROVE  AbstractStep
  <2>1. Ends(w, s) /\ \A r : r # s => (Creating(w, r)' <=> Creating(w, r))
    BY <1>3, <1>5 DEF Ends, Creating
  <2>2. lost' = lost \cup {s}
    BY <1>4, <1>5 DEF Creating
  <2> HIDE DEF Typed
  <2> QED BY <1>1, <1>2, <2>1, <2>2, EndsWell
<1>6. CASE pc[w] \notin {"created", "forked"}
  <2>1. \A s : Creating(w, s)' <=> Creating(w, s)
    BY <1>3, <1>6 DEF Creating
  <2> HIDE DEF Typed
  <2> QED BY <1>1, <1>2, <1>4, <1>6, <2>1, WorkerRests DEF Paid
<1>7. pc[w] \in {"created", "forked"} => \E s \in Sid : Creating(w, s)
  BY DEF Shape, CallSteps, Creating
<1> QED BY <1>5, <1>6, <1>7

LEMMA SweepBooked ==
  ASSUME Typed, NEW j \in Janitor, SweepBegin(j) \/ SweepStep(j)
  PROVE  AbstractStep
<1>1. row' = row /\ e2b' = e2b
  BY DEF SweepBegin, ReapBegin, ReconcileBegin, ShutdownBegin, Begin, SweepStep, Visit,
         ReapStale, ReapForeign, ReconcileCleaning, ShutdownCleaning, ShutdownStale,
         NextLoop, SweepEnd, dbVars
<1>2. lost' = lost /\ \A v \in Worker : Same(v)
  BY NoneMoves DEF JanitorStep
<1>3. \A s : AboutToRecord(s)' <=> AboutToRecord(s)
  BY <1>2 DEF AboutToRecord, Same
<1>4. \A s \in Own : Calm(s) /\ Paid(s)
  BY <1>1, <1>2, <1>3 DEF Calm, Paid
<1> QED BY <1>4, Rests

LEMMA OutsideBooked ==
  ASSUME Typed, Known, Outside
  PROVE  AbstractStep
<1> USE DEF Typed, TypeOK
<1>1. lost' = lost /\ row' = row /\ \A s : AboutToRecord(s)' <=> AboutToRecord(s)
  BY DEF Outside, Expire, Heartbeat, E2BTimeout, ForeignCreate, dbVars, workerVars, AboutToRecord
<1>2. ASSUME NEW s \in Sid, E2BTimeout(s)
      PROVE  AbstractStep
  <2>1. e2b[s] = "running" /\ e2b' = [e2b EXCEPT ![s] = "dead"]
    BY <1>2 DEF E2BTimeout
  <2>2. \A r \in Own : Calm(r)
    BY <1>1, <2>1 DEF Calm, Own
  <2>3. CASE s \in Own
    <3>1. e2b[s] \in Live
      BY <2>1 DEF Live
    <3> HIDE DEF Typed
    <3> QED BY <2>1, <2>2, <2>3, <3>1, Stops
  <2>4. CASE s \notin Own
    <3>1. \A r \in Own : Paid(r)
      BY <2>1, <2>4 DEF Paid, Own
    <3> QED BY <2>2, <3>1, Rests
  <2> QED BY <2>3, <2>4
<1>3. ASSUME NEW s \in Sid, Expire(s) \/ Heartbeat(s) \/ ForeignCreate(s)
      PROVE  AbstractStep
  <2>1. \A r \in Own : e2b'[r] = e2b[r]
    BY <1>3 DEF Expire, Heartbeat, ForeignCreate, Own
  <2>2. \A r \in Own : Calm(r) /\ Paid(r)
    BY <1>1, <2>1 DEF Calm, Paid
  <2> QED BY <2>2, Rests
<1> HIDE DEF Typed
<1> QED BY <1>2, <1>3 DEF Outside

\* A crash loses what the threads of its process were about to record.
LEMMA CrashBooked ==
  ASSUME Typed, Known, Owned, Recorded, NEW p \in Process, Crash(p)
  PROVE  AbstractStep
<1> USE DEF Typed, TypeOK
<1> DEFINE S == {s \in Own : \E v \in Worker : ProcOf[v] = p /\ Creating(v, s)}
<1>1. row' = row /\ e2b' = e2b
  BY DEF Crash, dbVars
<1>2. \A s \in Own : s \in lost' <=> s \in lost \/ s \in S
  <2>1. lost' = lost \cup {cur[w] : w \in {v \in Worker : ProcOf[v] = p /\ pc[v] = "created"}}
                     \cup {target[w] : w \in {v \in Worker : ProcOf[v] = p /\ pc[v] = "forked"}}
    BY DEF Crash, Thread
  <2> QED BY <2>1 DEF Creating
<1>3. \A v \in Worker, s \in Sid : Creating(v, s)' <=> ProcOf[v] # p /\ Creating(v, s)
  <2> HIDE DEF Typed
  <2> QED BY CrashMoves DEF Same, Creating
<1>4. \A v, w \in Worker, s \in Sid : Creating(v, s) /\ Creating(w, s) => v = w
  BY DEF Creating, Mine, Owned, Separate
<1>5. \A s : (AboutToRecord(s) <=> \E v \in Worker : Creating(v, s))
             /\ (AboutToRecord(s)' <=> \E v \in Worker : Creating(v, s)')
  BY DEF AboutToRecord, Creating
<1>6. \A s \in S : Account(s) = "pending" /\ Account(s)' = "lost"
  <2> SUFFICES ASSUME NEW s \in S
               PROVE  Account(s) = "pending" /\ Account(s)' = "lost"
    OBVIOUS
  <2>1. PICK v \in Worker : ProcOf[v] = p /\ Creating(v, s)
    OBVIOUS
  <2>2. s \in Own /\ s \in Sid /\ row[s] = "none" /\ s \notin lost /\ e2b[s] # "none"
    BY <2>1 DEF Own, Creating, Known, Recorded, FreshRows, Thread
  <2>3. Books(s) /\ Books(s)'
    BY BooksHold
  <2>4. AboutToRecord(s) /\ s \in lost'
    BY <1>2, <1>5, <2>1, <2>2
  <2> QED BY <1>1, <2>2, <2>3, <2>4 DEF Books
<1>7. \A s \in Own \ S : Calm(s)
  <2> SUFFICES ASSUME NEW s \in Own \ S
               PROVE  Calm(s)
    OBVIOUS
  <2>1. \A v \in Worker : Creating(v, s)' <=> Creating(v, s)
    BY <1>3 DEF Own
  <2>2. AboutToRecord(s)' <=> AboutToRecord(s)
    BY <1>5, <2>1
  <2> QED BY <1>1, <1>2, <2>2 DEF Calm
<1>8. S \in SUBSET Own
  OBVIOUS
<1>9. Ledger!Enter(S, "pending", "lost")
  <2> HIDE DEF S, Typed
  <2> QED BY <1>6, <1>7, <1>8, Enters
<1>10. Ledger!Lose(S)
  BY <1>1, <1>9 DEF Ledger!Lose
<1> HIDE DEF S
<1> QED BY <1>8, <1>10 DEF AbstractStep, Ledger!Next

LEMMA NextBooks ==
  ASSUME Api \cap Excluded = {}, Typed, Known, Owned, Dead, Unpaused, Recorded, [Next]_vars
  PROVE  AbstractStep
<1>1. ASSUME NEW p \in Process, Restart(p)
      PROVE  AbstractStep
  <2>1. \A s \in Own : Calm(s) /\ Paid(s)
    BY <1>1 DEF Restart, dbVars, workerVars, Calm, Paid, AboutToRecord
  <2> QED BY <2>1, Rests
<1>2. CASE UNCHANGED vars
  <2>1. \A s \in Own : Calm(s) /\ Paid(s)
    BY <1>2 DEF vars, dbVars, workerVars, Calm, Paid, AboutToRecord
  <2> QED BY <2>1, Rests
<1>3. ASSUME NEW w \in Worker, WorkerStep(w)
      PROVE  AbstractStep
  BY <1>3, KillBooked, BlockBooked, HandleBooked, InterruptBooked DEF WorkerStep, Thread
<1>4. ASSUME NEW j \in Janitor, JanitorStep(j)
      PROVE  AbstractStep
  BY <1>4, KillBooked, SweepBooked DEF JanitorStep, Thread
<1> QED BY <1>1, <1>2, <1>3, <1>4, OutsideBooked, CrashBooked, Steps

\* The detailed lifecycle implements SandboxLedger, for every set of
\* sandboxes, processes and threads and with every fault: what was recorded
\* once stays on the books until it is settled, it is settled only when E2B no
\* longer bills it, and a settled account is never opened again.  Excluded are
\* pause, resume and the purge of untracked sandboxes.
THEOREM KeepsTheBooks ==
  ASSUME Api \cap Excluded = {}
  PROVE  Spec => KeepsLedger
<1>1. Init => Dead /\ Unpaused /\ Recorded
  <2>1. Init => Dead /\ Unpaused
    BY ConstantsAssumption
       DEF ConstantsAssumption, Init, Dead, CleanedIsDead, Confirmed, Unpaused, Thread
  <2> QED BY <2>1, InitRecorded
<1>2. Init => Ledger!Init
  <2> SUFFICES ASSUME Init
               PROVE  Ledger!Init
    OBVIOUS
  <2>1. \A s \in Own : Account(s) = "absent"
    <3>1. \A s : Books(s)
      BY BooksHold
    <3> QED BY <3>1 DEF Books, Init, Own
  <2>2. {s \in Own : e2b[s] \in Live} = {}
    BY DEF Init, Own, Live
  <2> QED BY <2>1, <2>2 DEF Ledger!Init
<1>3. Typed /\ Known /\ Owned /\ Dead /\ Unpaused /\ Recorded /\ [Next]_vars
        => (Dead /\ Unpaused /\ Recorded)'
  BY NextDead, NextUnpaused, NextRecorded DEF Excluded
<1>4. Typed /\ Known /\ Owned /\ Dead /\ Unpaused /\ Recorded /\ [Next]_vars
        => AbstractStep
  BY NextBooks
<1> QED BY AlwaysOwned, <1>1, <1>2, <1>3, <1>4, PTL
        DEF Spec, KeepsLedger, Ledger!Spec, AbstractStep

=============================================================================
