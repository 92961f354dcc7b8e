----------------------- MODULE SandboxLifecycle_proofs -----------------------
(***************************************************************************)
(* Proofs about SandboxLifecycle, for every set of sandboxes, processes,   *)
(* threads, calls and faults.                                              *)
(***************************************************************************)
EXTENDS SandboxLifecycle, TLAPS

-----------------------------------------------------------------------------
(* Type correctness.  TypeOK is not inductive by itself: what a call puts  *)
(* into _inflight or a handle set is a sandbox only because a thread in    *)
(* the middle of a call has one.                                           *)

Shape ==
  /\ \A w \in Worker :
       /\ pc[w] \in WorkerSteps
       /\ pc[w] \in {"created", "recorded", "waiting", "body"} => cur[w] \in Sid
       /\ pc[w] \in CallSteps => target[w] \in Sid
  /\ \A j \in Janitor : pc[j] \in JanitorSteps
  /\ \A t \in Thread : pc[t] \in KillSteps => target[t] \in Sid

Typed == TypeOK /\ Shape

LEMMA InitTyped == Init => Typed
  BY ConstantsAssumption
     DEF ConstantsAssumption, Init, Typed, TypeOK, Shape, Thread, Live, WorkerSteps, JanitorSteps,
         CallSteps, KillSteps, Loops

\* What leaving _kill_one does to the thread's own variables.
ThreadTyped ==
  /\ inflight \in [Process -> SUBSET Sid]
  /\ pc \in [Thread -> WorkerSteps \cup JanitorSteps]
  /\ cur \in [Worker -> Sid \cup {NoSid}]
  /\ via \in [Worker -> {"acquire", "restore"}]
  /\ target \in [Thread -> Sid \cup {NoSid}]
  /\ handles \in [Worker -> SUBSET Sid]
  /\ job \in [Janitor -> Loops \cup {"none"}]
  /\ todo \in [Janitor -> SUBSET Sid]
  /\ tracked \in [Janitor -> SUBSET Sid]
  /\ killed \in [Janitor -> SUBSET Sid]

\* Only its own _inflight gets the sandbox.
LEMMA JoinGrows ==
  ASSUME NEW w, NEW s, inflight \in [Process -> SUBSET Sid],
         inflight' = inflight \/ JoinInflight(w, s)
  PROVE  /\ \A p \in Process : inflight'[p] \subseteq inflight[p] \cup {s}
         /\ \A p \in Process : inflight[p] \subseteq inflight'[p]
BY DEF JoinInflight

\* What a worker keeps as it leaves a kill is what the kill was about.
LEMMA KeptHandles ==
  ASSUME Typed, NEW w \in Worker, LeaveKill(w)
  PROVE  /\ handles' \in [Worker -> SUBSET Sid]
         /\ \A v \in Worker \ {w} : handles'[v] = handles[v]
         /\ handles[w] \subseteq handles'[w]
         /\ handles'[w] \subseteq handles[w] \cup {target[w]}
         /\ "keep" \notin Api \/ pc[w] \notin KillSteps \/ row[target[w]] # "paused"
              => handles' = handles
<1>1. CASE handles' = handles
  BY <1>1 DEF Typed, TypeOK
<1>2. CASE KeepPaused(w)
  <2>1. target[w] \in Sid
    BY <1>2 DEF KeepPaused, KillSteps, Typed, Shape, Thread
  <2> QED BY <1>2, <2>1 DEF KeepPaused, Typed, TypeOK
<1> QED BY <1>1, <1>2 DEF LeaveKill

LEMMA LeaveKillTyped ==
  ASSUME Typed, NEW t \in Worker, LeaveKill(t), inflight' \in [Process -> SUBSET Sid]
  PROVE  ThreadTyped' /\ Shape'
<1> USE ConstantsAssumption
    DEF ConstantsAssumption, Typed, TypeOK, Shape, ThreadTyped, Thread, WorkerSteps,
        JanitorSteps, CallSteps, KillSteps, janitorVars, Goto, Call, Base, LeaveKill
<1>0. handles' \in [Worker -> SUBSET Sid]
  <2> HIDE DEF Typed, LeaveKill
  <2> QED BY KeptHandles
<1>1. ThreadTyped'
  BY <1>0
<1>2. \A w \in Worker : w # t => pc'[w] = pc[w] /\ cur'[w] = cur[w] /\ target'[w] = target[w]
  OBVIOUS
<1>3. \A w \in Janitor : pc'[w] = pc[w] /\ target'[w] = target[w]
  OBVIOUS
<1>4. \/ pc'[t] = "idle"
      \/ pc'[t] = "body" /\ cur'[t] \in Sid
  OBVIOUS
<1> QED BY <1>1, <1>2, <1>3, <1>4

LEMMA ReturnTyped ==
  ASSUME Typed, NEW t \in Thread, target[t] \in Sid, Return(t)
  PROVE  ThreadTyped' /\ Shape'
<1> USE ConstantsAssumption
    DEF ConstantsAssumption, Typed, TypeOK, Thread
<1>1. CASE t \in Worker /\ LeaveKill(t) /\
           inflight' = [inflight EXCEPT ![ProcOf[t]] = @ \ {target[t]}]
  <2>1. inflight' \in [Process -> SUBSET Sid]
    BY <1>1
  <2> QED BY <1>1, <2>1, LeaveKillTyped DEF Typed
<1>2. CASE t \in Janitor /\ Call(t, NoSid, "sweep") /\
           UNCHANGED <<inflight, workerVars, janitorVars>>
  BY <1>2 DEF Call, Goto, workerVars, janitorVars, Shape, ThreadTyped, WorkerSteps, JanitorSteps,
              CallSteps, KillSteps
<1> QED BY <1>1, <1>2, Return(t) DEF Return

LEMMA RaiseTyped ==
  ASSUME Typed, NEW t \in Thread, target[t] \in Sid, Raise(t)
  PROVE  ThreadTyped' /\ Shape'
<1> USE ConstantsAssumption
    DEF ConstantsAssumption, Typed, TypeOK, Thread
<1>1. CASE t \in Worker /\ LeaveKill(t)
  BY <1>1, Raise(t), LeaveKillTyped DEF Raise
<1>2. CASE t \in Janitor
  <2>1. /\ Call(t, NoSid, "idle") /\ UNCHANGED inflight /\ UNCHANGED workerVars
        /\ job' = [job EXCEPT ![t] = "none"] /\ todo' = [todo EXCEPT ![t] = {}]
        /\ tracked' = [tracked EXCEPT ![t] = {}] /\ killed' = [killed EXCEPT ![t] = {}]
    BY <1>2, Raise(t) DEF Raise
  <2>2. ThreadTyped'
    BY <2>1 DEF Call, Goto, workerVars, ThreadTyped, WorkerSteps, JanitorSteps
  <2>3. Shape'
    BY <1>2, <2>1 DEF Call, Goto, workerVars, Shape, WorkerSteps, JanitorSteps, CallSteps, KillSteps
  <2> QED BY <2>2, <2>3
<1> QED BY <1>1, <1>2, Raise(t) DEF Raise

LEMMA KillStepTyped ==
  ASSUME Typed, NEW t \in Thread, KillStep(t)
  PROVE  Typed'
<1> USE DEF KillSteps, dbVars, processVars, At, WriteRow
<1>0. target[t] \in Sid
  BY DEF Typed, Shape, KillStep, Claim, ClaimRefused, Kill, KillFails, ConfirmDead,
         ConfirmFails, CleanGet, CleanPut, DeletePorts
<1> DEFINE Stay(step) == Goto(t, step) /\ UNCHANGED <<inflight, target, workerVars, janitorVars>>
<1>1. ASSUME NEW step \in KillSteps, Stay(step)
      PROVE  ThreadTyped' /\ Shape'
  BY <1>0, <1>1, ConstantsAssumption
     DEF ConstantsAssumption, Typed, TypeOK, Shape, ThreadTyped, Thread, WorkerSteps,
         JanitorSteps, CallSteps, Goto, workerVars, janitorVars
<1>2. ThreadTyped' /\ Shape'
  <2>1. CASE Claim(t)
    BY <2>1, <1>1 DEF Claim
  <2>2. CASE Kill(t) \/ KillFails(t)
    BY <2>2, <1>1 DEF Kill, KillFails
  <2>3. CASE ConfirmDead(t)
    BY <2>3, <1>1 DEF ConfirmDead
  <2>4. CASE ClaimRefused(t) \/ ConfirmFails(t) \/ DeletePorts(t)
    BY <2>4, <1>0, ReturnTyped DEF ClaimRefused, ConfirmFails, DeletePorts
  <2>5. CASE CleanGet(t)
    BY <2>5, <1>0, <1>1, RaiseTyped DEF CleanGet
  <2>6. CASE CleanPut(t)
    BY <2>6, <1>0, <1>1, ReturnTyped DEF CleanPut
  <2> QED BY <2>1, <2>2, <2>3, <2>4, <2>5, <2>6, KillStep(t) DEF KillStep
<1>3. /\ e2b' \in [Sid -> Live \cup {"none", "dead"}]
      /\ row' \in [Sid -> {"none", "running", "paused", "cleaning", "cleaned"}]
      /\ stale' \subseteq Sid /\ ports' \subseteq Sid /\ up' \subseteq Process
      /\ beats' \in [Process -> SUBSET Sid] /\ strays' \in [Process -> SUBSET Sid]
      /\ permits' \in [Process -> Nat] /\ lost' \subseteq Sid
  BY <1>0 DEF Typed, TypeOK, Live, KillStep, Connected, Claim, ClaimRefused, Kill, KillFails,
              ConfirmDead, ConfirmFails, CleanGet, CleanPut, DeletePorts
<1> QED BY <1>2, <1>3 DEF Typed, TypeOK, ThreadTyped

\* Leaving a with block begins the kill of its sandbox.
LEMMA LeaveBlockTyped ==
  ASSUME Typed, NEW w \in Worker, NEW free \in Nat, LeaveBlock(w, free), cur[w] \in Sid,
         lost' \subseteq Sid
  PROVE  Typed'
<1> USE ConstantsAssumption
    DEF ConstantsAssumption, Typed, TypeOK, Thread, LeaveBlock, StopBeating, Call, Goto,
        dbVars, workerVars, janitorVars
<1>1. TypeOK'
  BY DEF WorkerSteps, KillSteps
<1>2. Shape'
  BY DEF Shape, WorkerSteps, JanitorSteps, CallSteps, KillSteps
<1> QED BY <1>1, <1>2

\* Putting one element into one set of a function to sets.
LEMMA AddOne ==
  ASSUME NEW D, NEW S, NEW f \in [D -> SUBSET S], NEW p \in D, NEW s \in S
  PROVE  [f EXCEPT ![p] = @ \cup {s}] \in [D -> SUBSET S]
OBVIOUS

LEMMA BlockStepTyped ==
  ASSUME Typed, NEW w \in Worker, BlockStep(w)
  PROVE  Typed'
<1> USE ConstantsAssumption
    DEF ConstantsAssumption, Typed, TypeOK, Shape, Thread, Live, WorkerSteps, JanitorSteps,
        CallSteps, KillSteps, dbVars, processVars, workerVars, janitorVars, At, Goto, WriteRow,
        JoinInflight
<1>1. ASSUME NEW s \in Sid, NEW api \in {"acquire", "restore"}, Create(w, s, api)
      PROVE  Typed'
  BY <1>1 DEF Create
<1>2. CASE Record(w)
  BY <1>2 DEF Record
<1>3. CASE RecordFails(w)
  BY <1>3 DEF RecordFails
<1>4. CASE Register(w)
  <2>1. TypeOK'
    <3>1. cur[w] \in Sid /\ ProcOf[w] \in Process
      BY <1>4 DEF Register
    <3>2. inflight' \in [Process -> SUBSET Sid] /\ stale' \subseteq Sid
      BY <1>4, <3>1 DEF Register
    <3>4. /\ beats' \in {beats, [beats EXCEPT ![ProcOf[w]] = @ \cup {cur[w]}]}
          /\ strays' \in {strays, [strays EXCEPT ![ProcOf[w]] = @ \cup {cur[w]}]}
      <4> HIDE DEF Typed, ConstantsAssumption
      <4> QED BY <1>4 DEF Register
    <3>5. beats' \in [Process -> SUBSET Sid] /\ strays' \in [Process -> SUBSET Sid]
      <4>1. /\ beats \in [Process -> SUBSET Sid]
            /\ strays \in [Process -> SUBSET Sid]
        OBVIOUS
      <4> HIDE DEF Typed, ConstantsAssumption
      <4> QED BY ONLY <3>1, <3>4, <4>1, AddOne
    <3>3. pc' \in [Thread -> WorkerSteps \cup JanitorSteps]
      BY <1>4 DEF Register
    <3> QED BY <1>4, <3>2, <3>3, <3>4, <3>5 DEF Register
  <2>2. Shape'
    BY <1>4 DEF Register
  <2> QED BY <2>1, <2>2
<1>5. CASE EnterBody(w)
  BY <1>5 DEF EnterBody, FreePermit
<1>6. CASE Exit(w)
  BY <1>6, LeaveBlockTyped DEF Exit
<1> HIDE DEF Typed
<1> QED BY <1>1, <1>2, <1>3, <1>4, <1>5, <1>6, BlockStep(w) DEF BlockStep

LEMMA HandleStepTyped ==
  ASSUME Typed, NEW w \in Worker, HandleStep(w)
  PROVE  Typed'
<1> USE ConstantsAssumption
    DEF ConstantsAssumption, Typed, TypeOK, Shape, Thread, Live, WorkerSteps, JanitorSteps,
        CallSteps, KillSteps, dbVars, processVars, workerVars, janitorVars, At, Goto, Call,
        Base, Done, WriteRow, JoinInflight, Connected
<1>1. ASSUME NEW s \in Sid, PauseCall(w, s) \/ ResumeCall(w, s)
      PROVE  Typed'
  <2>1. CASE PauseCall(w, s)
    BY <2>1 DEF PauseCall
  <2>2. CASE ResumeCall(w, s)
    BY <2>2 DEF ResumeCall
  <2> QED BY <1>1, <2>1, <2>2
<1>2. ASSUME NEW s \in Sid, NEW clone \in Sid, ForkCall(w, s, clone)
      PROVE  Typed'
  BY <1>2 DEF ForkCall
<1>3. ASSUME NEW s \in Sid, ExposePort(w, s) \/ ClosePort(w, s)
      PROVE  Typed'
  BY <1>3 DEF ExposePort, RecordForward, ClosePort
<1>4. ASSUME NEW s \in Sid, AdoptCall(w, s)
      PROVE  Typed'
  BY <1>4 DEF AdoptCall
<1>5. ASSUME NEW s \in Sid, Release(w, s)
      PROVE  Typed'
  BY <1>5 DEF Release
<1>6. CASE PauseGet(w) \/ ResumeGet(w)
  <2>1. ASSUME NEW get \in CallSteps, NEW state, NEW put \in CallSteps,
               SetStateGet(w, get, state, put)
        PROVE  Typed'
    <3>1. CASE Call(w, target[w], put)
      BY <2>1, <3>1 DEF SetStateGet
    <3>2. CASE Done(w)
      BY <2>1, <3>2 DEF SetStateGet
    <3> QED BY <2>1, <3>1, <3>2 DEF SetStateGet
  <2> QED BY <1>6, <2>1 DEF PauseGet, ResumeGet
<1>7. CASE PausePut(w)
  BY <1>7 DEF PausePut
<1>8. CASE ResumePut(w)
  BY <1>8 DEF ResumePut
<1>9. CASE RecordHandle(w)
  BY <1>9 DEF RecordHandle
<1> HIDE DEF Typed
<1> QED BY <1>1, <1>2, <1>3, <1>4, <1>5, <1>6, <1>7, <1>8, <1>9, HandleStep(w) DEF HandleStep

LEMMA InterruptStepTyped ==
  ASSUME Typed, NEW w \in Worker, InterruptStep(w)
  PROVE  Typed'
<1> USE ConstantsAssumption DEF ConstantsAssumption, Typed, At
<1>1. CASE InterruptCreate(w)
  BY <1>1 DEF InterruptCreate, TypeOK, Shape, Goto, Thread, WorkerSteps, JanitorSteps,
              CallSteps, KillSteps, dbVars, processVars, janitorVars
<1>2. CASE InterruptRecorded(w)
  <2>1. CASE LeaveBlock(w, 0)
    BY <1>2, <2>1, LeaveBlockTyped DEF InterruptRecorded, TypeOK, Shape
  <2>2. CASE /\ UNCHANGED <<e2b, dbVars, up, beats, strays, permits, target, via, handles,
                            janitorVars>>
             /\ inflight' = inflight \/ JoinInflight(w, cur[w])
             /\ cur' = [cur EXCEPT ![w] = NoSid] /\ Goto(w, "idle") /\ lost' = lost
    <3>1. inflight' \in [Process -> SUBSET Sid]
      BY <1>2, <2>2 DEF InterruptRecorded, JoinInflight, TypeOK, Shape
    <3> QED BY <2>2, <3>1
            DEF TypeOK, Shape, Goto, Thread, WorkerSteps, JanitorSteps, CallSteps, KillSteps,
                dbVars, janitorVars
  <2> QED BY <1>2, <2>1, <2>2 DEF InterruptRecorded
<1>3. CASE InterruptBlock(w)
  BY <1>3, LeaveBlockTyped DEF InterruptBlock, TypeOK, Shape, CallSteps
<1>4. CASE InterruptCall(w)
  BY <1>4, LeaveKillTyped
     DEF InterruptCall, TypeOK, Shape, ThreadTyped, CallSteps, dbVars, processVars
<1>5. CASE InterruptHeartbeat(w)
  <2>1. cur[w] \in Sid /\ pc[w] = "recorded"
    BY <1>5 DEF InterruptHeartbeat, TypeOK, Shape
  <2>2. /\ inflight' \in [Process -> SUBSET Sid] /\ strays' \in [Process -> SUBSET Sid]
        /\ stale' \subseteq Sid
    BY <1>5, <2>1 DEF InterruptHeartbeat, JoinInflight, TypeOK
  <2>3. CASE Call(w, cur[w], "claim") /\ cur' = cur
    BY <1>5, <2>1, <2>2, <2>3
       DEF InterruptHeartbeat, TypeOK, Shape, Goto, Call, Thread, WorkerSteps, JanitorSteps,
           CallSteps, KillSteps, janitorVars
  <2>4. CASE Goto(w, "idle") /\ target' = target /\ cur' = [cur EXCEPT ![w] = NoSid]
    BY <1>5, <2>1, <2>2, <2>4
       DEF InterruptHeartbeat, TypeOK, Shape, Goto, Thread, WorkerSteps, JanitorSteps,
           CallSteps, KillSteps, janitorVars
  <2> QED BY <1>5, <2>3, <2>4 DEF InterruptHeartbeat
<1> QED BY <1>1, <1>2, <1>3, <1>4, <1>5, InterruptStep(w) DEF InterruptStep

LEMMA SweepStepTyped ==
  ASSUME Typed, NEW j \in Janitor, SweepBegin(j) \/ SweepStep(j)
  PROVE  Typed'
<1> USE ConstantsAssumption
    DEF ConstantsAssumption, Typed, TypeOK, Shape, Thread, WorkerSteps, JanitorSteps,
        CallSteps, KillSteps, Loops, ReapLoops, dbVars, processVars, workerVars, janitorVars,
        At, Goto, Call, RowsIn
<1>0. TypeOK /\ Shape
  OBVIOUS
<1>1. CASE SweepBegin(j)
  <2>1. ASSUME NEW loop \in Loops, NEW list \in SUBSET Sid, Begin(j, loop, list),
               tracked' \in [Janitor -> SUBSET Sid], killed' = killed
        PROVE  Typed'
    <3>1. TypeOK'
      BY <2>1 DEF Begin
    <3>2. Shape'
      BY <2>1 DEF Begin
    <3> QED BY <3>1, <3>2
  <2> HIDE DEF Typed, Shape
  <2>2. CASE ReapBegin(j)
    BY <1>0, <2>1, <2>2 DEF ReapBegin, AllTracked
  <2>3. CASE ReconcileBegin(j)
    BY <1>0, <2>1, <2>3 DEF ReconcileBegin
  <2>4. CASE ShutdownBegin(j)
    BY <1>0, <2>1, <2>4 DEF ShutdownBegin
  <2> QED BY <1>1, <2>2, <2>3, <2>4 DEF SweepBegin
<1>2. ASSUME NEW s \in Sid, Visit(j, s)
      PROVE  Typed'
  BY <1>2 DEF Visit
<1>3. CASE ReapStale(j) \/ ReapForeign(j) \/ ReconcileCleaning(j)
           \/ ShutdownCleaning(j) \/ ShutdownStale(j)
  <2>1. ASSUME NEW from \in Loops, NEW to \in Loops, NEW list \in SUBSET Sid, NextLoop(j, from, to, list),
               inflight' \in [Process -> SUBSET Sid]
        PROVE  Typed'
    BY <2>1 DEF NextLoop
  <2> HIDE DEF Typed, Shape
  <2>2. CASE ReapStale(j)
    BY <1>0, <2>1, <2>2 DEF ReapStale
  <2>3. CASE ReapForeign(j)
    BY <1>0, <2>1, <2>3 DEF ReapForeign
  <2>4. CASE ReconcileCleaning(j)
    BY <1>0, <2>1, <2>4 DEF ReconcileCleaning
  <2>5. CASE ShutdownCleaning(j)
    BY <1>0, <2>1, <2>5 DEF ShutdownCleaning
  <2>6. CASE ShutdownStale(j)
    BY <1>0, <2>1, <2>6 DEF ShutdownStale
  <2> QED BY <1>3, <2>2, <2>3, <2>4, <2>5, <2>6
<1>4. CASE SweepEnd(j)
  BY <1>4 DEF SweepEnd
<1> HIDE DEF Typed
<1> QED BY <1>1, <1>2, <1>3, <1>4 DEF SweepStep

LEMMA EnvironmentTyped ==
  ASSUME Typed, Environment
  PROVE  Typed'
<1> USE DEF Typed, TypeOK, dbVars, processVars, workerVars, janitorVars
<1>1. ASSUME NEW s \in Sid, Expire(s) \/ Heartbeat(s) \/ E2BTimeout(s) \/ ForeignCreate(s)
      PROVE  Typed'
  BY <1>1 DEF Expire, Heartbeat, E2BTimeout, ForeignCreate, Shape, Live
<1>2. ASSUME NEW p \in Process, Crash(p)
      PROVE  Typed'
  <2>1. TypeOK'
    BY <1>2, ConstantsAssumption
       DEF Crash, ConstantsAssumption, Thread, Shape, CallSteps, WorkerSteps
  <2>2. Shape'
    BY <1>2, ConstantsAssumption
       DEF Crash, ConstantsAssumption, Thread, Shape, CallSteps, KillSteps, WorkerSteps,
           JanitorSteps
  <2> QED BY <2>1, <2>2
<1>3. ASSUME NEW p \in Process, Restart(p)
      PROVE  Typed'
  BY <1>3 DEF Restart, Shape
<1> QED BY <1>1, <1>2, <1>3 DEF Environment

LEMMA NextTyped == Typed /\ [Next]_vars => Typed'
<1> SUFFICES ASSUME Typed, [Next]_vars PROVE Typed'
  OBVIOUS
<1>1. CASE Next
  BY <1>1, KillStepTyped, BlockStepTyped, HandleStepTyped, InterruptStepTyped,
     SweepStepTyped, EnvironmentTyped DEF Next
<1>2. CASE UNCHANGED vars
  BY <1>2 DEF vars, dbVars, processVars, workerVars, janitorVars, Typed, TypeOK, Shape
<1> QED BY <1>1, <1>2

LEMMA AlwaysTyped == Spec => []Typed
  BY InitTyped, NextTyped, PTL DEF Spec

\* Every variable keeps its type.
THEOREM TypeCorrect == Spec => []TypeOK
<1>1. Typed => TypeOK
  BY DEF Typed
<1> QED BY AlwaysTyped, <1>1, PTL

-----------------------------------------------------------------------------
(* No false clean.  A row is marked CLEANED by a killer that has confirmed *)
(* its sandbox dead, at that time or earlier, and dead sandboxes do not    *)
(* come back.  The object of a paused sandbox also answers "not running",  *)
(* so the theorem is about applications that do not pause.                 *)

\* Whatever a row, a list, a handle or a thread names has been created.
Known ==
  /\ \A s \in Sid : row[s] # "none" => e2b[s] # "none"
  /\ \A s \in stale : e2b[s] # "none"
  /\ \A p \in Process : \A s \in inflight[p] : e2b[s] # "none"
  /\ \A w \in Worker : cur[w] \in Sid => e2b[cur[w]] # "none"
  /\ \A w \in Worker : \A s \in handles[w] : e2b[s] # "none"
  /\ \A t \in Thread : target[t] \in Sid => e2b[target[t]] # "none"
  /\ \A j \in Janitor : \A s \in todo[j] : e2b[s] # "none"

\* How E2B's view of a sandbox changes.
Evolves(old, new) ==
  /\ old # "none" => new # "none"
  /\ old = "dead" => new = "dead"
  /\ "pause" \notin Api /\ old # "paused" => new # "paused"

LEMMA E2BEvolves ==
  ASSUME Typed, [Next]_vars
  PROVE  \A s \in Sid : Evolves(e2b[s], e2b'[s])
<1> USE DEF Typed, TypeOK, Evolves, Live
<1>1. ASSUME NEW t \in Thread, KillStep(t)
      PROVE  \A s \in Sid : Evolves(e2b[s], e2b'[s])
  BY <1>1 DEF KillStep, Claim, ClaimRefused, Kill, KillFails, ConfirmDead, ConfirmFails,
              CleanGet, CleanPut, DeletePorts, Connected
<1>2. ASSUME NEW w \in Worker, BlockStep(w)
      PROVE  \A s \in Sid : Evolves(e2b[s], e2b'[s])
  BY <1>2 DEF BlockStep, Create, Record, RecordFails, Register, EnterBody, Exit, LeaveBlock
<1>3. ASSUME NEW w \in Worker, HandleStep(w)
      PROVE  \A s \in Sid : Evolves(e2b[s], e2b'[s])
  BY <1>3 DEF HandleStep, PauseCall, ResumeCall, ForkCall, ExposePort, ClosePort, AdoptCall,
              Release, PauseGet, ResumeGet, SetStateGet, PausePut, ResumePut, RecordHandle,
              Connected
<1>4. ASSUME NEW w \in Worker, InterruptStep(w)
      PROVE  \A s \in Sid : Evolves(e2b[s], e2b'[s])
  BY <1>4 DEF InterruptStep, InterruptCreate, InterruptRecorded, InterruptHeartbeat,
              InterruptBlock, InterruptCall,
              LeaveBlock
<1>5. ASSUME NEW j \in Janitor, SweepBegin(j) \/ SweepStep(j)
      PROVE  \A s \in Sid : Evolves(e2b[s], e2b'[s])
  BY <1>5 DEF SweepBegin, ReapBegin, ReconcileBegin, ShutdownBegin, Begin, SweepStep, Visit,
              ReapStale, ReapForeign, ReconcileCleaning, ShutdownCleaning, ShutdownStale,
              NextLoop, SweepEnd
<1>6. CASE Environment
  BY <1>6 DEF Environment, Expire, Heartbeat, E2BTimeout, ForeignCreate, Crash, Restart
<1>7. CASE UNCHANGED vars
  BY <1>7 DEF vars
<1> HIDE DEF Typed, Evolves
<1> QED BY <1>1, <1>2, <1>3, <1>4, <1>5, <1>6, <1>7, [Next]_vars DEF Next

LEMMA InitKnown == Init => Known
  BY ConstantsAssumption DEF ConstantsAssumption, Init, Known, Thread

LEMMA LeaveKillKnown ==
  ASSUME Typed, Known, NEW w \in Worker, LeaveKill(w),
         \A s \in Sid : e2b[s] # "none" => e2b'[s] # "none",
         UNCHANGED <<row, stale>>, \A p \in Process : inflight'[p] \subseteq inflight[p]
  PROVE  Known'
<1> USE ConstantsAssumption DEF ConstantsAssumption, Typed, TypeOK, Thread
<1>1. \A v \in Worker : \A s \in handles'[v] : e2b'[s] # "none"
  <2>1. /\ handles' \in [Worker -> SUBSET Sid]
        /\ \A v \in Worker : handles'[v] \subseteq handles[v] \cup {target[v]}
    BY KeptHandles
  <2> QED BY <2>1 DEF Known
<1>2. \A v \in Worker : cur'[v] \in Sid => e2b'[cur'[v]] # "none"
  BY DEF LeaveKill, Known
<1>3. \A t \in Thread : target'[t] \in Sid => e2b'[target'[t]] # "none"
  BY DEF LeaveKill, Call, Known
<1>4. \A j \in Janitor : \A s \in todo'[j] : e2b'[s] # "none"
  BY DEF LeaveKill, janitorVars, Known
<1>5. /\ \A s \in Sid : row'[s] # "none" => e2b'[s] # "none"
      /\ \A s \in stale' : e2b'[s] # "none"
      /\ \A p \in Process : \A s \in inflight'[p] : e2b'[s] # "none"
  BY DEF Known
<1> QED BY <1>1, <1>2, <1>3, <1>4, <1>5 DEF Known

LEMMA ReturnKnown ==
  ASSUME Typed, Known, NEW t \in Thread, Return(t) \/ Raise(t),
         \A s \in Sid : e2b[s] # "none" => e2b'[s] # "none",
         \A s \in Sid : row'[s] # "none" => e2b[s] # "none",
         stale' \subseteq stale
  PROVE  Known'
<1> USE ConstantsAssumption
    DEF ConstantsAssumption, Typed, TypeOK, Known, Thread, Call, Goto, workerVars, janitorVars
<1>1. \A p \in Process : inflight'[p] \subseteq inflight[p]
  BY DEF Return, Raise
<1>2. CASE t \in Worker /\ LeaveKill(t)
  <2>1. /\ handles' \in [Worker -> SUBSET Sid]
        /\ \A v \in Worker : handles'[v] \subseteq handles[v] \cup {target[v]}
    BY <1>2, KeptHandles
  <2>2. \A v \in Worker : \A s \in handles'[v] : e2b'[s] # "none"
    BY <2>1
  <2> QED BY <1>1, <1>2, <2>2 DEF LeaveKill
<1>3. CASE t \in Janitor /\ Call(t, NoSid, "sweep") /\ UNCHANGED <<workerVars, janitorVars>>
  BY <1>1, <1>3
<1>4. CASE t \in Janitor /\ Call(t, NoSid, "idle") /\ todo' = [todo EXCEPT ![t] = {}]
           /\ UNCHANGED workerVars
  BY <1>1, <1>4
<1> HIDE DEF Known, Typed, Call
<1> QED BY <1>2, <1>3, <1>4 DEF Return, Raise

LEMMA KillStepKnown ==
  ASSUME Typed, Known, NEW t \in Thread, KillStep(t),
         \A s \in Sid : e2b[s] # "none" => e2b'[s] # "none"
  PROVE  Known'
<1> USE DEF Typed, TypeOK, Shape, dbVars, processVars, workerVars, janitorVars, At, Goto,
            WriteRow
<1>1. CASE Claim(t)
  BY <1>1 DEF Claim, Known, KillSteps
<1>2. CASE Kill(t) \/ KillFails(t) \/ ConfirmDead(t)
  BY <1>2 DEF Kill, KillFails, ConfirmDead, Known
<1>3. CASE ClaimRefused(t) \/ ConfirmFails(t) \/ DeletePorts(t)
  BY <1>3, ReturnKnown DEF ClaimRefused, ConfirmFails, DeletePorts, Known
<1>4. CASE CleanGet(t)
  <2>1. CASE Raise(t)
    BY <1>4, <2>1, ReturnKnown DEF CleanGet, Known
  <2>2. CASE UNCHANGED <<inflight, target, workerVars, janitorVars>>
    BY <1>4, <2>2 DEF CleanGet, Known
  <2> QED BY <1>4, <2>1, <2>2 DEF CleanGet
<1>5. CASE CleanPut(t)
  BY <1>5, ReturnKnown DEF CleanPut, Known, KillSteps
<1> QED BY <1>1, <1>2, <1>3, <1>4, <1>5, KillStep(t) DEF KillStep

LEMMA BlockStepKnown ==
  ASSUME Typed, Known, NEW w \in Worker, BlockStep(w) \/ InterruptStep(w),
         \A s \in Sid : e2b[s] # "none" => e2b'[s] # "none"
  PROVE  Known'
<1> USE ConstantsAssumption
    DEF ConstantsAssumption, Typed, TypeOK, Shape, Thread, dbVars, processVars, workerVars,
        janitorVars, At, Goto, Call, WriteRow, JoinInflight, Known
<1>1. ASSUME NEW s \in Sid, NEW api \in {"acquire", "restore"}, Create(w, s, api)
      PROVE  Known'
  BY <1>1 DEF Create
<1>2. CASE Record(w)
  BY <1>2 DEF Record
<1>9. CASE RecordFails(w)
  BY <1>9 DEF RecordFails
<1>3. CASE Register(w)
  BY <1>3 DEF Register
<1>4. CASE EnterBody(w)
  BY <1>4 DEF EnterBody
<1>5. ASSUME NEW free, LeaveBlock(w, free)
      PROVE  Known'
  BY <1>5 DEF LeaveBlock
<1>6. CASE InterruptCreate(w)
  BY <1>6 DEF InterruptCreate
<1>10. ASSUME \A p \in Process : inflight'[p] \subseteq inflight[p] \cup {cur[w]},
              cur[w] \in Sid, e2b' = e2b, row' = row, stale' \subseteq stale,
              UNCHANGED <<handles, janitorVars>>,
              \A v \in Worker : cur'[v] \in {cur[v], NoSid},
              \A t \in Thread : target'[t] \in {target[t], NoSid, cur[w]}
       PROVE  Known'
  BY <1>10
<1>11. CASE InterruptHeartbeat(w) \/ (InterruptRecorded(w) /\ ~ LeaveBlock(w, 0))
  <2>1. /\ cur[w] \in Sid /\ e2b' = e2b /\ row' = row /\ stale' \subseteq stale
        /\ UNCHANGED <<handles, janitorVars>>
    BY <1>11 DEF InterruptHeartbeat, InterruptRecorded
  <2>2. \A p \in Process : inflight'[p] \subseteq inflight[p] \cup {cur[w]}
    <3>1. inflight' = inflight \/ JoinInflight(w, cur[w])
      BY <1>11 DEF InterruptHeartbeat, InterruptRecorded
    <3> QED BY <3>1, JoinGrows
  <2>3. \A v \in Worker : cur'[v] \in {cur[v], NoSid}
    BY <1>11 DEF InterruptHeartbeat, InterruptRecorded
  <2>4. \A t \in Thread : target'[t] \in {target[t], NoSid, cur[w]}
    <3>1. target' = target \/ target' = [target EXCEPT ![w] = cur[w]]
      BY <1>11 DEF InterruptHeartbeat, InterruptRecorded
    <3> QED BY <3>1
  <2> HIDE DEF Known, Typed, JoinInflight
  <2> QED BY <1>10, <2>1, <2>2, <2>3, <2>4
<1>12. CASE InterruptRecorded(w)
  BY <1>5, <1>11, <1>12
<1>7. CASE InterruptCall(w)
  BY <1>7, LeaveKillKnown DEF InterruptCall
<1>8. CASE Exit(w) \/ InterruptBlock(w)
  BY <1>5, <1>8 DEF Exit, InterruptBlock
<1> HIDE DEF Known, Typed
<1> QED BY <1>1, <1>2, <1>3, <1>4, <1>6, <1>7, <1>8, <1>9, <1>11, <1>12
        DEF BlockStep, InterruptStep

LEMMA HandleStepKnown ==
  ASSUME Typed, Known, NEW w \in Worker, HandleStep(w),
         \A s \in Sid : e2b[s] # "none" => e2b'[s] # "none"
  PROVE  Known'
<1> USE ConstantsAssumption
    DEF ConstantsAssumption, Typed, TypeOK, Shape, Thread, Live, CallSteps, dbVars, processVars,
        workerVars, janitorVars, At, Goto, Call, Done, WriteRow, JoinInflight, Known
<1>1. ASSUME NEW s \in Sid, PauseCall(w, s) \/ ResumeCall(w, s) \/ AdoptCall(w, s)
      PROVE  Known'
  BY <1>1 DEF PauseCall, ResumeCall, AdoptCall
<1>2. ASSUME NEW s \in Sid, NEW clone \in Sid, ForkCall(w, s, clone)
      PROVE  Known'
  BY <1>2 DEF ForkCall
<1>3. ASSUME NEW s \in Sid, ExposePort(w, s) \/ ClosePort(w, s)
      PROVE  Known'
  BY <1>3 DEF ExposePort, RecordForward, ClosePort
<1>4. ASSUME NEW s \in Sid, Release(w, s)
      PROVE  Known'
  BY <1>4 DEF Release, Holds
<1>5. CASE PauseGet(w) \/ ResumeGet(w)
  BY <1>5 DEF PauseGet, ResumeGet, SetStateGet
<1>6. CASE PausePut(w)
  BY <1>6 DEF PausePut
<1>7. CASE ResumePut(w)
  BY <1>7 DEF ResumePut
<1>8. CASE RecordHandle(w)
  BY <1>8 DEF RecordHandle
<1> HIDE DEF Known, Typed
<1> QED BY <1>1, <1>2, <1>3, <1>4, <1>5, <1>6, <1>7, <1>8, HandleStep(w) DEF HandleStep

LEMMA SweepStepKnown ==
  ASSUME Typed, Known, NEW j \in Janitor, SweepBegin(j) \/ SweepStep(j),
         \A s \in Sid : e2b[s] # "none" => e2b'[s] # "none"
  PROVE  Known'
<1> USE ConstantsAssumption
    DEF ConstantsAssumption, Typed, TypeOK, Thread, Live, dbVars, processVars, workerVars,
        janitorVars, At, Goto, Call, RowsIn, Known
<1>1. CASE ReapBegin(j)
  BY <1>1 DEF ReapBegin, Begin
<1>2. CASE ReconcileBegin(j) \/ ShutdownBegin(j)
  BY <1>2 DEF ReconcileBegin, ShutdownBegin, Begin
<1>3. ASSUME NEW s \in Sid, Visit(j, s)
      PROVE  Known'
  BY <1>3 DEF Visit
<1>4. CASE ReapStale(j)
  BY <1>4 DEF ReapStale, NextLoop
<1>9. CASE ShutdownStale(j)
  BY <1>9 DEF ShutdownStale, NextLoop
<1>5. CASE ReapForeign(j)
  BY <1>5 DEF ReapForeign, NextLoop
<1>6. CASE ReconcileCleaning(j)
  BY <1>6 DEF ReconcileCleaning, NextLoop
<1>7. CASE ShutdownCleaning(j)
  BY <1>7 DEF ShutdownCleaning, NextLoop
<1>8. CASE SweepEnd(j)
  BY <1>8 DEF SweepEnd
<1> HIDE DEF Known, Typed
<1> QED BY <1>1, <1>2, <1>3, <1>4, <1>5, <1>6, <1>7, <1>8, <1>9 DEF SweepBegin, SweepStep

LEMMA EnvironmentKnown ==
  ASSUME Typed, Known, Environment,
         \A s \in Sid : e2b[s] # "none" => e2b'[s] # "none"
  PROVE  Known'
<1> USE ConstantsAssumption
    DEF ConstantsAssumption, Typed, TypeOK, Thread, dbVars, processVars, workerVars,
        janitorVars, Known
<1>1. ASSUME NEW s \in Sid, Expire(s) \/ Heartbeat(s) \/ E2BTimeout(s) \/ ForeignCreate(s)
      PROVE  Known'
  BY <1>1 DEF Expire, Heartbeat, E2BTimeout, ForeignCreate
<1>2. ASSUME NEW p \in Process, Crash(p)
      PROVE  Known'
  BY <1>2 DEF Crash
<1>3. ASSUME NEW p \in Process, Restart(p)
      PROVE  Known'
  BY <1>3 DEF Restart
<1> HIDE DEF Known, Typed
<1> QED BY <1>1, <1>2, <1>3 DEF Environment

LEMMA NextKnown == Typed /\ Known /\ [Next]_vars => Known'
<1> SUFFICES ASSUME Typed, Known, [Next]_vars PROVE Known'
  OBVIOUS
<1>1. \A s \in Sid : e2b[s] # "none" => e2b'[s] # "none"
  BY E2BEvolves DEF Evolves
<1>2. CASE Next
  BY <1>1, <1>2, KillStepKnown, BlockStepKnown, HandleStepKnown, SweepStepKnown,
     EnvironmentKnown DEF Next
<1>3. CASE UNCHANGED vars
  BY <1>3 DEF vars, dbVars, processVars, workerVars, janitorVars, Known
<1> QED BY <1>2, <1>3

\* A killer that has confirmed its sandbox dead.
Confirmed == {t \in Thread : pc[t] \in {"cleanGet", "cleanPut", "ports"}}

\* Only a killer marks a row CLEANED, and only is_running makes it one that may.
CleaningRule ==
  /\ \A s \in Sid : row'[s] = "cleaned" =>
       row[s] = "cleaned" \/ \E t \in Confirmed : target[t] = s
  /\ \A t \in Confirmed' : /\ target'[t] = target[t]
                           /\ t \in Confirmed \/ (pc[t] = "confirm" /\ SeenDead(t))

LEMMA CleaningRuleHolds ==
  ASSUME Typed, [Next]_vars
  PROVE  CleaningRule
<1> USE ConstantsAssumption
    DEF ConstantsAssumption, Typed, TypeOK, Thread, Confirmed, At, Goto, Call, Done, Base,
        WriteRow, dbVars, processVars, workerVars, janitorVars
<1>1. ASSUME NEW t \in Thread, KillStep(t)
      PROVE  CleaningRule
  <2>1. CASE Claim(t) \/ Kill(t) \/ KillFails(t) \/ ConfirmDead(t)
    BY <2>1 DEF Claim, Kill, KillFails, ConfirmDead, CleaningRule
  <2>2. ASSUME Return(t) \/ Raise(t)
        PROVE  \A u \in Confirmed' : target'[u] = target[u] /\ u \in Confirmed
    <3>1. CASE t \in Worker /\ LeaveKill(t)
      BY <3>1 DEF LeaveKill
    <3>2. CASE t \in Janitor /\ (Call(t, NoSid, "sweep") \/ Call(t, NoSid, "idle"))
      BY <3>2
    <3> QED BY <2>2, <3>1, <3>2 DEF Return, Raise
  <2>3. CASE ClaimRefused(t) \/ ConfirmFails(t) \/ DeletePorts(t)
    BY <2>2, <2>3 DEF ClaimRefused, ConfirmFails, DeletePorts, CleaningRule
  <2>4. CASE CleanGet(t)
    BY <2>2, <2>4 DEF CleanGet, CleaningRule
  <2>5. CASE CleanPut(t)
    BY <2>2, <2>5 DEF CleanPut, CleaningRule
  <2> QED BY <1>1, <2>1, <2>3, <2>4, <2>5 DEF KillStep
<1>2. ASSUME NEW w \in Worker, BlockStep(w)
      PROVE  CleaningRule
  BY <1>2 DEF BlockStep, Create, Record, RecordFails, Register, EnterBody, Exit, LeaveBlock,
              CleaningRule
<1>3. ASSUME NEW w \in Worker, HandleStep(w)
      PROVE  CleaningRule
  BY <1>3 DEF HandleStep, PauseCall, ResumeCall, ForkCall, ExposePort, ClosePort, AdoptCall,
              Release, PauseGet, ResumeGet, SetStateGet, PausePut, ResumePut, RecordHandle,
              CleaningRule
<1>4. ASSUME NEW w \in Worker, InterruptStep(w)
      PROVE  CleaningRule
  BY <1>4 DEF InterruptStep, InterruptCreate, InterruptRecorded, InterruptHeartbeat,
              InterruptBlock, InterruptCall,
              LeaveBlock, LeaveKill, CleaningRule
<1>5. ASSUME NEW j \in Janitor, SweepBegin(j) \/ SweepStep(j)
      PROVE  CleaningRule
  BY <1>5 DEF SweepBegin, ReapBegin, ReconcileBegin, ShutdownBegin, Begin, SweepStep, Visit,
              ReapStale, ReapForeign, ReconcileCleaning, ShutdownCleaning, ShutdownStale,
              NextLoop, SweepEnd, CleaningRule
<1>6. CASE Environment
  BY <1>6 DEF Environment, Expire, Heartbeat, E2BTimeout, ForeignCreate, Crash, Restart,
              CleaningRule
<1>7. CASE UNCHANGED vars
  BY <1>7 DEF vars, CleaningRule
<1> HIDE DEF Typed
<1> QED BY <1>1, <1>2, <1>3, <1>4, <1>5, <1>6, <1>7, [Next]_vars DEF Next

Dead ==
  /\ \A s \in Sid : e2b[s] # "paused"
  /\ CleanedIsDead
  /\ \A t \in Confirmed : e2b[target[t]] = "dead"

LEMMA NextDead ==
  ASSUME "pause" \notin Api, Typed, Known, Dead, [Next]_vars
  PROVE  Dead'
<1>1. \A s \in Sid : Evolves(e2b[s], e2b'[s])
  BY E2BEvolves
<1>2. CleaningRule
  BY CleaningRuleHolds
<1>3. \A s \in Sid : e2b'[s] # "paused"
  BY <1>1 DEF Dead, Evolves
<1>4. \A t \in Thread : t \in Confirmed \/ pc[t] = "confirm" => target[t] \in Sid
  BY DEF Typed, Shape, Confirmed, KillSteps
<1>5. CleanedIsDead'
  BY <1>1, <1>2, <1>4 DEF Dead, CleanedIsDead, CleaningRule, Evolves
<1>6. ASSUME NEW t \in Confirmed'
      PROVE  e2b'[target'[t]] = "dead"
  <2>1. t \in Thread
    BY DEF Confirmed
  <2>2. CASE t \in Confirmed
    BY <1>1, <1>2, <1>4, <2>1, <2>2 DEF Dead, CleaningRule, Evolves
  <2>3. CASE pc[t] = "confirm" /\ SeenDead(t)
    <3>1. target[t] \in Sid /\ e2b[target[t]] \notin {"none", "paused", "running"}
      BY <1>4, <2>1, <2>3 DEF SeenDead, Live, Known, Dead
    <3>2. e2b[target[t]] = "dead"
      BY <3>1 DEF Typed, TypeOK, Live
    <3> QED BY <1>1, <1>2, <3>1, <3>2 DEF CleaningRule, Evolves
  <2> QED BY <1>2, <2>2, <2>3 DEF CleaningRule
<1> QED BY <1>3, <1>5, <1>6 DEF Dead

\* Without pause, a row says CLEANED only of a dead sandbox, whatever sweeps,
\* forced kills, forks, adoptions, faults and crashes occur, and however many
\* threads and processes there are.
THEOREM NoFalseClean ==
  ASSUME "pause" \notin Api
  PROVE  Spec => []CleanedIsDead
<1>1. Init => Known /\ Dead
  BY InitKnown DEF Init, Dead, CleanedIsDead, Confirmed
<1>2. Typed /\ Known /\ Dead /\ [Next]_vars => Known' /\ Dead'
  BY NextKnown, NextDead
<1>3. Dead => CleanedIsDead
  BY DEF Dead
<1> QED BY AlwaysTyped, <1>1, <1>2, <1>3, PTL DEF Spec

-----------------------------------------------------------------------------
(* Held sandboxes are left alone.  For an application of with blocks and   *)
(* sweeps, whose heartbeats come in time: a sandbox belongs to one worker  *)
(* from its creation to the end of its block, its row is neither stale nor *)
(* listed, and so no other thread can come to kill it.                     *)

PlainCalls == {"acquire", "restore", "expose", "close_port", "reap", "reconcile"}

Plain == Api \subseteq PlainCalls /\ "late" \notin Faults

Owning(w) == pc[w] \in {"created", "recorded", "waiting", "body"}

Ownership ==
  /\ \A w \in Worker : /\ handles[w] = {}
                       /\ pc[w] \notin CallSteps
                       /\ target[w] \in {NoSid, cur[w]}
                       /\ pc[w] = "idle" => target[w] = NoSid
  /\ \A v, w \in Worker : cur[w] \in Sid /\ cur[v] = cur[w] => v = w
  /\ \A j \in Janitor : job[j] \notin ForcedLoops
  /\ \A t \in Thread : ProcOf[t] \notin up => pc[t] = "idle"

Untouched ==
  \A w \in Worker : Owning(w) =>
    /\ row[cur[w]] = (IF pc[w] = "created" THEN "none" ELSE "running")
    /\ cur[w] \notin stale
    /\ \A t \in Thread : target[t] # cur[w]
    /\ \A j \in Janitor : cur[w] \notin todo[j]
    /\ pc[w] \in {"waiting", "body"} => cur[w] \in beats[ProcOf[w]] \cup strays[ProcOf[w]]

Claimed ==
  \A t \in Thread : pc[t] \in {"kill", "confirm", "cleanGet", "cleanPut"} =>
    row[target[t]] \in {"cleaning", "cleaned"}

Kept == Ownership /\ Untouched /\ Claimed

LEMMA InitKept == Init => Kept
  BY ConstantsAssumption
     DEF ConstantsAssumption, Init, Kept, Ownership, Untouched, Claimed, Owning, Thread,
         CallSteps, ForcedLoops

LEMMA KillStepKept ==
  ASSUME Plain, Typed, Kept, NEW t \in Thread, KillStep(t)
  PROVE  Kept'
<1> USE ConstantsAssumption
    DEF ConstantsAssumption, Typed, TypeOK, Shape, Thread, KillSteps, dbVars, processVars,
        workerVars, janitorVars, At, Goto, Call, WriteRow, Kept, Ownership, Untouched, Claimed,
        Owning, CallSteps, Forced, Base
<1>1. CASE Claim(t)
  BY <1>1 DEF Claim
<1>2. CASE Kill(t) \/ KillFails(t) \/ ConfirmDead(t)
  BY <1>2 DEF Kill, KillFails, ConfirmDead
<1>3. ASSUME Return(t) \/ Raise(t), UNCHANGED <<up, beats, strays>>, pc[t] \in KillSteps,
             stale' \subseteq stale,
             \A s \in Sid : row'[s] = row[s] \/ (s = target[t] /\ row'[s] = "cleaned")
      PROVE  Kept'
  <2>1. CASE t \in Worker /\ LeaveKill(t)
    <3>1. handles' = handles
      BY <2>1, KeptHandles DEF Plain, PlainCalls
    <3> QED BY <1>3, <2>1, <3>1 DEF LeaveKill
  <2>2. CASE t \in Janitor /\ Call(t, NoSid, "sweep") /\ UNCHANGED <<workerVars, janitorVars>>
    BY <1>3, <2>2
  <2>3. CASE /\ t \in Janitor /\ Call(t, NoSid, "idle") /\ UNCHANGED workerVars
             /\ todo' = [todo EXCEPT ![t] = {}] /\ job' = [job EXCEPT ![t] = "none"]
    BY <1>3, <2>3 DEF ForcedLoops
  <2> HIDE DEF Kept, Typed, Call
  <2> QED BY <1>3, <2>1, <2>2, <2>3 DEF Return, Raise
<1>4. CASE ClaimRefused(t) \/ ConfirmFails(t) \/ DeletePorts(t)
  BY <1>3, <1>4 DEF ClaimRefused, ConfirmFails, DeletePorts
<1>5. CASE CleanGet(t)
  <2>1. CASE Raise(t)
    BY <1>3, <1>5, <2>1 DEF CleanGet
  <2>2. CASE Goto(t, "cleanPut") /\ UNCHANGED <<inflight, target, workerVars, janitorVars>>
    BY <1>5, <2>2 DEF CleanGet
  <2> QED BY <1>5, <2>1, <2>2 DEF CleanGet
<1>6. CASE CleanPut(t)
  <2>1. Goto(t, "ports") /\ UNCHANGED <<inflight, target, workerVars, janitorVars>>
    BY <1>6 DEF CleanPut
  <2> QED BY <1>6, <2>1 DEF CleanPut
<1> HIDE DEF Kept, Typed
<1> QED BY <1>1, <1>2, <1>4, <1>5, <1>6, KillStep(t) DEF KillStep

LEMMA BlockStepKept ==
  ASSUME Plain, Typed, Known, Kept, NEW w \in Worker, BlockStep(w) \/ InterruptStep(w)
  PROVE  Kept'
<1> USE ConstantsAssumption
    DEF ConstantsAssumption, Typed, TypeOK, Shape, Thread, KillSteps, CallSteps, dbVars,
        processVars, workerVars, janitorVars, At, Goto, Call, WriteRow, Kept, Ownership,
        Untouched, Claimed, Owning
<1>1. ASSUME NEW s \in Sid, NEW api \in {"acquire", "restore"}, Create(w, s, api)
      PROVE  Kept'
  <2>1. row[s] = "none" /\ s \notin stale
    BY <1>1 DEF Create, Known
  <2>2. (\A t \in Thread : target[t] # s) /\ (\A j \in Janitor : s \notin todo[j])
    BY <1>1 DEF Create, Known
  <2>3. \A v \in Worker : cur[v] # s
    BY <1>1 DEF Create, Known
  <2>4. /\ pc' = [pc EXCEPT ![w] = "created"] /\ cur' = [cur EXCEPT ![w] = s]
        /\ row' = row /\ target' = target /\ handles' = handles /\ job' = job /\ up' = up
        /\ pc[w] = "idle" /\ ProcOf[w] \in up
    BY <1>1 DEF Create
  <2>7. Claimed'
    BY <2>4
  <2>8. target[w] = NoSid
    BY <2>4
  <2>9. Ownership'
    BY <2>3, <2>4, <2>8
  <2>5. \A v \in Worker : v # w => (Owning(v)' => Owning(v)) /\ cur'[v] = cur[v]
    BY <1>1 DEF Create
  <2>6. Untouched'
    BY <1>1, <2>1, <2>2, <2>3, <2>5 DEF Create
  <2> QED BY <2>6, <2>7, <2>9
<1>2. CASE Record(w)
  BY <1>2 DEF Record
<1>3. CASE RecordFails(w)
  BY <1>3 DEF RecordFails
<1>4. CASE Register(w)
  <2>1. /\ pc' = [pc EXCEPT ![w] = "waiting"] /\ cur' = cur /\ pc[w] = "recorded"
        /\ row' = row /\ target' = target /\ handles' = handles /\ job' = job /\ up' = up
        /\ todo' = todo /\ stale' \subseteq stale /\ ProcOf[w] \in up
    BY <1>4 DEF Register
  <2>4. Ownership'
    BY <2>1
  <2>5. Claimed'
    BY <2>1
  <2>2. /\ \A p \in Process : beats[p] \subseteq beats'[p] /\ strays[p] \subseteq strays'[p]
        /\ cur[w] \in beats'[ProcOf[w]] \cup strays'[ProcOf[w]]
    <3>1. CASE /\ beats' = [beats EXCEPT ![ProcOf[w]] = @ \cup {cur[w]}]
               /\ strays' = strays
      BY <3>1
    <3>2. CASE /\ strays' = [strays EXCEPT ![ProcOf[w]] = @ \cup {cur[w]}]
               /\ beats' = beats
      BY <3>2
    <3> QED BY <1>4, <3>1, <3>2 DEF Register
  <2>3. Untouched'
    <3> SUFFICES ASSUME NEW v \in Worker, Owning(v)'
                 PROVE  /\ row'[cur'[v]] = (IF pc'[v] = "created" THEN "none" ELSE "running")
                        /\ cur'[v] \notin stale'
                        /\ \A t \in Thread : target'[t] # cur'[v]
                        /\ \A j \in Janitor : cur'[v] \notin todo'[j]
                        /\ pc'[v] \in {"waiting", "body"}
                             => cur'[v] \in beats'[ProcOf[v]] \cup strays'[ProcOf[v]]
      OBVIOUS
    <3>1. Owning(v) /\ cur'[v] = cur[v]
      BY <2>1
    <3>2. CASE v = w
      BY <2>1, <2>2, <3>1, <3>2
    <3>3. CASE v # w
      BY <2>1, <2>2, <3>1, <3>3
    <3> QED BY <3>2, <3>3
  <2> QED BY <2>3, <2>4, <2>5
<1>5. CASE EnterBody(w)
  BY <1>5 DEF EnterBody
<1>6. ASSUME NEW free, LeaveBlock(w, free), Owning(w)
      PROVE  Kept'
  BY <1>6 DEF LeaveBlock, StopBeating
<1>7. CASE InterruptCreate(w)
  BY <1>7 DEF InterruptCreate
<1>8. CASE InterruptRecorded(w)
  <2>1. CASE LeaveBlock(w, 0)
    BY <1>6, <1>8, <2>1 DEF InterruptRecorded
  <2>2. CASE cur' = [cur EXCEPT ![w] = NoSid] /\ Goto(w, "idle") /\
             UNCHANGED <<e2b, dbVars, up, beats, strays, permits, target, via, handles,
                         janitorVars>>
    BY <1>8, <2>2 DEF InterruptRecorded
  <2> HIDE DEF Kept, Typed, Goto
  <2> QED BY <1>8, <2>1, <2>2 DEF InterruptRecorded
<1>9. CASE InterruptCall(w)
  <2>1. handles' = handles /\ LeaveKill(w)
    BY <1>9, KeptHandles DEF InterruptCall, Plain, PlainCalls
  <2> QED BY <1>9, <2>1 DEF InterruptCall, LeaveKill, Base
<1>11. CASE InterruptHeartbeat(w)
  <2>1. /\ \A p \in Process : strays[p] \subseteq strays'[p]
        /\ pc[w] = "recorded" /\ cur[w] \in Sid /\ target[w] = NoSid
    BY <1>11 DEF InterruptHeartbeat
  <2>2. CASE target' = [target EXCEPT ![w] = cur[w]] /\ pc' = [pc EXCEPT ![w] = "claim"]
             /\ cur' = cur
    BY <1>11, <2>1, <2>2 DEF InterruptHeartbeat
  <2>3. CASE pc' = [pc EXCEPT ![w] = "idle"] /\ target' = target
             /\ cur' = [cur EXCEPT ![w] = NoSid]
    BY <1>11, <2>1, <2>3 DEF InterruptHeartbeat
  <2> QED BY <1>11, <2>2, <2>3 DEF InterruptHeartbeat
<1>10. CASE Exit(w) \/ InterruptBlock(w)
  BY <1>6, <1>10 DEF Exit, InterruptBlock
<1> HIDE DEF Kept, Typed
<1> QED BY <1>1, <1>2, <1>3, <1>4, <1>5, <1>7, <1>8, <1>9, <1>10, <1>11
        DEF BlockStep, InterruptStep

LEMMA HandleStepKept ==
  ASSUME Plain, Typed, Kept, NEW w \in Worker, HandleStep(w)
  PROVE  Kept'
<1> USE DEF Plain, PlainCalls, Kept, Ownership
<1>1. ASSUME NEW s \in Sid, ExposePort(w, s) \/ ClosePort(w, s)
      PROVE  Kept'
  BY <1>1 DEF ExposePort, RecordForward, ClosePort, Untouched, Claimed, Owning, processVars,
              workerVars,
              janitorVars
<1>2. ~ (PauseGet(w) \/ ResumeGet(w) \/ PausePut(w) \/ ResumePut(w) \/ RecordHandle(w))
  BY DEF PauseGet, ResumeGet, SetStateGet, PausePut, ResumePut, RecordHandle, At, CallSteps
<1>3. \A s, clone \in Sid : ~ (PauseCall(w, s) \/ ResumeCall(w, s) \/ ForkCall(w, s, clone)
                                \/ AdoptCall(w, s) \/ Release(w, s))
  BY DEF PauseCall, ResumeCall, ForkCall, AdoptCall, Release
<1> QED BY <1>1, <1>2, <1>3, HandleStep(w) DEF HandleStep

LEMMA SweepStepKept ==
  ASSUME Plain, Typed, Kept, NEW j \in Janitor, SweepBegin(j) \/ SweepStep(j)
  PROVE  Kept'
<1>7. ~ ShutdownBegin(j) /\ ~ ReapForeign(j)
  BY DEF ShutdownBegin, ReapForeign, Plain, PlainCalls
<1>9. ~ ShutdownCleaning(j)
  BY DEF ShutdownCleaning, NextLoop, Kept, Ownership, ForcedLoops
<1> USE ConstantsAssumption
    DEF ConstantsAssumption, Plain, PlainCalls, Typed, TypeOK, Shape, Thread, KillSteps,
        CallSteps, ForcedLoops, dbVars, processVars, workerVars, janitorVars, At, Goto, Call,
        RowsIn, Kept, Ownership, Untouched, Claimed, Owning
<1>1. CASE ReapBegin(j)
  BY <1>1 DEF ReapBegin, Begin
<1>2. CASE ReconcileBegin(j)
  BY <1>2 DEF ReconcileBegin, Begin
<1>3. ASSUME NEW s \in Sid, Visit(j, s)
      PROVE  Kept'
  BY <1>3 DEF Visit, Forced
<1>4. CASE ReapStale(j)
  BY <1>4 DEF ReapStale, NextLoop
<1>5. CASE ReconcileCleaning(j)
  BY <1>5 DEF ReconcileCleaning, NextLoop
<1>6. CASE SweepEnd(j)
  BY <1>6 DEF SweepEnd
<1>8. CASE ShutdownStale(j)
  BY <1>8 DEF ShutdownStale, NextLoop
<1> HIDE DEF Kept, Typed
<1> QED BY <1>1, <1>2, <1>3, <1>4, <1>5, <1>6, <1>7, <1>8, <1>9 DEF SweepBegin, SweepStep

LEMMA EnvironmentKept ==
  ASSUME Plain, Typed, Kept, Environment
  PROVE  Kept'
<1> USE ConstantsAssumption
    DEF ConstantsAssumption, Typed, TypeOK, Shape, Thread, dbVars, processVars, workerVars,
        janitorVars, Kept, Ownership, Untouched, Claimed, Owning
<1>1. ASSUME NEW s \in Sid, Expire(s)
      PROVE  Kept'
  <2>1. \A w \in Worker : Owning(w) => cur[w] # s
    BY <1>1 DEF Expire, Plain, Beating, At
  <2> QED BY <1>1, <2>1 DEF Expire
<1>2. ASSUME NEW s \in Sid, Heartbeat(s) \/ E2BTimeout(s) \/ ForeignCreate(s)
      PROVE  Kept'
  <2>1. /\ stale' \subseteq stale
        /\ UNCHANGED <<row, processVars, pc, target, workerVars, janitorVars>>
    BY <1>2 DEF Heartbeat, E2BTimeout, ForeignCreate
  <2> QED BY <2>1
<1>3. ASSUME NEW p \in Process, Crash(p)
      PROVE  Kept'
  <2>1. \A t \in Thread : pc'[t] # "idle" => /\ ProcOf[t] # p /\ pc'[t] = pc[t]
                                            /\ target'[t] = target[t]
    BY <1>3 DEF Crash
  <2>2. \A t \in Thread : target'[t] \in {target[t], NoSid}
    BY <1>3 DEF Crash
  <2>10. up' = up \ {p}
    BY <1>3 DEF Crash
  <2>11. \A t \in Thread : ProcOf[t] = p => pc'[t] = "idle"
    BY <1>3 DEF Crash
  <2>3. \A w \in Worker :
          ProcOf[w] = p => /\ cur'[w] = NoSid /\ target'[w] = NoSid
                           /\ pc'[w] = "idle" /\ handles'[w] = {}
    BY <1>3 DEF Crash
  <2>12. \A w \in Worker :
          ProcOf[w] # p => /\ cur'[w] = cur[w] /\ target'[w] = target[w]
                           /\ pc'[w] = pc[w] /\ handles'[w] = handles[w]
    BY <1>3 DEF Crash
  <2>4. \A j \in Janitor : todo'[j] \subseteq todo[j] /\ job'[j] \in {job[j], "none"}
    BY <1>3 DEF Crash
  <2>5. Ownership'
    <3>1. \A t \in Thread : ProcOf[t] \notin up' => pc'[t] = "idle"
      BY <2>1, <2>10, <2>11
    <3>2. \A j \in Janitor : job'[j] \notin ForcedLoops
      BY <2>4 DEF ForcedLoops
    <3>3. \A v \in Worker : /\ handles'[v] = {}
                            /\ pc'[v] \notin CallSteps
                            /\ target'[v] \in {NoSid, cur'[v]}
                            /\ pc'[v] = "idle" => target'[v] = NoSid
      BY <2>3, <2>12 DEF CallSteps
    <3>4. \A u, v \in Worker : cur'[v] \in Sid /\ cur'[u] = cur'[v] => u = v
      BY <2>3, <2>12
    <3> QED BY <3>1, <3>2, <3>3, <3>4
  <2>6. Claimed'
    BY <1>3, <2>1 DEF Crash
  <2>7. \A q \in Process : q # p => beats'[q] = beats[q] /\ strays'[q] = strays[q]
    BY <1>3 DEF Crash
  <2>8. UNCHANGED <<row, stale>>
    BY <1>3 DEF Crash
  <2>9. Untouched'
    BY <2>2, <2>3, <2>12, <2>4, <2>7, <2>8
  <2> QED BY <2>5, <2>6, <2>9
<1>4. ASSUME NEW p \in Process, Restart(p)
      PROVE  Kept'
  BY <1>4 DEF Restart
<1> HIDE DEF Kept, Typed
<1> QED BY <1>1, <1>2, <1>3, <1>4 DEF Environment

LEMMA NextKept == Plain /\ Typed /\ Known /\ Kept /\ [Next]_vars => Kept'
<1> SUFFICES ASSUME Plain, Typed, Known, Kept, [Next]_vars PROVE Kept'
  OBVIOUS
<1>1. CASE Next
  BY <1>1, KillStepKept, BlockStepKept, HandleStepKept, SweepStepKept, EnvironmentKept DEF Next
<1>2. CASE UNCHANGED vars
  BY <1>2 DEF vars, dbVars, processVars, workerVars, janitorVars, Kept, Ownership, Untouched,
              Claimed, Owning
<1> QED BY <1>1, <1>2

\* For an application of with blocks, reaps and reconciles whose heartbeats
\* come in time, no sweep claims or kills the sandbox of a worker that is in
\* its block: whatever the number of threads and processes, and under every
\* fault and crash.
THEOREM HeldLeftAlone ==
  ASSUME Plain
  PROVE  Spec => []HeldNeverClaimed
<1>1. Init => Known /\ Kept
  BY InitKnown, InitKept
<1>2. Typed /\ Known /\ Kept /\ [Next]_vars => Known' /\ Kept'
  BY NextKnown, NextKept
<1>3. Typed /\ Kept => HeldNeverClaimed
  <2> SUFFICES ASSUME Typed, Kept, NEW w \in Worker, InBlock(w)
               PROVE  /\ row[cur[w]] = "running"
                      /\ \A t \in Thread : pc[t] \in KillSteps => target[t] # cur[w]
    BY DEF HeldNeverClaimed
  <2>1. Owning(w) \/ (pc[w] \in KillSteps /\ target[w] # cur[w])
    BY DEF InBlock, InBody, Owning, Kept, Ownership
  <2>2. ~ (pc[w] \in KillSteps /\ target[w] # cur[w])
    BY ConstantsAssumption
       DEF Kept, Ownership, Typed, Shape, Thread, ConstantsAssumption
  <2>3. pc[w] # "created"
    BY DEF InBlock, InBody, CallSteps, KillSteps
  <2> QED BY <2>1, <2>2, <2>3 DEF Kept, Untouched
<1> QED BY AlwaysTyped, <1>1, <1>2, <1>3, PTL DEF Spec

\* A step moves every row along can_transition_to.
Legal == \A s \in Sid : row[s] # "none" => CanTransitionTo(row[s], row'[s])

LEMMA RowsMoveLegally ==
  ASSUME Plain, Typed, Kept, [Next]_vars
  PROVE  Legal
<1>1. row' = row => Legal
  BY DEF Legal, CanTransitionTo
<1>2. ASSUME NEW t \in Thread, KillStep(t)
      PROVE  Legal
  <2>1. CASE Claim(t)
    BY <2>1 DEF Claim, Claimable, WriteRow, Legal, CanTransitionTo, Transitions, Typed, TypeOK
  <2>2. CASE CleanPut(t)
    <3>1. row[target[t]] \in {"cleaning", "cleaned"}
      BY <2>2 DEF CleanPut, At, Kept, Claimed
    <3> QED BY <2>2, <3>1 DEF CleanPut, WriteRow, Legal, CanTransitionTo, Transitions, Typed,
                                TypeOK
  <2>3. CASE UNCHANGED row
    BY <1>1, <2>3
  <2> QED BY <1>2, <2>1, <2>2, <2>3
          DEF KillStep, ClaimRefused, Kill, KillFails, ConfirmDead, ConfirmFails, CleanGet,
              DeletePorts, dbVars
<1>3. ASSUME NEW w \in Worker, BlockStep(w) \/ InterruptStep(w)
      PROVE  Legal
  <2>1. CASE Record(w)
    BY <2>1 DEF Record, At, WriteRow, Kept, Untouched, Owning, Legal, CanTransitionTo,
                       Typed, TypeOK
  <2>2. CASE UNCHANGED row
    BY <1>1, <2>2
  <2> QED BY <1>3, <2>1, <2>2
          DEF BlockStep, Create, RecordFails, Register, EnterBody, Exit, LeaveBlock,
              InterruptStep, InterruptCreate, InterruptRecorded, InterruptHeartbeat,
              InterruptBlock, InterruptCall,
              dbVars
<1>4. ASSUME NEW w \in Worker, HandleStep(w)
      PROVE  UNCHANGED row
  <2>1. pc[w] \notin CallSteps
    BY DEF Kept, Ownership
  <2> QED BY <1>4, <2>1
          DEF HandleStep, PauseCall, ResumeCall, ForkCall, ExposePort, ClosePort, AdoptCall,
              Release, PauseGet, ResumeGet, SetStateGet, PausePut, ResumePut, RecordHandle,
              At, CallSteps, dbVars
<1>5. ASSUME NEW j \in Janitor, SweepBegin(j) \/ SweepStep(j)
      PROVE  UNCHANGED row
  BY <1>5 DEF SweepBegin, ReapBegin, ReconcileBegin, ShutdownBegin, Begin, SweepStep, Visit,
              ReapStale, ReapForeign, ReconcileCleaning, ShutdownCleaning, ShutdownStale,
              NextLoop, SweepEnd, dbVars
<1>6. CASE Environment
  <2>1. UNCHANGED row
    BY <1>6 DEF Environment, Expire, Heartbeat, E2BTimeout, ForeignCreate, Crash, Restart, dbVars
  <2> QED BY <1>1, <2>1
<1>7. CASE UNCHANGED vars
  BY <1>1, <1>7 DEF vars, dbVars
<1>8. CASE Next
  <2>1. CASE \E t \in Thread : KillStep(t)
    BY <1>2, <2>1
  <2>2. CASE \E w \in Worker : BlockStep(w) \/ HandleStep(w) \/ InterruptStep(w)
    BY <1>1, <1>3, <1>4, <2>2
  <2>3. CASE \E j \in Janitor : SweepBegin(j) \/ SweepStep(j)
    BY <1>1, <1>5, <2>3
  <2> QED BY <1>6, <1>8, <2>1, <2>2, <2>3 DEF Next
<1> QED BY <1>7, <1>8

\* For the same applications, every write of a row moves it along
\* can_transition_to, the forced and the unchecked ones included.
THEOREM WritesAreLegal ==
  ASSUME Plain
  PROVE  Spec => EveryWriteLegal
<1>1. Init => Known /\ Kept
  BY InitKnown, InitKept
<1>2. Typed /\ Known /\ Kept /\ [Next]_vars => Known' /\ Kept'
  BY NextKnown, NextKept
<1>3. Typed /\ Kept /\ [Next]_vars
        => [\A s \in Sid : row[s] # "none" => CanTransitionTo(row[s], row'[s])]_vars
  BY RowsMoveLegally DEF Legal
<1> QED BY AlwaysTyped, <1>1, <1>2, <1>3, PTL DEF Spec, EveryWriteLegal

=============================================================================
