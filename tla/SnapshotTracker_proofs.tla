------------------------ MODULE SnapshotTracker_proofs ------------------------
(***************************************************************************)
(* Theorems about SnapshotTracker and the RateLimiter under it, for any    *)
(* callers, processes, snapshots, interval and faults.                     *)
(***************************************************************************)
EXTENDS SnapshotTracker, TLAPS

-----------------------------------------------------------------------------
(* The limiter.                                                            *)

\* The holder of the lock sleeps, and to the end of the gap.
Sleepers ==
  /\ \A p \in Process : holder[p] # None => slot[holder[p]] = "sleep" /\ ProcOf[holder[p]] = p
  /\ \A c \in Caller : slot[c] = "sleep" =>
       holder[ProcOf[c]] = c /\ gap[ProcOf[c]] <= left[c]

\* What is left of the gap makes up for the time since the last grant.
Spaced == \A p \in Process : gap[p] + since[p] >= Interval /\ gap[p] <= Interval

Limited == LimiterTypeOK /\ Sleepers /\ Spaced

\* Any caller may queue, and a caller that is not asleep may leave.
Queue(c) ==
  /\ slot[c] # "sleep"
  /\ slot' \in {[slot EXCEPT ![c] = "lock"], [slot EXCEPT ![c] = "out"]}
  /\ UNCHANGED <<holder, gap, left, since>>

\* Reset of a process's limiter.
Renew(p) ==
  /\ slot' = [c \in Caller |-> IF ProcOf[c] = p THEN "out" ELSE slot[c]]
  /\ left' = [c \in Caller |-> IF ProcOf[c] = p THEN 0 ELSE left[c]]
  /\ holder' = [holder EXCEPT ![p] = None]
  /\ gap' = [gap EXCEPT ![p] = 0]
  /\ since' = [since EXCEPT ![p] = Interval]

\* What a step of SnapshotTracker does to the limiter.
LimiterNext ==
  \/ \E c \in Caller : GrantAtOnce(c) \/ Sleep(c) \/ Wake(c) \/ GiveUp(c) \/ Queue(c)
  \/ \E p \in Process : Renew(p)
  \/ Tick
  \/ UNCHANGED limiterVars

\* Every step of SnapshotTracker is one of these.
LEMMA StepsOfLimiter ==
  ASSUME [Next]_vars
  PROVE  LimiterNext
<1>1. CASE UNCHANGED vars
  BY <1>1 DEF vars, LimiterNext
<1>2. ASSUME NEW c \in Caller, NEW s \in Snap, SaveCall(c, s) \/ RestoreCall(c, s)
      PROVE  LimiterNext
  BY <1>2 DEF SaveCall, RestoreCall, LimiterNext, Queue, Slot, limiterVars
<1>3. ASSUME NEW c \in Caller, Record(c) \/ RecordFails(c) \/ RestoreCreate(c) \/ CleanupBegin(c)
      PROVE  LimiterNext
  BY <1>3 DEF Record, RecordFails, RestoreCreate, CleanupBegin, LimiterNext, Queue, Slot, limiterVars
<1>4. ASSUME NEW c \in Caller, CleanupStep(c)
      PROVE  LimiterNext
  BY <1>4 DEF CleanupStep, Delete, DeleteFails, Forget, ForgetFails, CleanupEnd, LimiterNext
<1>5. ASSUME NEW c \in Caller, LimiterStep(c)
      PROVE  LimiterNext
  BY <1>5 DEF LimiterStep, LimiterNext
<1>6. ASSUME NEW c \in Caller, Interrupt(c)
      PROVE  LimiterNext
  BY <1>6 DEF Interrupt, LimiterNext, Queue
<1>7. ASSUME NEW p \in Process, Crash(p)
      PROVE  Renew(p)
  <2>1. \A c \in Caller : c \in {d \in Caller : ProcOf[d] = p} <=> ProcOf[c] = p
    OBVIOUS
  <2> QED
    BY <1>7, <2>1 DEF Crash, Renew
<1>8. CASE Tick /\ UNCHANGED trackerVars
  BY <1>8 DEF LimiterNext
<1> QED
  BY <1>1, <1>2, <1>3, <1>4, <1>5, <1>6, <1>7, <1>8 DEF Next, LimiterNext

LEMMA LimitedInit == Init => Limited
BY LimiterAssumption DEF Init, LimiterInit, Limited, LimiterTypeOK, Sleepers, Spaced

\* A grant comes when the gap is over, and so an interval after the last one.
LEMMA GrantLate ==
  ASSUME Limited, NEW c \in Caller, GrantAtOnce(c) \/ Wake(c)
  PROVE  gap[ProcOf[c]] = 0 /\ since[ProcOf[c]] = Interval
<1> DEFINE p == ProcOf[c]
<1>1. /\ p \in Process /\ gap[p] \in Nat /\ since[p] \in 0 .. Interval
      /\ left[c] \in Nat /\ gap[p] + since[p] >= Interval
  BY LimiterAssumption DEF Limited, LimiterTypeOK, Spaced
<1>2. gap[p] = 0
  <2>1. CASE GrantAtOnce(c)
    BY <2>1 DEF GrantAtOnce
  <2>2. CASE Wake(c)
    <3>1. left[c] = 0 /\ slot[c] = "sleep"
      BY <2>2 DEF Wake, Grant, Slot
    <3> QED
      BY <1>1, <3>1 DEF Limited, Sleepers
  <2> QED
    BY <2>1, <2>2
<1> QED
  BY <1>1, <1>2, LimiterAssumption

LEMMA LimitedStep ==
  ASSUME Limited, LimiterNext
  PROVE  Limited'
<1> USE LimiterAssumption
<1>0. \A c \in Caller : ProcOf[c] \in Process
  OBVIOUS
<1>1. ASSUME NEW c \in Caller, GrantAtOnce(c)
      PROVE  Limited'
  <2>1. gap[ProcOf[c]] = 0
    BY <1>1, GrantLate
  <2>2. slot[c] = "lock" /\ holder[ProcOf[c]] = None
    BY <1>1 DEF GrantAtOnce, Grant, Slot, LockFree
  <2>3. LimiterTypeOK'
    BY <1>1, <2>1 DEF Limited, LimiterTypeOK, GrantAtOnce, Grant, Slot
  <2>4. \A d \in Caller : ProcOf[d] = ProcOf[c] => slot[d] # "sleep"
    BY <2>2, <1>0 DEF Limited, Sleepers
  <2>5. Sleepers'
    BY <1>1, <2>2, <2>4, <1>0 DEF Limited, LimiterTypeOK, Sleepers, GrantAtOnce, Grant, Slot
  <2>6. Spaced'
    BY <1>1, <2>1, <1>0 DEF Limited, LimiterTypeOK, Spaced, GrantAtOnce, Grant
  <2> QED
    BY <2>3, <2>5, <2>6 DEF Limited
<1>2. ASSUME NEW c \in Caller, Sleep(c)
      PROVE  Limited'
  <2>1. LimiterTypeOK'
    BY <1>2 DEF Limited, LimiterTypeOK, Sleep, Slot
  <2>2. \A d \in Caller : ProcOf[d] = ProcOf[c] => slot[d] # "sleep"
    BY <1>2, <1>0 DEF Limited, Sleepers, Sleep, LockFree
  <2>3. Sleepers'
    BY <1>2, <2>2, <1>0 DEF Limited, LimiterTypeOK, Sleepers, Sleep, Slot
  <2>4. Spaced'
    BY <1>2 DEF Limited, Spaced, Sleep
  <2> QED
    BY <2>1, <2>3, <2>4 DEF Limited
<1>3. ASSUME NEW c \in Caller, Wake(c)
      PROVE  Limited'
  <2>1. gap[ProcOf[c]] = 0
    BY <1>3, GrantLate
  <2>2. slot[c] = "sleep" /\ holder[ProcOf[c]] = c
    BY <1>3 DEF Wake, Grant, Slot, Limited, Sleepers
  <2>3. LimiterTypeOK'
    BY <1>3, <2>1 DEF Limited, LimiterTypeOK, Wake, Grant, Slot
  <2>4. \A d \in Caller : ProcOf[d] = ProcOf[c] /\ slot[d] = "sleep" => d = c
    BY <2>2 DEF Limited, Sleepers
  <2>5. Sleepers'
    BY <1>3, <2>2, <2>4, <1>0 DEF Limited, LimiterTypeOK, Sleepers, Wake, Grant, Slot
  <2>6. Spaced'
    BY <1>3, <2>1, <1>0 DEF Limited, LimiterTypeOK, Spaced, Wake, Grant
  <2> QED
    BY <2>3, <2>5, <2>6 DEF Limited
<1>4. ASSUME NEW c \in Caller, GiveUp(c)
      PROVE  Limited'
  <2>1. LimiterTypeOK'
    BY <1>4 DEF Limited, LimiterTypeOK, GiveUp, Unlocked
  <2>2. Sleepers'
    BY <1>4, <1>0 DEF Limited, LimiterTypeOK, Sleepers, GiveUp, Unlocked
  <2>3. Spaced'
    BY <1>4 DEF Limited, Spaced, GiveUp
  <2> QED
    BY <2>1, <2>2, <2>3 DEF Limited
<1>5. ASSUME NEW c \in Caller, Queue(c)
      PROVE  Limited'
  <2>1. LimiterTypeOK' /\ Spaced'
    BY <1>5 DEF Limited, LimiterTypeOK, Spaced, Queue
  <2>2. Sleepers'
    BY <1>5, <1>0 DEF Limited, LimiterTypeOK, Sleepers, Queue
  <2> QED
    BY <2>1, <2>2 DEF Limited
<1>6. ASSUME NEW p \in Process, Renew(p)
      PROVE  Limited'
  <2>1. LimiterTypeOK'
    BY <1>6 DEF Limited, LimiterTypeOK, Renew
  <2>2. Sleepers'
    BY <1>6, <1>0 DEF Limited, LimiterTypeOK, Sleepers, Renew
  <2>3. Spaced'
    BY <1>6 DEF Limited, LimiterTypeOK, Spaced, Renew
  <2> QED
    BY <2>1, <2>2, <2>3 DEF Limited
<1>7. CASE Tick
  <2>1. \A n \in Nat : Down(n) \in Nat /\ Down(n) <= n /\ Down(n) >= n - 1
    BY DEF Down
  <2>2. \A m, n \in Nat : m <= n => Down(m) <= Down(n)
    BY DEF Down
  <2>3. LimiterTypeOK'
    <3>1. gap' \in [Process -> Nat] /\ left' \in [Caller -> Nat]
      BY <1>7, <2>1 DEF Limited, LimiterTypeOK, Tick
    <3>2. since' \in [Process -> 0 .. Interval]
      BY <1>7 DEF Limited, LimiterTypeOK, Tick
    <3> QED
      BY <1>7, <3>1, <3>2 DEF Limited, LimiterTypeOK, Tick
  <2>4. Sleepers'
    BY <1>7, <1>0, <2>2 DEF Limited, LimiterTypeOK, Sleepers, Tick
  <2>5. ASSUME NEW p \in Process
        PROVE  gap'[p] + since'[p] >= Interval /\ gap'[p] <= Interval
    <3>1. gap[p] \in Nat /\ since[p] \in 0 .. Interval /\ gap[p] + since[p] >= Interval
          /\ gap[p] <= Interval
      BY DEF Limited, LimiterTypeOK, Spaced
    <3>2. gap'[p] = Down(gap[p])
          /\ since'[p] = IF since[p] < Interval THEN since[p] + 1 ELSE since[p]
      BY <1>7 DEF Tick
    <3> QED
      BY <2>1, <3>1, <3>2
  <2> QED
    BY <2>3, <2>4, <2>5 DEF Limited, Spaced
<1>8. CASE UNCHANGED limiterVars
  BY <1>8 DEF limiterVars, Limited, LimiterTypeOK, Sleepers, Spaced
<1> QED
  BY <1>1, <1>2, <1>3, <1>4, <1>5, <1>6, <1>7, <1>8 DEF LimiterNext

-----------------------------------------------------------------------------
(* The snapshots.                                                          *)

TrackerTypeOK ==
  /\ alive \subseteq Snap /\ deleted \subseteq Snap \ alive
  /\ rows \subseteq Snap /\ lost \subseteq Snap
  /\ step \in [Caller -> {"idle", "saved", "restoring", "cleaning", "deleted"}]
  /\ cur \in [Caller -> Snap \cup {NoSnap}]
  /\ todo \in [Caller -> SUBSET Snap]

\* A caller in save or between the two halves of a deletion has a snapshot,
\* and what a cleanup is about to forget is gone for good.
Erased ==
  /\ \A c \in Caller : step[c] \in {"saved", "deleted"} => cur[c] \in Snap
  /\ \A c \in Caller : step[c] = "deleted" => cur[c] \in deleted

Tracked == TrackerTypeOK /\ Erased /\ SnapshotsTracked

LEMMA TrackedInit == Init => Tracked
BY DEF Init, Tracked, TrackerTypeOK, Erased, SnapshotsTracked

LEMMA TrackedStep ==
  ASSUME Tracked, [Next]_vars
  PROVE  Tracked'
<1> USE DEF Tracked, TrackerTypeOK, Erased, SnapshotsTracked
<1>1. ASSUME NEW c \in Caller, NEW s \in Snap, SaveCall(c, s)
      PROVE  Tracked'
  BY <1>1 DEF SaveCall, Goto
<1>2. ASSUME NEW c \in Caller, NEW s \in Snap, RestoreCall(c, s)
      PROVE  Tracked'
  BY <1>2 DEF RestoreCall, Goto
<1>3. ASSUME NEW c \in Caller, Record(c)
      PROVE  Tracked'
  BY <1>3 DEF Record, Goto
<1>4. ASSUME NEW c \in Caller, RecordFails(c)
      PROVE  Tracked'
  BY <1>4 DEF RecordFails, Goto
<1>5. ASSUME NEW c \in Caller, RestoreCreate(c) \/ CleanupBegin(c) \/ CleanupEnd(c)
      PROVE  Tracked'
  BY <1>5 DEF RestoreCreate, CleanupBegin, CleanupEnd, Goto
<1>6. ASSUME NEW c \in Caller, NEW s \in Snap, Delete(c, s)
      PROVE  Tracked'
  BY <1>6 DEF Delete, Goto
<1>7. ASSUME NEW c \in Caller, NEW s \in Snap, DeleteFails(c, s)
      PROVE  Tracked'
  BY <1>7 DEF DeleteFails, Goto
<1>8. ASSUME NEW c \in Caller, Forget(c) \/ ForgetFails(c)
      PROVE  Tracked'
  BY <1>8 DEF Forget, ForgetFails, Goto
<1>9. ASSUME NEW c \in Caller, Interrupt(c)
      PROVE  Tracked'
  BY <1>9 DEF Interrupt, Goto
<1>10. ASSUME NEW p \in Process, Crash(p)
       PROVE  Tracked'
  BY <1>10 DEF Crash
<1>11. CASE UNCHANGED trackerVars
  BY <1>11 DEF trackerVars
<1> QED
  BY <1>1, <1>2, <1>3, <1>4, <1>5, <1>6, <1>7, <1>8, <1>9, <1>10, <1>11
  DEF Next, vars, CleanupStep, LimiterStep

-----------------------------------------------------------------------------
(* Theorems.                                                               *)

LEMMA InvariantHolds == Spec => [](Limited /\ Tracked)
<1>1. Init => Limited /\ Tracked
  BY LimitedInit, TrackedInit
<1>2. (Limited /\ Tracked) /\ [Next]_vars => (Limited /\ Tracked)'
  BY StepsOfLimiter, LimitedStep, TrackedStep
<1> QED
  BY <1>1, <1>2, PTL DEF Spec

\* The limiter, the table and the account stay in their types, and a gap never
\* exceeds the interval: waiting callers do not push next_allowed ahead.
THEOREM TypeCorrect == Spec => []TypeOK
<1>1. Limited /\ Tracked => TypeOK
  BY DEF Limited, Tracked, TrackerTypeOK, Spaced, TypeOK
<1> QED
  BY <1>1, InvariantHolds, PTL

\* A snapshot is never lost by cleanups, whatever fails, overlaps or crashes.
THEOREM NoSnapshotLost == Spec => []SnapshotsTracked
<1>1. Limited /\ Tracked => SnapshotsTracked
  BY DEF Tracked
<1> QED
  BY <1>1, InvariantHolds, PTL

\* Two grants of a limiter lie at least the interval apart, for any number of
\* threads that queue, oversleep, are interrupted or crash.
THEOREM GrantsAreSpaced == Spec => GrantsSpaced
<1> DEFINE Late == \A c \in Caller :
             slot[c] # "granted" /\ slot'[c] = "granted" => since[ProcOf[c]] = Interval
<1>1. ASSUME Limited, LimiterNext, NEW c \in Caller, slot[c] # "granted", slot'[c] = "granted"
      PROVE  since[ProcOf[c]] = Interval
  <2>1. PICK d \in Caller : GrantAtOnce(d) \/ Wake(d)
    BY <1>1, LimiterAssumption
    DEF LimiterNext, Sleep, GiveUp, Queue, Renew, Tick, Slot, limiterVars, Limited, LimiterTypeOK
  <2>2. c = d
    BY <1>1, <2>1 DEF GrantAtOnce, Wake, Grant, Slot, Limited, LimiterTypeOK
  <2> QED
    BY <1>1, <2>1, <2>2, GrantLate
<1>2. Limited /\ [Next]_vars => [Late]_limiterVars
  BY <1>1, StepsOfLimiter
<1> QED
  BY <1>2, InvariantHolds, PTL DEF Spec, GrantsSpaced

=============================================================================
