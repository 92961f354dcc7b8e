---------------------------- MODULE SnapshotTracker ----------------------------
(***************************************************************************)
(* Snapshots: save, restore_from_snapshot up to its create call, and       *)
(* cleanup_snapshots, by callers of several processes that share table     *)
(* snapshots and the E2B account.  restore waits in the create limiter.    *)
(***************************************************************************)
EXTENDS RateLimiter

CONSTANTS
  Snap,    \* snapshot ids, each handed out at most once
  Keep,    \* the keep argument of every cleanup_snapshots
  Mortal,  \* the processes that may crash
  Faults,  \* the faults that occur
  NoSnap   \* no snapshot

ASSUME TrackerAssumption ==
  /\ Keep \subseteq Snap
  /\ NoSnap \notin Snap
  /\ Mortal \subseteq Process
  /\ Faults \subseteq {"rpc", "db", "interrupt"}

VARIABLES
  alive,    \* the snapshots on E2B
  deleted,  \* history: the snapshots E2B had once
  rows,     \* table snapshots
  lost,     \* history: created and never recorded
  step,     \* what each caller does
  cur,      \* its snapshot
  todo      \* the rows its cleanup has not visited

trackerVars == <<alive, deleted, rows, lost, step, cur, todo>>
vars == <<limiterVars, trackerVars>>

TypeOK ==
  /\ LimiterTypeOK
  /\ alive \subseteq Snap /\ deleted \subseteq Snap \ alive
  /\ rows \subseteq Snap /\ lost \subseteq Snap
  /\ step \in [Caller -> {"idle", "saved", "restoring", "cleaning", "deleted"}]
  /\ cur \in [Caller -> Snap \cup {NoSnap}]
  /\ todo \in [Caller -> SUBSET Snap]
  /\ \A p \in Process : gap[p] <= Interval

Init ==
  /\ LimiterInit
  /\ alive = {} /\ deleted = {} /\ rows = {} /\ lost = {}
  /\ step = [c \in Caller |-> "idle"]
  /\ cur = [c \in Caller |-> NoSnap]
  /\ todo = [c \in Caller |-> {}]

Goto(c, from, to, s) ==
  /\ step[c] = from
  /\ step' = [step EXCEPT ![c] = to]
  /\ cur' = [cur EXCEPT ![c] = s]

-----------------------------------------------------------------------------

\* create_snapshot returned.
SaveCall(c, s) ==
  /\ s \notin alive \cup deleted
  /\ Goto(c, "idle", "saved", s)
  /\ alive' = alive \cup {s}
  /\ UNCHANGED <<limiterVars, deleted, rows, lost, todo>>

Record(c) ==
  /\ Goto(c, "saved", "idle", NoSnap)
  /\ rows' = rows \cup {cur[c]}
  /\ UNCHANGED <<limiterVars, alive, deleted, lost, todo>>

\* The insert fails: save raises, and nothing takes the snapshot back.
RecordFails(c) ==
  /\ "db" \in Faults
  /\ Goto(c, "saved", "idle", NoSnap)
  /\ lost' = lost \cup {cur[c]}
  /\ UNCHANGED <<limiterVars, alive, deleted, rows, todo>>

\* restore_from_snapshot asks for a slot of the create limiter.
RestoreCall(c, s) ==
  /\ s \in alive \cup deleted
  /\ Goto(c, "idle", "restoring", s)
  /\ Slot(c, "out", "lock")
  /\ UNCHANGED <<holder, gap, left, since, alive, deleted, rows, lost, todo>>

\* Sandbox.create, some time after the grant; it fails if a cleanup was faster.
RestoreCreate(c) ==
  /\ Goto(c, "restoring", "idle", NoSnap)
  /\ Slot(c, "granted", "out")
  /\ UNCHANGED <<holder, gap, left, since, alive, deleted, rows, lost, todo>>

CleanupBegin(c) ==
  /\ Goto(c, "idle", "cleaning", NoSnap)
  /\ todo' = [todo EXCEPT ![c] = rows \ Keep]
  /\ UNCHANGED <<limiterVars, alive, deleted, rows, lost>>

\* Mutation: the row goes before the snapshot.
ForgetFirst(c, s) ==
  /\ Goto(c, "cleaning", "deleted", s) /\ s \in todo[c]
  /\ rows' = rows \ {s}
  /\ UNCHANGED <<limiterVars, alive, deleted, lost, todo>>

\* Mutation: a snapshot that is gone already is an error.
DeleteOnce(c, s) ==
  /\ Goto(c, "cleaning", "deleted", s) /\ s \in todo[c] \cap alive
  /\ alive' = alive \ {s}
  /\ deleted' = deleted \cup {s}
  /\ UNCHANGED <<limiterVars, rows, lost, todo>>

\* delete_snapshot: also of a snapshot another cleanup has already deleted.
Delete(c, s) ==
  /\ Goto(c, "cleaning", "deleted", s) /\ s \in todo[c]
  /\ alive' = alive \ {s}
  /\ deleted' = deleted \cup {s}
  /\ UNCHANGED <<limiterVars, rows, lost, todo>>

\* The failure is logged and counted; the row stays for the next cleanup.
DeleteFails(c, s) ==
  /\ "rpc" \in Faults /\ s \in todo[c]
  /\ Goto(c, "cleaning", "cleaning", NoSnap)
  /\ todo' = [todo EXCEPT ![c] = @ \ {s}]
  /\ UNCHANGED <<limiterVars, alive, deleted, rows, lost>>

Forget(c) ==
  /\ Goto(c, "deleted", "cleaning", NoSnap)
  /\ rows' = rows \ {cur[c]}
  /\ todo' = [todo EXCEPT ![c] = @ \ {cur[c]}]
  /\ UNCHANGED <<limiterVars, alive, deleted, lost>>

ForgetFails(c) ==
  /\ "db" \in Faults
  /\ Goto(c, "deleted", "cleaning", NoSnap)
  /\ todo' = [todo EXCEPT ![c] = @ \ {cur[c]}]
  /\ UNCHANGED <<limiterVars, alive, deleted, rows, lost>>

CleanupEnd(c) ==
  /\ todo[c] = {}
  /\ Goto(c, "cleaning", "idle", NoSnap)
  /\ UNCHANGED <<limiterVars, alive, deleted, rows, lost, todo>>

\* KeyboardInterrupt or a cancellation, in save, restore or cleanup.
Interrupt(c) ==
  /\ "interrupt" \in Faults /\ step[c] # "idle"
  /\ Goto(c, step[c], "idle", NoSnap)
  /\ \/ GiveUp(c)
     \/ slot[c] \in {"out", "granted"} /\ slot' = [slot EXCEPT ![c] = "out"]
        /\ UNCHANGED <<holder, gap, left, since>>
  /\ todo' = [todo EXCEPT ![c] = {}]
  /\ lost' = IF step[c] = "saved" THEN lost \cup {cur[c]} ELSE lost
  /\ UNCHANGED <<alive, deleted, rows>>

\* A process dies and is started again, with a new limiter.
Crash(p) ==
  LET died == {c \in Caller : ProcOf[c] = p}
      reset(f, v) == [c \in Caller |-> IF c \in died THEN v ELSE f[c]]
  IN
  /\ p \in Mortal
  /\ step' = reset(step, "idle") /\ cur' = reset(cur, NoSnap) /\ todo' = reset(todo, {})
  /\ slot' = reset(slot, "out") /\ left' = reset(left, 0)
  /\ holder' = [holder EXCEPT ![p] = None]
  /\ gap' = [gap EXCEPT ![p] = 0]
  /\ since' = [since EXCEPT ![p] = Interval]
  /\ lost' = lost \cup {cur[c] : c \in {d \in died : step[d] = "saved"}}
  /\ UNCHANGED <<alive, deleted, rows>>

LimiterStep(c) == (GrantAtOnce(c) \/ Sleep(c) \/ Wake(c)) /\ UNCHANGED trackerVars

CleanupStep(c) ==
  \/ \E s \in Snap : Delete(c, s) \/ DeleteFails(c, s)
  \/ Forget(c) \/ ForgetFails(c) \/ CleanupEnd(c)

Next ==
  \/ \E c \in Caller :
       \/ \E s \in Snap : SaveCall(c, s) \/ RestoreCall(c, s)
       \/ Record(c) \/ RecordFails(c) \/ RestoreCreate(c) \/ CleanupBegin(c)
       \/ CleanupStep(c) \/ LimiterStep(c) \/ Interrupt(c)
  \/ \E p \in Process : Crash(p)
  \/ (Tick /\ UNCHANGED trackerVars)

Spec == Init /\ [][Next]_vars

\* Callers of a running process go on, time passes, some process cleans up
\* again and again, and neither E2B nor sqlite fails for ever.  A waiting
\* caller is not passed over for ever in the lock.
Fairness ==
  /\ \A c \in Caller :
       /\ WF_vars(Record(c) \/ RestoreCreate(c) \/ CleanupStep(c))
       /\ SF_vars(LimiterStep(c)) /\ SF_vars(CleanupBegin(c))
       /\ SF_vars(\E s \in Snap : Delete(c, s)) /\ SF_vars(Forget(c))
  /\ WF_vars(Tick /\ UNCHANGED trackerVars)

FairSpec == Spec /\ Fairness

-----------------------------------------------------------------------------
(* Properties.                                                             *)

\* "Recorded, against accumulation on E2B": a snapshot E2B has is in the table,
\* where the next cleanup finds it, unless its save is about to record it or
\* was torn out just before; failing, overlapping and interrupted cleanups
\* never lose one.
SnapshotsTracked ==
  \A s \in alive :
    \/ s \in rows \cup lost
    \/ \E c \in Caller : step[c] = "saved" /\ cur[c] = s

\* A recorded snapshot nobody keeps is deleted, and forgotten, in the end.
CleanupWorks == \A s \in Snap \ Keep : s \in rows ~> s \notin rows \cup alive

\* A restore gets its slot and makes its call, or is interrupted, whoever else
\* sleeps, is interrupted or crashes in the limiter.
RestoreEnds == \A c \in Caller : step[c] = "restoring" ~> step[c] = "idle"

=============================================================================
