-------------------------- MODULE HeartbeatTiming --------------------------
(***************************************************************************)
(* The clock of one heartbeat: the thread of _Heartbeat or the task of     *)
(* AsyncHeartbeat wakes up at its interval and refreshes last_heartbeat,   *)
(* and list_stale_running takes the row for an orphan's when that is older *)
(* than stale_timeout.  A wake-up may come late and a write may fail.  The *)
(* unit is the second the code truncates every time to.                    *)
(***************************************************************************)
EXTENDS Naturals

CONSTANTS
  StaleTimeouts,  \* values of stale_timeout
  Lags,           \* how late a wake-up may come: a busy event loop, a busy sqlite
  Budgets         \* how many writes in a row may fail

\* SandboxConfig: Field(600, ge=10).
ASSUME TimingAssumption ==
  /\ StaleTimeouts \subseteq Nat /\ \A st \in StaleTimeouts : st >= 10
  /\ Lags \subseteq Nat
  /\ Budgets \subseteq Nat

VARIABLES
  driver,         \* "thread" or "task"
  stale_timeout,
  lag, budget,    \* the worst this run of the heartbeat meets
  phase,          \* "held", or "gone" when the process of the holder has died
  age,            \* the time since last_heartbeat
  since,          \* the time since the heartbeat last woke up
  missed          \* writes that failed since last_heartbeat

params == <<driver, stale_timeout, lag, budget>>
vars   == <<params, phase, age, since, missed>>

-----------------------------------------------------------------------------

AtMost(a, b)  == IF a <= b THEN a ELSE b
AtLeast(a, b) == IF a >= b THEN a ELSE b

\* Mutation: half of the window.
HalfInterval(st) == AtLeast(AtMost(st \div 2, st - 1), 1)

ThreadInterval(st) == AtLeast(AtMost(st \div 4, st - 1), 1)

TaskInterval(st) == IF st > 10 THEN ThreadInterval(st) ELSE 5

Interval == IF driver = "thread" THEN ThreadInterval(stale_timeout)
                                 ELSE TaskInterval(stale_timeout)

\* The longest time between two wake-ups.
Period == Interval + lag

TypeOK ==
  /\ driver \in {"thread", "task"}
  /\ stale_timeout \in StaleTimeouts /\ lag \in Lags /\ budget \in Budgets
  /\ phase \in {"held", "gone"}
  /\ age \in Nat /\ since \in Nat /\ missed \in Nat

\* The heartbeats a window is meant to hold: four, and two where the task's
\* interval is fixed.
Share == IF driver = "task" /\ stale_timeout = 10 THEN 2 ELSE 4

\* The failures in a row, and the lag, for which so many heartbeats leave room,
\* whatever the interval the code computes.
Endurable == (budget + 1) * (stale_timeout + Share * lag) <= Share * stale_timeout

\* start refreshes the row and the loop begins to wait.
Init ==
  /\ driver \in {"thread", "task"}
  /\ stale_timeout \in StaleTimeouts /\ lag \in Lags /\ budget \in Budgets
  /\ Endurable
  /\ phase = "held" /\ age = 0 /\ since = 0 /\ missed = 0

\* list_stale_running: last_heartbeat < now - max_age.
Stale == age > stale_timeout

\* A second passes.  age is not counted beyond the first stale one.
Tick ==
  /\ phase = "held" => since < Period
  /\ age' = AtMost(age + 1, stale_timeout + 1)
  /\ since' = AtMost(since + 1, Period)
  /\ UNCHANGED <<params, phase, missed>>

\* Mutation: a heartbeat that outlives the holder of the sandbox.
BeatForEver ==
  /\ since >= Interval
  /\ since' = 0 /\ age' = 0 /\ missed' = 0
  /\ UNCHANGED <<params, phase>>

\* The heartbeat wakes up and writes.
Beat ==
  /\ phase = "held" /\ since >= Interval
  /\ since' = 0 /\ age' = 0 /\ missed' = 0
  /\ UNCHANGED <<params, phase>>

\* The write raises: it is logged and the loop goes on.
BeatFails ==
  /\ phase = "held" /\ since >= Interval /\ missed < budget
  /\ since' = 0 /\ missed' = missed + 1
  /\ UNCHANGED <<params, phase, age>>

Die ==
  /\ phase = "held"
  /\ phase' = "gone"
  /\ UNCHANGED <<params, age, since, missed>>

Next == Tick \/ Beat \/ BeatFails \/ Die

Spec == Init /\ [][Next]_vars

\* Time passes.
FairSpec == Spec /\ WF_vars(Tick)

-----------------------------------------------------------------------------
(* Properties.                                                             *)

\* "Active long tasks keep fresh heartbeats": while its holder lives the row
\* is never stale, whenever reap looks, with up to budget failed writes in a
\* row and every wake-up late by lag: the interval leaves the room for them.
HeldNeverStale == phase = "held" => ~ Stale

\* A row whose holder has died is stale in the end, so that reap finds it.
DeathIsNoticed == phase = "gone" ~> Stale

=============================================================================
