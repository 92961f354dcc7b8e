------------------------------ MODULE RateLimiter ------------------------------
(***************************************************************************)
(* RateLimiter and AsyncRateLimiter: the slots in front of Sandbox.create. *)
(* A lock is held while its holder sleeps until next_allowed; it is free   *)
(* again before the create call is made.  Each process has a limiter of    *)
(* its own.  Times are relative to the present, in ticks.                  *)
(***************************************************************************)
EXTENDS Naturals

CONSTANTS
  Caller,    \* threads, or tasks
  Process,
  ProcOf,    \* the process of each caller
  Interval,  \* 1 / create_rate
  None       \* no caller

ASSUME LimiterAssumption ==
  /\ ProcOf \in [Caller -> Process]
  /\ Interval \in Nat
  /\ None \notin Caller

VARIABLES
  holder,  \* who holds the lock of each process's limiter
  gap,     \* max(0, next_allowed - now) of each limiter
  slot,    \* where each caller is in slot()
  left,    \* what is left of each caller's sleep
  since    \* history: ticks since each limiter's last grant, up to Interval

limiterVars == <<holder, gap, slot, left, since>>

LimiterTypeOK ==
  /\ holder \in [Process -> Caller \cup {None}]
  /\ gap \in [Process -> Nat]
  /\ slot \in [Caller -> {"out", "lock", "sleep", "granted"}]
  /\ left \in [Caller -> Nat]
  /\ since \in [Process -> 0 .. Interval]

LimiterInit ==
  /\ holder = [p \in Process |-> None]
  /\ gap = [p \in Process |-> 0]
  /\ slot = [c \in Caller |-> "out"]
  /\ left = [c \in Caller |-> 0]
  /\ since = [p \in Process |-> Interval]

Slot(c, from, to) == slot[c] = from /\ slot' = [slot EXCEPT ![c] = to]

\* next_allowed = max(now, next_allowed) + min_interval.
Grant(c, from) ==
  /\ Slot(c, from, "granted")
  /\ gap' = [gap EXCEPT ![ProcOf[c]] = @ + Interval]
  /\ since' = [since EXCEPT ![ProcOf[c]] = 0]
  /\ left' = left

\* Mutation: the lock is not held through the sleep.
LockOpen(p) == TRUE

LockFree(p) == holder[p] = None

\* There is nothing to wait for.
GrantAtOnce(c) ==
  /\ LockFree(ProcOf[c]) /\ gap[ProcOf[c]] = 0
  /\ Grant(c, "lock")
  /\ holder' = holder

Sleep(c) ==
  /\ LockFree(ProcOf[c]) /\ gap[ProcOf[c]] > 0
  /\ Slot(c, "lock", "sleep")
  /\ left' = [left EXCEPT ![c] = gap[ProcOf[c]]]
  /\ holder' = [holder EXCEPT ![ProcOf[c]] = c]
  /\ UNCHANGED <<gap, since>>

\* The sleep is over, perhaps long ago.
Wake(c) ==
  /\ left[c] = 0
  /\ Grant(c, "sleep")
  /\ holder' = [holder EXCEPT ![ProcOf[c]] = None]

\* Mutation: an interrupted sleeper keeps the lock.
KeepsLock(c) == holder

Unlocked(c) == [p \in Process |-> IF holder[p] = c THEN None ELSE holder[p]]

\* An interrupt, or a cancellation, in the wait for the lock or in the sleep.
GiveUp(c) ==
  /\ slot[c] \in {"lock", "sleep"}
  /\ slot' = [slot EXCEPT ![c] = "out"]
  /\ holder' = Unlocked(c)
  /\ UNCHANGED <<gap, left, since>>

Down(n) == IF n = 0 THEN 0 ELSE n - 1

Tick ==
  /\ gap' = [p \in Process |-> Down(gap[p])]
  /\ left' = [c \in Caller |-> Down(left[c])]
  /\ since' = [p \in Process |-> IF since[p] < Interval THEN since[p] + 1 ELSE since[p]]
  /\ UNCHANGED <<holder, slot>>

\* "At least 1/rate seconds lie between two calls": between two grants of one
\* limiter, however its callers queue, oversleep and are interrupted.
GrantsSpaced ==
  [][\A c \in Caller :
       slot[c] # "granted" /\ slot'[c] = "granted" => since[ProcOf[c]] = Interval]_limiterVars

=============================================================================
