-------------------------- MODULE TemplatePrewarm --------------------------
(***************************************************************************)
(* prewarm of core.py, where threads call it, and of async_core.py, where  *)
(* the tasks of an event loop do, which are not preempted but cancelled:   *)
(* several processes ask for templates by their canonical names; the       *)
(* double-checked _template_ready, one lock per name and the build limiter *)
(* keep a process from building it twice, and E2B, shared by all           *)
(* processes, builds in the background.  A template that is broken on E2B  *)
(* is built again under a new name, to which _template_alias points.       *)
(***************************************************************************)
EXTENDS Naturals, FiniteSets

CONSTANTS
  Name,      \* canonical template names: images and dockerfiles, one name each
  Second,    \* the last digits of the clock a renamed template may carry
  Process, Worker, ProcOf,
  MaxBuild,  \* max_build_concurrency
  Drivers,   \* "thread" for core.py, "task" for async_core.py
  Faults,    \* "rpc": a call fails; "build": a build fails; "slow": the deadline
             \* passes; "cancel": a task is cancelled; "refuse": E2B refuses to
             \* build what exists with a 400 that says "already" or "not in waiting"
  None

ASSUME PrewarmAssumption ==
  /\ ProcOf \in [Worker -> Process]
  /\ MaxBuild \in Nat \ {0}
  /\ Drivers \subseteq {"thread", "task"}
  /\ Faults \subseteq {"rpc", "build", "slow", "cancel", "refuse"}
  /\ None \notin Name \cup (Name \X Second)

\* A canonical name ends in twelve digits of a hash, a renamed one in "-r" and
\* five digits of the clock.
ASSUME NamesDiffer == Name \cap (Name \X Second) = {}

VARIABLES
  driver,
  status,  \* of each template on E2B
  ready,   \* _template_ready of each process
  alias,   \* _template_alias of each process, a name itself when it has none
  pc,      \* what each thread is about to do
  want,    \* the canonical name it asked for
  using,   \* name_to_use
  tries,   \* attempts left behind in the build loop
  result,  \* what its last prewarm returned, None before or after an error
  taken    \* history: what a refusal made a process take for ready that was not

state == <<status, ready, alias, pc, want, using, tries, result>>
vars  == <<driver, taken, state>>

Template == Name \cup (Name \X Second)

BuildSteps  == {"exists", "poll", "submit", "building", "alias"}
LockedSteps == {"slot"} \cup BuildSteps

TypeOK ==
  /\ driver \in Drivers
  /\ status \in [Template -> {"absent", "building", "ready", "error"}]
  /\ ready \in [Process -> SUBSET Template]
  /\ alias \in [Process -> [Name -> Template]]
  /\ pc \in [Worker -> {"idle", "fast", "lock"} \cup LockedSteps]
  /\ want \in [Worker -> Name \cup {None}]
  /\ using \in [Worker -> Template \cup {None}]
  /\ tries \in [Worker -> {0, 1}]
  /\ result \in [Worker -> Template \cup {None}]
  /\ taken \in SUBSET Template

\* Templates that others have built, or are building, on the account.
Init ==
  /\ driver \in Drivers
  /\ status \in [Template -> {"absent", "building", "ready", "error"}]
  /\ \A n \in Name, k \in Second : status[<<n, k>>] = "absent"
  /\ ready = [p \in Process |-> {}]
  /\ alias = [p \in Process |-> [n \in Name |-> n]]
  /\ pc = [w \in Worker |-> "idle"]
  /\ want = [w \in Worker |-> None]
  /\ using = [w \in Worker |-> None]
  /\ tries = [w \in Worker |-> 0]
  /\ result = [w \in Worker |-> None]
  /\ taken = {}

-----------------------------------------------------------------------------

Goto(w, step) == pc' = [pc EXCEPT ![w] = step]

\* prewarm returns or raises; the with statements give the slot and the lock back.
End(w, r) ==
  /\ Goto(w, "idle")
  /\ want' = [want EXCEPT ![w] = None]
  /\ using' = [using EXCEPT ![w] = None]
  /\ tries' = [tries EXCEPT ![w] = 0]
  /\ result' = [result EXCEPT ![w] = r]

Peers(w) == {v \in Worker : ProcOf[v] = ProcOf[w]}

\* Mutations: threads that do not wait for each other, and no second look at
\* _template_ready.
LockIgnored(w) == TRUE
NeverReady(w) == FALSE

\* _template_lock(name) is free.
LockFree(w) == \A v \in Peers(w) : ~ (want[v] = want[w] /\ pc[v] \in LockedSteps)

\* _template_ready under the lock.
NowReady(w) == want[w] \in ready[ProcOf[w]]

\* _build_limiter has a permit.
SlotFree(w) == Cardinality({v \in Peers(w) : pc[v] \in BuildSteps}) < MaxBuild

-----------------------------------------------------------------------------

\* The fast path reads _template_ready without the lock, ...
Ask(w, n) ==
  /\ pc[w] = "idle"
  /\ \/ /\ driver = "thread" \/ n \notin ready[ProcOf[w]]
        /\ want' = [want EXCEPT ![w] = n]
        /\ result' = [result EXCEPT ![w] = None]
        /\ Goto(w, IF n \in ready[ProcOf[w]] THEN "fast" ELSE "lock")
        /\ UNCHANGED <<using, tries>>
     \/ /\ driver = "task" /\ n \in ready[ProcOf[w]]
        /\ End(w, alias[ProcOf[w]][n])
  /\ UNCHANGED <<status, ready, alias>>

\* ... and then _template_alias.
Fast(w) ==
  /\ pc[w] = "fast"
  /\ End(w, alias[ProcOf[w]][want[w]])
  /\ UNCHANGED <<status, ready, alias>>

\* The lock is taken and _template_ready read again.
TakeLock(w) ==
  /\ pc[w] = "lock" /\ LockFree(w)
  /\ \/ NowReady(w) /\ End(w, alias[ProcOf[w]][want[w]])
     \/ ~ NowReady(w) /\ Goto(w, "slot") /\ UNCHANGED <<want, using, tries, result>>
  /\ UNCHANGED <<status, ready, alias>>

TakeSlot(w) ==
  /\ pc[w] = "slot" /\ SlotFree(w)
  /\ using' = [using EXCEPT ![w] = want[w]]
  /\ Goto(w, "exists")
  /\ UNCHANGED <<status, ready, alias, want, tries, result>>

\* Template.exists; a failing call counts as no.
Exists(w) ==
  /\ pc[w] = "exists"
  /\ \/ status[using[w]] # "absent" /\ Goto(w, "poll")
     \/ (status[using[w]] = "absent" \/ "rpc" \in Faults) /\ Goto(w, "submit")
  /\ UNCHANGED <<status, ready, alias, want, using, tries, result>>

\* Mutation: an existing alias is believed to be a good template.
AnyStatus(t) == TRUE

Built(t) == status[t] = "ready"

\* What _poll_template_status calls ready is kept and returned.
Reuse(w) ==
  /\ ready' = [ready EXCEPT ![ProcOf[w]] = @ \cup {using[w]}]
  /\ End(w, using[w])
  /\ UNCHANGED <<status, alias>>

\* get_build_status said that the existing template is ready.
PollReady(w) == pc[w] = "poll" /\ Built(using[w]) /\ Reuse(w)

\* build_in_background was refused in words that are taken for "ready",
\* whether the template is built, still building or broken.
PollRefused(w) ==
  /\ "refuse" \in Faults /\ pc[w] = "poll"
  /\ taken' = IF Built(using[w]) THEN taken ELSE taken \cup {using[w]}
  /\ Reuse(w)

\* Mutation: a poll without a deadline.
NeverLate(w) == FALSE

\* The deadline of a poll passes while E2B still builds.
Late(w) == "slow" \in Faults /\ status[using[w]] = "building"

Rename(w, k) ==
  /\ using' = [using EXCEPT ![w] = <<want[w], k>>]
  /\ Goto(w, "submit")
  /\ UNCHANGED <<status, ready, alias, want, tries, result>>

\* It is broken, or not ready in time: a new name.
PollBad(w, k) ==
  /\ pc[w] = "poll" /\ (status[using[w]] = "error" \/ Late(w))
  /\ Rename(w, k)

\* _build_with_timeout: build_in_background is accepted, ...
Submit(w) ==
  /\ pc[w] = "submit"
  /\ status' = [status EXCEPT ![using[w]] = IF @ = "ready" THEN @ ELSE "building"]
  /\ Goto(w, "building")
  /\ UNCHANGED <<ready, alias, want, using, tries, result>>

\* Mutation: the alias of a renamed template is not kept.
NoAlias(w) == UNCHANGED alias

SaveAlias(w) == alias' = [alias EXCEPT ![ProcOf[w]][want[w]] = using[w]]

\* ... and its status says ready.  A thread may be preempted between the two
\* writes, a task may not.
BuildDone(w) ==
  /\ pc[w] = "building" /\ Built(using[w])
  /\ ready' = [ready EXCEPT ![ProcOf[w]] = @ \cup {using[w], want[w]}]
  /\ \/ using[w] = want[w] /\ End(w, using[w]) /\ UNCHANGED alias
     \/ using[w] # want[w] /\ driver = "task" /\ SaveAlias(w) /\ End(w, using[w])
     \/ /\ using[w] # want[w] /\ driver = "thread"
        /\ Goto(w, "alias") /\ UNCHANGED <<alias, want, using, tries, result>>
  /\ UNCHANGED status

\* Mutation: one attempt too many.
RetryTwice(w) ==
  /\ \/ /\ tries[w] < 2
        /\ tries' = [tries EXCEPT ![w] = @ + 1]
        /\ Goto(w, "submit")
        /\ UNCHANGED <<want, using, result>>
     \/ tries[w] = 2 /\ End(w, None)
  /\ UNCHANGED <<status, ready, alias>>

\* A failed attempt is made again once; then PrewarmError is raised.
Retry(w) ==
  /\ \/ /\ tries[w] = 0
        /\ tries' = [tries EXCEPT ![w] = 1]
        /\ Goto(w, "submit")
        /\ UNCHANGED <<want, using, result>>
     \/ tries[w] = 1 /\ End(w, None)
  /\ UNCHANGED <<status, ready, alias>>

BuildFails(w) ==
  /\ pc[w] = "building" /\ (status[using[w]] = "error" \/ Late(w))
  /\ Retry(w)

\* A call on E2B raises, in the poll of an existing template or in an attempt.
CallFails(w) ==
  /\ "rpc" \in Faults
  /\ \/ pc[w] = "poll" /\ \E k \in Second : Rename(w, k)
     \/ pc[w] \in {"submit", "building"} /\ Retry(w)

\* _template_alias is written after _template_ready.
SetAlias(w) ==
  /\ pc[w] = "alias"
  /\ SaveAlias(w)
  /\ End(w, using[w])
  /\ UNCHANGED <<status, ready>>

\* A task is cancelled at an await: CancelledError is no Exception, so that no
\* attempt is made again, and E2B goes on with a build.
Cancel(w) ==
  /\ "cancel" \in Faults /\ driver = "task" /\ pc[w] # "idle"
  /\ End(w, None)
  /\ UNCHANGED <<status, ready, alias>>

\* E2B ends a build.
E2BBuilds(t) ==
  /\ status[t] = "building"
  /\ \/ status' = [status EXCEPT ![t] = "ready"]
     \/ "build" \in Faults /\ status' = [status EXCEPT ![t] = "error"]
  /\ UNCHANGED <<ready, alias, pc, want, using, tries, result>>

-----------------------------------------------------------------------------

Step(w) ==
  \/ Fast(w) \/ TakeLock(w) \/ TakeSlot(w) \/ Exists(w) \/ PollReady(w)
  \/ \E k \in Second : PollBad(w, k)
  \/ Submit(w) \/ BuildDone(w) \/ BuildFails(w) \/ SetAlias(w)

Next ==
  /\ driver' = driver
  /\ \/ \E w \in Worker : PollRefused(w)
     \/ /\ taken' = taken
        /\ \/ \E w \in Worker :
                Step(w) \/ CallFails(w) \/ Cancel(w) \/ \E n \in Name : Ask(w, n)
           \/ \E t \in Template : E2BBuilds(t)

Spec == Init /\ [][Next]_vars

\* Threads run, and a lock or a slot that is free again and again is given to
\* each waiter in the end.  E2B need not end a build.
Fairness ==
  \A w \in Worker : WF_state(Step(w)) /\ SF_state(TakeLock(w)) /\ SF_state(TakeSlot(w))

FairSpec == Spec /\ Fairness

-----------------------------------------------------------------------------
(* Properties.                                                             *)

\* "Concurrent prewarms of one input build it once, the others wait" (prewarm):
\* no thread is in the build of a name another thread of its process builds,
\* or that the process already has.
BuiltOnce ==
  \A w \in Worker : pc[w] \in {"submit", "building"} =>
    /\ want[w] \notin ready[ProcOf[w]]
    /\ \A v \in Peers(w) \ {w} : pc[v] \in {"submit", "building"} => want[v] # want[w]

\* E2B has built the template, or its refusal was taken for that.
Good(t) == status[t] = "ready" \/ t \in taken

\* "READY: keep it, ERROR: build it again under another name" (prewarm): what
\* a process will answer from now on for a name it takes for ready is a
\* template E2B has built, but for the moment between the two writes of a
\* thread that has built it under a new name, and but for the templates whose
\* refused build the code takes for "ready" without a look at their status.
ReadyIsUsable ==
  \A p \in Process : \A n \in Name \cap ready[p] :
    \/ Good(alias[p][n])
    \/ \E w \in Worker : ProcOf[w] = p /\ pc[w] = "alias" /\ want[w] = n

\* "If it was renamed, return the renamed name" (the fast path of prewarm):
\* the template a prewarm returns to a task is one E2B has built, also to a
\* task that comes while another one's renamed build ends, or after one was
\* cancelled, but for those taken for ready after a refusal.  (A thread may
\* read _template_ready between the two writes.)
ReturnedIsUsable ==
  driver = "task" => \A w \in Worker : result[w] # None => Good(result[w])

\* A prewarm ends, with a template or with PrewarmError, and so never keeps
\* the slot and the lock for ever.
PrewarmEnds ==
  \A w \in Worker : pc[w] # "idle" ~> pc[w] = "idle"

=============================================================================
