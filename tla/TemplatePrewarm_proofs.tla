------------------------- MODULE TemplatePrewarm_proofs -------------------------
(***************************************************************************)
(* Proofs about TemplatePrewarm, for every set of templates, processes and *)
(* threads or tasks, every number of concurrent builds and every fault:    *)
(* what the lock per name keeps apart, and what the two dictionaries of a  *)
(* process say of E2B.                                                     *)
(***************************************************************************)
EXTENDS TemplatePrewarm, TLAPS

\* What a thread or task may do next.
Moves(w) ==
  \/ PollRefused(w)
  \/ /\ taken' = taken
     /\ Step(w) \/ CallFails(w) \/ Cancel(w) \/ \E n \in Name : Ask(w, n)

-----------------------------------------------------------------------------
(* Type correctness.  What a prewarm returns, or writes into the alias of  *)
(* a name, is a template because a call in progress has a name.            *)

Asking(w) ==
  /\ pc[w] # "idle" => want[w] \in Name
  /\ pc[w] \in BuildSteps => using[w] \in Template
  /\ pc[w] \in {"exists", "poll"} => using[w] = want[w]
  /\ pc[w] \in {"fast", "alias"} => driver = "thread"

Typed == TypeOK /\ \A w \in Worker : Asking(w)

\* The end of a prewarm that returns r.
LEMMA EndTyped ==
  ASSUME Typed, NEW w \in Worker, NEW r \in Template \cup {None}, End(w, r)
  PROVE  /\ pc' \in [Worker -> {"idle", "fast", "lock"} \cup LockedSteps]
         /\ want' \in [Worker -> Name \cup {None}]
         /\ using' \in [Worker -> Template \cup {None}]
         /\ tries' \in [Worker -> {0, 1}]
         /\ result' \in [Worker -> Template \cup {None}]
         /\ driver' = driver => \A v \in Worker : Asking(v)'
BY DEF Typed, TypeOK, Asking, End, Goto, BuildSteps, LockedSteps

\* The fast path and the second look return the alias.
LEMMA AliasTyped ==
  ASSUME Typed, NEW w \in Worker, NEW n \in Name
  PROVE  alias[ProcOf[w]][n] \in Template
BY PrewarmAssumption DEF PrewarmAssumption, Typed, TypeOK

LEMMA InitTyped == Init => Typed
BY PrewarmAssumption
DEF PrewarmAssumption, Init, Typed, TypeOK, Asking, Template, BuildSteps, LockedSteps

LEMMA StepTyped ==
  ASSUME Typed, driver' = driver, NEW w \in Worker,
         Moves(w)
  PROVE  Typed'
<1>0. taken' \in SUBSET Template
  BY DEF Moves, PollRefused, Typed, TypeOK, Asking, BuildSteps
<1> USE PrewarmAssumption, <1>0 DEF PrewarmAssumption, Goto, BuildSteps, LockedSteps
<1>1. ASSUME NEW n \in Name, Ask(w, n)
      PROVE  Typed'
  <2>1. CASE End(w, alias[ProcOf[w]][n])
    BY <1>1, <2>1, EndTyped, AliasTyped DEF Ask, Typed, TypeOK
  <2>2. CASE /\ driver = "thread" \/ n \notin ready[ProcOf[w]]
             /\ want' = [want EXCEPT ![w] = n]
             /\ result' = [result EXCEPT ![w] = None]
             /\ Goto(w, IF n \in ready[ProcOf[w]] THEN "fast" ELSE "lock")
             /\ UNCHANGED <<using, tries>>
    <3>1. pc' \in [Worker -> {"idle", "fast", "lock"} \cup LockedSteps] /\ pc'[w] \in {"fast", "lock"}
      BY <2>2 DEF Typed, TypeOK
    <3>2. TypeOK'
      BY <1>1, <2>2, <3>1 DEF Ask, Typed, TypeOK
    <3>3. ASSUME NEW v \in Worker
          PROVE  Asking(v)'
      <4>1. CASE v = w
        BY <2>2, <3>1, <4>1 DEF Typed, TypeOK, Asking
      <4>2. CASE v # w
        BY <2>2, <4>2 DEF Typed, TypeOK, Asking
      <4> QED BY <4>1, <4>2
    <3> QED BY <3>2, <3>3 DEF Typed
  <2> QED BY <1>1, <2>1, <2>2 DEF Ask
<1>2. CASE Fast(w)
  <2>1. want[w] \in Name
    BY <1>2 DEF Fast, Typed, Asking
  <2> QED BY <1>2, <2>1, EndTyped, AliasTyped DEF Fast, Typed, TypeOK
<1>3. CASE TakeLock(w)
  <2>1. want[w] \in Name
    BY <1>3 DEF TakeLock, Typed, Asking
  <2>2. CASE End(w, alias[ProcOf[w]][want[w]])
    BY <1>3, <2>1, <2>2, EndTyped, AliasTyped DEF TakeLock, Typed, TypeOK
  <2>3. CASE Goto(w, "slot") /\ UNCHANGED <<want, using, tries, result>>
    BY <1>3, <2>3 DEF TakeLock, Typed, TypeOK, Asking
  <2> QED BY <1>3, <2>2, <2>3 DEF TakeLock
<1>4. CASE TakeSlot(w) \/ Exists(w)
  <2>1. CASE TakeSlot(w)
    <3>1. want[w] \in Name /\ want[w] \in Template
      BY <2>1 DEF TakeSlot, Typed, Asking, Template
    <3>2. TypeOK'
      BY <2>1, <3>1 DEF TakeSlot, Typed, TypeOK
    <3>3. \A v \in Worker \ {w} : Asking(v)'
      BY <2>1 DEF TakeSlot, Typed, TypeOK, Asking
    <3>4. Asking(w)'
      BY <2>1, <3>1 DEF TakeSlot, Typed, TypeOK, Asking
    <3> QED BY <3>2, <3>3, <3>4 DEF Typed
  <2>2. CASE Exists(w)
    <3>1. /\ pc[w] = "exists" /\ UNCHANGED <<status, ready, alias, want, using, tries, result>>
          /\ \E step \in {"poll", "submit"} : Goto(w, step)
      BY <2>2 DEF Exists
    <3>2. TypeOK'
      BY <3>1 DEF Typed, TypeOK
    <3>3. \A v \in Worker : Asking(v)'
      BY <3>1 DEF Typed, TypeOK, Asking
    <3> QED BY <3>2, <3>3 DEF Typed
  <2> QED BY <1>4, <2>1, <2>2
<1>5. CASE PollReady(w) \/ PollRefused(w)
  <2>1. using[w] \in Template /\ ready' \in [Process -> SUBSET Template]
    BY <1>5 DEF PollReady, PollRefused, Reuse, Typed, TypeOK, Asking
  <2> QED BY <1>5, <2>1, EndTyped DEF PollReady, PollRefused, Reuse, Typed, TypeOK
<1>6. ASSUME NEW k \in Second, Rename(w, k), pc[w] = "poll"
      PROVE  Typed'
  <2>1. <<want[w], k>> \in Template
    BY <1>6 DEF Typed, Asking, Template
  <2> QED BY <1>6, <2>1 DEF Rename, Typed, TypeOK, Asking
<1>7. ASSUME Retry(w), pc[w] \in {"submit", "building"}
      PROVE  Typed'
  <2>1. CASE End(w, None)
    BY <1>7, <2>1, EndTyped DEF Retry, Typed, TypeOK
  <2>2. CASE Goto(w, "submit") /\ tries' = [tries EXCEPT ![w] = 1]
             /\ UNCHANGED <<want, using, result>>
    BY <1>7, <2>2 DEF Retry, Typed, TypeOK, Asking
  <2> QED BY <1>7, <2>1, <2>2 DEF Retry
<1>8. CASE Submit(w)
  BY <1>8 DEF Submit, Typed, TypeOK, Asking
<1>9. CASE BuildDone(w)
  <2>1. using[w] \in Template /\ want[w] \in Name
    BY <1>9 DEF BuildDone, Typed, Asking
  <2>2. ready' \in [Process -> SUBSET Template]
    BY <1>9, <2>1 DEF BuildDone, Template, Typed, TypeOK
  <2>5. SaveAlias(w) => alias' \in [Process -> [Name -> Template]]
    BY <2>1 DEF SaveAlias, Typed, TypeOK
  <2>6. alias' \in [Process -> [Name -> Template]]
    BY <1>9, <2>5 DEF BuildDone, Typed, TypeOK
  <2>3. CASE End(w, using[w])
    BY <1>9, <2>1, <2>2, <2>3, <2>6, EndTyped DEF BuildDone, Typed, TypeOK
  <2>4. CASE Goto(w, "alias") /\ driver = "thread" /\ UNCHANGED <<want, using, tries, result>>
    BY <1>9, <2>2, <2>4, <2>6 DEF BuildDone, Typed, TypeOK, Asking
  <2> QED BY <1>9, <2>3, <2>4 DEF BuildDone
<1>10. CASE SetAlias(w)
  <2>1. using[w] \in Template /\ want[w] \in Name
    BY <1>10 DEF SetAlias, Typed, Asking
  <2>2. alias' \in [Process -> [Name -> Template]]
    BY <1>10, <2>1 DEF SetAlias, SaveAlias, Typed, TypeOK
  <2> QED BY <1>10, <2>1, <2>2, EndTyped DEF SetAlias, Typed, TypeOK
<1>11. CASE Cancel(w)
  BY <1>11, EndTyped DEF Cancel, Typed, TypeOK
<1>12. CASE BuildFails(w) \/ CallFails(w)
  BY <1>6, <1>7, <1>12 DEF BuildFails, CallFails
<1>13. ASSUME NEW k \in Second, PollBad(w, k)
       PROVE  Typed'
  BY <1>6, <1>13 DEF PollBad
<1> QED BY <1>1, <1>2, <1>3, <1>4, <1>5, <1>8, <1>9, <1>10, <1>11, <1>12, <1>13 DEF Moves, Step

LEMMA NextTyped == Typed /\ [Next]_vars => Typed'
<1> SUFFICES ASSUME Typed, [Next]_vars
             PROVE  Typed'
  OBVIOUS
<1>1. ASSUME NEW t \in Template, E2BBuilds(t), driver' = driver, taken' = taken
      PROVE  Typed'
  BY <1>1 DEF E2BBuilds, Typed, TypeOK, Asking
<1>2. CASE UNCHANGED vars
  BY <1>2 DEF vars, state, Typed, TypeOK, Asking
<1> QED BY <1>1, <1>2, StepTyped DEF Next, Moves

LEMMA AlwaysTyped == Spec => []Typed
BY InitTyped, NextTyped, PTL DEF Spec

\* Every variable keeps its type: what prewarm returns is a template's name.
THEOREM TypeCorrect == Spec => []TypeOK
<1>1. Typed => TypeOK
  BY DEF Typed
<1> QED BY AlwaysTyped, <1>1, PTL

-----------------------------------------------------------------------------
(* The lock of a name.  Its holder is the only one of its process that     *)
(* works on the name, and as every name that becomes ready does so at the  *)
(* hands of the holder of its lock, none becomes ready under another one.  *)

Locked ==
  \A w \in Worker :
    /\ pc[w] \in BuildSteps => using[w] = want[w] \/ using[w] \notin Name
    /\ pc[w] \in LockedSteps \ {"alias"} => want[w] \notin ready[ProcOf[w]]
    /\ pc[w] \in LockedSteps =>
         \A v \in Peers(w) \ {w} : pc[v] \in LockedSteps => want[v] # want[w]

\* A step of w leaves the others alone, goes under the lock by TakeLock only,
\* and makes the name w has locked ready when it is done with it.
Alone(w) ==
  /\ \A v \in Worker \ {w} : /\ pc'[v] = pc[v] /\ want'[v] = want[v]
                             /\ using'[v] = using[v] /\ result'[v] = result[v]
  /\ pc'[w] \in LockedSteps =>
       /\ want'[w] = want[w]
       /\ pc[w] \in LockedSteps \/ (pc[w] = "lock" /\ LockFree(w) /\ ~ NowReady(w))
  /\ \/ ready' = ready
     \/ /\ pc[w] \in LockedSteps \ {"alias"} /\ pc'[w] \in {"idle", "alias"}
        /\ \A p \in Process : \A n \in Name :
             n \in ready'[p] => n \in ready[p] \/ (p = ProcOf[w] /\ n = want[w])
  /\ pc[w] = "alias" => pc'[w] = "idle"

LEMMA StepAlone ==
  ASSUME Typed, Locked, NEW w \in Worker,
         Moves(w)
  PROVE  Alone(w)
<1> USE PrewarmAssumption DEF PrewarmAssumption, Typed, TypeOK, Goto, BuildSteps, LockedSteps
<1>1. ASSUME NEW r, End(w, r)
      PROVE  /\ \A v \in Worker \ {w} : /\ pc'[v] = pc[v] /\ want'[v] = want[v]
                                        /\ using'[v] = using[v] /\ result'[v] = result[v]
             /\ pc'[w] = "idle"
  BY <1>1 DEF End
<1>2. ASSUME NEW n \in Name, Ask(w, n)
      PROVE  Alone(w)
  <2>1. CASE End(w, alias[ProcOf[w]][n])
    BY <1>1, <1>2, <2>1 DEF Ask, Alone
  <2>2. CASE want' = [want EXCEPT ![w] = n] /\ result' = [result EXCEPT ![w] = None]
             /\ Goto(w, IF n \in ready[ProcOf[w]] THEN "fast" ELSE "lock") /\ using' = using
    BY <1>2, <2>2 DEF Ask, Alone
  <2> QED BY <1>2, <2>1, <2>2 DEF Ask
<1>3. CASE Fast(w) \/ Cancel(w) \/ SetAlias(w)
  BY <1>1, <1>3 DEF Fast, Cancel, SetAlias, Alone
<1>4. CASE TakeLock(w)
  <2>1. CASE End(w, alias[ProcOf[w]][want[w]])
    BY <1>1, <1>4, <2>1 DEF TakeLock, Alone
  <2>2. CASE ~ NowReady(w) /\ Goto(w, "slot") /\ UNCHANGED <<want, using, tries, result>>
    BY <1>4, <2>2 DEF TakeLock, Alone
  <2> QED BY <1>4, <2>1, <2>2 DEF TakeLock
<1>5. CASE TakeSlot(w) \/ Submit(w)
  BY <1>5 DEF TakeSlot, Submit, Alone
<1>6. CASE Exists(w)
  <2>1. /\ pc[w] = "exists" /\ UNCHANGED <<ready, want, using, result>>
        /\ \E step \in {"poll", "submit"} : Goto(w, step)
    BY <1>6 DEF Exists
  <2> QED BY <2>1 DEF Alone
<1>7. CASE PollReady(w) \/ PollRefused(w)
  <2>1. /\ pc[w] = "poll" /\ using[w] = want[w]
        /\ ready' = [ready EXCEPT ![ProcOf[w]] = @ \cup {using[w]}]
    BY <1>7 DEF PollReady, PollRefused, Reuse, Asking
  <2> QED BY <1>1, <1>7, <2>1 DEF PollReady, PollRefused, Reuse, Alone
<1>8. ASSUME NEW k \in Second, Rename(w, k), pc[w] = "poll"
      PROVE  Alone(w)
  BY <1>8 DEF Rename, Alone
<1>9. ASSUME Retry(w), pc[w] \in {"submit", "building"}
      PROVE  Alone(w)
  BY <1>1, <1>9 DEF Retry, Alone
<1>10. CASE BuildDone(w)
  <2>1. /\ pc[w] = "building" /\ (using[w] = want[w] \/ using[w] \notin Name)
        /\ ready' = [ready EXCEPT ![ProcOf[w]] = @ \cup {using[w], want[w]}]
    BY <1>10 DEF BuildDone, Locked
  <2>2. \A p \in Process : \A n \in Name :
          n \in ready'[p] => n \in ready[p] \/ (p = ProcOf[w] /\ n = want[w])
    BY <2>1
  <2>3. CASE End(w, using[w])
    BY <1>1, <1>10, <2>1, <2>2, <2>3 DEF Alone
  <2>4. CASE Goto(w, "alias") /\ UNCHANGED <<want, using, tries, result>>
    BY <2>1, <2>2, <2>4 DEF Alone
  <2> QED BY <1>10, <2>3, <2>4 DEF BuildDone
<1>11. CASE BuildFails(w) \/ CallFails(w)
  BY <1>8, <1>9, <1>11 DEF BuildFails, CallFails
<1>12. ASSUME NEW k \in Second, PollBad(w, k)
       PROVE  Alone(w)
  BY <1>8, <1>12 DEF PollBad
<1> HIDE DEF Typed
<1> QED BY <1>2, <1>3, <1>4, <1>5, <1>6, <1>7, <1>10, <1>11, <1>12 DEF Moves, Step

\* The name a thread builds is the one it was asked for, or a new one.
LEMMA StepNames ==
  ASSUME Typed, Locked, NEW w \in Worker,
         Moves(w),
         pc'[w] \in BuildSteps
  PROVE  using'[w] = want'[w] \/ using'[w] \notin Name
<1> USE PrewarmAssumption DEF PrewarmAssumption, Typed, TypeOK, Goto, BuildSteps, LockedSteps
<1>1. \A r : ~ End(w, r)
  BY DEF End
<1>2. \A k \in Second : Rename(w, k) /\ pc[w] = "poll" => using'[w] \notin Name
  <2> SUFFICES ASSUME NEW k \in Second, Rename(w, k), pc[w] = "poll"
               PROVE  using'[w] \notin Name
    OBVIOUS
  <2>1. want[w] \in Name /\ using'[w] = <<want[w], k>>
    BY DEF Rename, Asking
  <2> QED BY <2>1, NamesDiffer DEF NamesDiffer
<1>3. CASE TakeSlot(w)
  BY <1>3 DEF TakeSlot
<1>4. ASSUME pc[w] \in BuildSteps, UNCHANGED <<want, using>>
      PROVE  using'[w] = want'[w] \/ using'[w] \notin Name
  BY <1>4 DEF Locked
<1>5. CASE Exists(w) \/ Submit(w) \/ BuildDone(w)
  BY <1>1, <1>4, <1>5 DEF Exists, Submit, BuildDone
<1>6. CASE BuildFails(w) \/ CallFails(w)
  BY <1>1, <1>2, <1>4, <1>6 DEF BuildFails, CallFails, Retry
<1>7. \A k \in Second : PollBad(w, k) => using'[w] \notin Name
  BY <1>2 DEF PollBad
<1>8. ~ (Fast(w) \/ TakeLock(w) \/ PollReady(w) \/ PollRefused(w) \/ SetAlias(w) \/ Cancel(w))
  BY <1>1 DEF Fast, TakeLock, PollReady, PollRefused, Reuse, SetAlias, Cancel
<1>9. \A n \in Name : ~ Ask(w, n)
  BY <1>1 DEF Ask
<1> HIDE DEF Typed
<1> QED BY <1>3, <1>5, <1>6, <1>7, <1>8, <1>9 DEF Moves, Step

LEMMA NextLocked == Typed /\ Locked /\ [Next]_vars => Locked'
<1> SUFFICES ASSUME Typed, Locked, [Next]_vars
             PROVE  Locked'
  OBVIOUS
<1>1. ASSUME NEW w \in Worker,
             Moves(w)
      PROVE  Locked'
  <2>1. Alone(w)
    BY <1>1, StepAlone
  <2>2. pc'[w] \in BuildSteps => using'[w] = want'[w] \/ using'[w] \notin Name
    BY <1>1, StepNames
  <2>3. ASSUME NEW v \in Worker
        PROVE  pc'[v] \in BuildSteps => using'[v] = want'[v] \/ using'[v] \notin Name
    BY <2>1, <2>2 DEF Alone, Locked
  <2>4. ASSUME NEW u \in Worker, NEW v \in Peers(u) \ {u}, pc'[u] \in LockedSteps,
               pc'[v] \in LockedSteps
        PROVE  want'[v] # want'[u]
    <3>1. v \in Worker /\ u \in Peers(v) \ {v}
      BY DEF Peers
    <3>2. CASE u # w /\ v # w
      BY <2>1, <2>4, <3>1, <3>2 DEF Alone, Locked
    <3>3. CASE u = w
      BY <2>1, <2>4, <3>1, <3>3 DEF Alone, Locked, LockFree
    <3>4. CASE v = w
      BY <2>1, <2>4, <3>1, <3>4 DEF Alone, Locked, LockFree
    <3> QED BY <3>2, <3>3, <3>4
  <2>5. ASSUME NEW v \in Worker, pc'[v] \in LockedSteps \ {"alias"}
        PROVE  want'[v] \notin ready'[ProcOf[v]]
    <3>0. pc[v] # "alias"
      BY <2>1, <2>5 DEF Alone, LockedSteps, BuildSteps
    <3>1. want'[v] = want[v] /\ want[v] \notin ready[ProcOf[v]]
      <4>1. CASE v = w
        BY <2>1, <2>5, <3>0, <4>1 DEF Alone, Locked, NowReady
      <4>2. CASE v # w
        BY <2>1, <2>5, <4>2 DEF Alone, Locked
      <4> QED BY <4>1, <4>2
    <3>2. want[v] \in Name /\ ProcOf[v] \in Process
      <4>1. pc[v] # "idle"
        BY <2>1, <2>5 DEF Alone, LockedSteps, BuildSteps, Typed, Asking
      <4> QED BY <4>1, PrewarmAssumption DEF PrewarmAssumption, Typed, Asking
    <3>3. CASE ready' = ready
      BY <3>1, <3>3
    <3>4. CASE ready' # ready
      <4>1. v # w /\ pc[w] \in LockedSteps /\ pc[v] \in LockedSteps
        BY <2>1, <2>5, <3>4 DEF Alone, LockedSteps, BuildSteps
      <4>2. ProcOf[v] = ProcOf[w] => want[v] # want[w]
        BY <4>1 DEF Locked, Peers
      <4> QED BY <2>1, <3>1, <3>2, <3>4, <4>2 DEF Alone
    <3> QED BY <3>3, <3>4
  <2> QED BY <2>3, <2>4, <2>5 DEF Locked, Peers
<1>2. ASSUME NEW t \in Template, E2BBuilds(t)
      PROVE  Locked'
  BY <1>2 DEF E2BBuilds, Locked, Peers
<1>3. CASE UNCHANGED vars
  BY <1>3 DEF vars, state, Locked, Peers
<1> QED BY <1>1, <1>2, <1>3 DEF Next, Moves

\* Nobody builds a name that its process has, or that another thread of the
\* process builds, with any number of processes, threads and names, and
\* whatever calls and builds fail or are cancelled.
THEOREM NamesAreBuiltOnce == Spec => []BuiltOnce
<1>1. Init => Locked
  BY DEF Init, Locked, LockedSteps, BuildSteps
<1>2. Locked => BuiltOnce
  BY DEF Locked, BuiltOnce, LockedSteps, BuildSteps, Peers
<1> QED BY AlwaysTyped, <1>1, <1>2, NextLocked, PTL DEF Spec

-----------------------------------------------------------------------------
(* What the dictionaries say of E2B.  A template that is ready stays so;   *)
(* an alias points to one that is, or was never set; and a name is made    *)
(* ready before its alias is set by the thread at the step "alias" only.   *)

Usable ==
  /\ \A p \in Process : \A n \in Name : alias[p][n] = n \/ Good(alias[p][n])
  /\ \A w \in Worker : pc[w] = "alias" => Good(using[w])
  /\ ReadyIsUsable
  /\ ReturnedIsUsable

\* Good before a step, or for what the step itself takes for ready.
Fine(t) == status[t] = "ready" \/ t \in taken'

LEMMA GoodForEver ==
  ASSUME Typed, [Next]_vars
  PROVE  /\ taken \subseteq taken'
         /\ \A t \in Template : Fine(t) => status'[t] = "ready" \/ t \in taken'
<1> USE DEF Typed, TypeOK
<1>0. taken \subseteq taken'
  BY DEF Next, PollRefused, vars
<1>1. ASSUME NEW w \in Worker, Step(w)
      PROVE  \A t \in Template : status[t] = "ready" => status'[t] = "ready"
  BY <1>1 DEF Step, Fast, TakeLock, TakeSlot, Exists, PollReady, Reuse, PollBad, Rename, Submit,
              BuildDone, BuildFails, Retry, SetAlias
<1>2. ASSUME NEW w \in Worker, PollRefused(w) \/ CallFails(w) \/ Cancel(w)
                               \/ \E n \in Name : Ask(w, n)
      PROVE  status' = status
  BY <1>2 DEF PollRefused, Reuse, CallFails, Rename, Retry, Cancel, Ask
<1>3. ASSUME NEW t \in Template, E2BBuilds(t)
      PROVE  \A u \in Template : status[u] = "ready" => status'[u] = "ready"
  BY <1>3 DEF E2BBuilds
<1>4. UNCHANGED vars => status' = status
  BY DEF vars, state
<1> HIDE DEF Typed, TypeOK
<1>5. \A t \in Template : status[t] = "ready" => status'[t] = "ready"
  BY <1>1, <1>2, <1>3, <1>4 DEF Next
<1> QED BY <1>0, <1>5 DEF Fine

\* What one step of w does to the dictionaries and to its result: a name
\* becomes ready with an alias that is good, or with w about to set it, and a
\* task is told the alias of a ready name, or a template it has seen built.
Answers(w) ==
  /\ driver = "task" =>
       \/ result'[w] \in {result[w], None}
       \/ Fine(result'[w])
       \/ \E n \in Name \cap ready[ProcOf[w]] : result'[w] = alias[ProcOf[w]][n]
  /\ \A p \in Process, n \in Name :
       alias'[p][n] = alias[p][n] \/ Fine(alias'[p][n])
  /\ \A p \in Process, n \in Name : n \in ready'[p] =>
       \/ n \in ready[p]
       \/ Fine(alias'[p][n])
       \/ p = ProcOf[w] /\ pc'[w] = "alias" /\ want'[w] = n
  /\ pc'[w] = "alias" => Fine(using'[w])
  /\ pc[w] = "alias" => Fine(alias'[ProcOf[w]][want[w]])

LEMMA StepAnswers ==
  ASSUME Typed, Locked, Usable, NEW w \in Worker,
         Moves(w)
  PROVE  Answers(w)
<1> USE PrewarmAssumption DEF PrewarmAssumption, Typed, TypeOK, Goto
<1>0. \A r : End(w, r) => pc'[w] = "idle" /\ result'[w] = r
  BY DEF End
<1>14. \A t : Good(t) => Fine(t)
  BY DEF Good, Fine, Moves, PollRefused
<1>1. ASSUME UNCHANGED <<ready, alias>>, pc[w] # "alias", pc'[w] # "alias",
             driver = "task" =>
               \/ result'[w] \in {result[w], None}
               \/ \E n \in Name \cap ready[ProcOf[w]] : result'[w] = alias[ProcOf[w]][n]
      PROVE  Answers(w)
  BY <1>1 DEF Answers
<1>2. ASSUME NEW n \in Name, Ask(w, n)
      PROVE  Answers(w)
  <2>1. pc'[w] # "alias" /\ pc[w] # "alias" /\ UNCHANGED <<ready, alias>>
    BY <1>0, <1>2 DEF Ask
  <2>2. \/ result'[w] = None
        \/ n \in ready[ProcOf[w]] /\ result'[w] = alias[ProcOf[w]][n]
    BY <1>0, <1>2 DEF Ask
  <2> QED BY <1>1, <2>1, <2>2
<1>3. CASE Fast(w) \/ Cancel(w)
  <2>1. pc[w] # "alias" /\ (Fast(w) => driver # "task")
    BY <1>3 DEF Fast, Cancel, Asking
  <2>2. pc'[w] = "idle" /\ UNCHANGED <<ready, alias>> /\ (Cancel(w) => result'[w] = None)
    BY <1>0, <1>3 DEF Fast, Cancel
  <2> QED BY <1>1, <1>3, <2>1, <2>2
<1>4. CASE TakeLock(w)
  <2>1. pc[w] = "lock" /\ want[w] \in Name /\ UNCHANGED <<ready, alias>>
    BY <1>4 DEF TakeLock, Asking
  <2>2. CASE NowReady(w) /\ End(w, alias[ProcOf[w]][want[w]])
    <3>1. pc'[w] = "idle" /\ result'[w] = alias[ProcOf[w]][want[w]]
      BY <1>0, <2>2
    <3>2. want[w] \in Name \cap ready[ProcOf[w]]
      BY <2>1, <2>2 DEF NowReady
    <3> QED BY <1>1, <2>1, <3>1, <3>2
  <2>3. CASE Goto(w, "slot") /\ UNCHANGED <<want, using, tries, result>>
    BY <1>1, <2>1, <2>3
  <2> QED BY <1>4, <2>2, <2>3 DEF TakeLock
<1>5. CASE TakeSlot(w) \/ Submit(w)
  BY <1>1, <1>5 DEF TakeSlot, Submit
<1>6. CASE Exists(w)
  <2>1. pc[w] = "exists" /\ UNCHANGED <<ready, alias, result>> /\ pc'[w] \in {"poll", "submit"}
    BY <1>6 DEF Exists
  <2> QED BY <1>1, <2>1
<1>7. CASE PollReady(w) \/ PollRefused(w)
  <2>0. pc[w] = "poll" /\ Reuse(w) /\ Fine(using[w])
    BY <1>7 DEF PollReady, PollRefused, Built, Fine
  <2>1. /\ pc[w] = "poll" /\ pc'[w] = "idle" /\ using[w] = want[w] /\ want[w] \in Name
        /\ Fine(want[w]) /\ alias' = alias /\ result'[w] = want[w]
        /\ ready' = [ready EXCEPT ![ProcOf[w]] = @ \cup {want[w]}]
    BY <1>0, <2>0 DEF Reuse, Asking
  <2>2. Fine(alias[ProcOf[w]][want[w]])
    BY <1>14, <2>1 DEF Usable
  <2> QED BY <2>1, <2>2 DEF Answers
<1>8. ASSUME NEW k \in Second, Rename(w, k), pc[w] = "poll"
      PROVE  Answers(w)
  BY <1>1, <1>8 DEF Rename
<1>9. ASSUME Retry(w), pc[w] \in {"submit", "building"}
      PROVE  Answers(w)
  <2>1. pc'[w] # "alias" /\ UNCHANGED <<ready, alias>> /\ result'[w] \in {result[w], None}
    BY <1>0, <1>9 DEF Retry
  <2> QED BY <1>1, <1>9, <2>1
<1>10. CASE BuildDone(w)
  <2>1. /\ pc[w] = "building" /\ Fine(using[w]) /\ want[w] \in Name
        /\ (using[w] = want[w] \/ using[w] \notin Name)
        /\ ready' = [ready EXCEPT ![ProcOf[w]] = @ \cup {using[w], want[w]}]
    BY <1>10 DEF BuildDone, Built, Fine, Asking, Locked, BuildSteps
  <2>2. \A p \in Process, n \in Name :
          n \in ready'[p] => n \in ready[p] \/ (p = ProcOf[w] /\ n = want[w])
    BY <2>1
  <2>3. CASE using[w] = want[w] /\ End(w, using[w]) /\ alias' = alias
    <3>1. pc'[w] = "idle" /\ result'[w] = using[w]
      BY <1>0, <2>3
    <3>2. Fine(alias[ProcOf[w]][want[w]])
      BY <1>14, <2>1, <2>3 DEF Usable
    <3> QED BY <2>1, <2>2, <2>3, <3>1, <3>2 DEF Answers
  <2>4. CASE SaveAlias(w) /\ End(w, using[w])
    <3>1. pc'[w] = "idle" /\ result'[w] = using[w]
      BY <1>0, <2>4
    <3>2. /\ alias'[ProcOf[w]][want[w]] = using[w]
          /\ \A p \in Process, n \in Name : alias'[p][n] \in {alias[p][n], using[w]}
      BY <2>1, <2>4 DEF SaveAlias
    <3> QED BY <2>1, <2>2, <3>1, <3>2 DEF Answers
  <2>5. CASE Goto(w, "alias") /\ UNCHANGED <<alias, want, using, tries, result>>
    BY <2>1, <2>2, <2>5 DEF Answers
  <2> QED BY <1>10, <2>3, <2>4, <2>5 DEF BuildDone
<1>11. CASE SetAlias(w)
  <2>1. /\ pc[w] = "alias" /\ driver # "task" /\ want[w] \in Name /\ Fine(using[w])
        /\ ready' = ready /\ pc'[w] = "idle"
    BY <1>0, <1>11, <1>14 DEF SetAlias, Asking, Usable
  <2>2. /\ alias'[ProcOf[w]][want[w]] = using[w]
        /\ \A p \in Process, n \in Name : alias'[p][n] \in {alias[p][n], using[w]}
    BY <1>11, <2>1 DEF SetAlias, SaveAlias
  <2> QED BY <2>1, <2>2 DEF Answers
<1>12. CASE BuildFails(w) \/ CallFails(w)
  BY <1>8, <1>9, <1>12 DEF BuildFails, CallFails
<1>13. ASSUME NEW k \in Second, PollBad(w, k)
       PROVE  Answers(w)
  BY <1>8, <1>13 DEF PollBad
<1> HIDE DEF Typed
<1> QED BY <1>2, <1>3, <1>4, <1>5, <1>6, <1>7, <1>10, <1>11, <1>12, <1>13 DEF Moves, Step

LEMMA NextUsable ==
  ASSUME Typed, Locked, Usable, [Next]_vars
  PROVE  Usable'
<1>0. Typed'
  BY NextTyped
<1> DEFINE Later(t) == status'[t] = "ready" \/ t \in taken'
<1>1. \A t \in Template : (Fine(t) => Later(t)) /\ (Good(t) => Fine(t))
  BY GoodForEver DEF Good, Fine
<1>2. \A p \in Process, n \in Name : alias[p][n] \in Template /\ alias'[p][n] \in Template
  BY <1>0 DEF Typed, TypeOK
<1>3. \A v \in Worker : /\ using[v] \in Template \cup {None} /\ using'[v] \in Template \cup {None}
                        /\ result[v] \in Template \cup {None}
                        /\ result'[v] \in Template \cup {None}
  BY <1>0 DEF Typed, TypeOK
<1>4. \A v \in Worker : ProcOf[v] \in Process
  BY PrewarmAssumption DEF PrewarmAssumption
<1>5. \A v \in Worker : /\ pc[v] = "alias" => using[v] \in Template /\ driver = "thread"
                        /\ pc'[v] = "alias" => using'[v] \in Template
  BY <1>0 DEF Typed, Asking, BuildSteps
<1>8. ASSUME /\ \A p \in Process : \A n \in Name : alias'[p][n] = n \/ Later(alias'[p][n])
             /\ \A v \in Worker : pc'[v] = "alias" => Later(using'[v])
             /\ \A p \in Process : \A n \in Name \cap ready'[p] :
                  \/ Later(alias'[p][n])
                  \/ \E v \in Worker : ProcOf[v] = p /\ pc'[v] = "alias" /\ want'[v] = n
             /\ driver' = "task" => \A v \in Worker : result'[v] # None => Later(result'[v])
      PROVE  Usable'
  BY <1>8 DEF Usable, ReadyIsUsable, ReturnedIsUsable, Good
<1> HIDE DEF Later
<1>6. ASSUME NEW w \in Worker, driver' = driver,
             Moves(w)
      PROVE  Usable'
  <2>1. Alone(w) /\ Answers(w)
    BY <1>6, StepAlone, StepAnswers
  <2>2. \A p \in Process : \A n \in Name : alias'[p][n] = n \/ Later(alias'[p][n])
    BY <1>1, <1>2, <2>1 DEF Answers, Usable
  <2>3. ASSUME NEW v \in Worker, pc'[v] = "alias"
        PROVE  Later(using'[v])
    <3>1. Fine(using'[v])
      BY <1>1, <1>5, <2>1, <2>3 DEF Alone, Answers, Usable
    <3> QED BY <1>1, <1>5, <2>3, <3>1
  <2>4. ASSUME NEW p \in Process, NEW n \in Name, n \in ready'[p], ~ Later(alias'[p][n])
        PROVE  \E v \in Worker : ProcOf[v] = p /\ pc'[v] = "alias" /\ want'[v] = n
    <3>1. ~ Fine(alias'[p][n])
      BY <1>1, <1>2, <2>4
    <3>2. CASE n \notin ready[p]
      BY <2>1, <2>4, <3>1, <3>2 DEF Answers
    <3>3. CASE n \in ready[p]
      <4>1. ~ Good(alias[p][n])
        BY <1>1, <1>2, <2>1, <3>1 DEF Answers
      <4>2. PICK v \in Worker : ProcOf[v] = p /\ pc[v] = "alias" /\ want[v] = n
        BY <3>3, <4>1 DEF Usable, ReadyIsUsable
      <4>3. v # w
        BY <2>1, <3>1, <4>2 DEF Answers
      <4> QED BY <2>1, <4>2, <4>3 DEF Alone
    <3> QED BY <3>2, <3>3
  <2>5. ASSUME driver = "task", NEW v \in Worker, result'[v] # None
        PROVE  Later(result'[v])
    <3>1. Fine(result'[v])
      <4>1. CASE v # w \/ result'[v] = result[v]
        BY <1>1, <1>3, <2>1, <2>5, <4>1 DEF Alone, Usable, ReturnedIsUsable
      <4>2. ASSUME NEW n \in Name \cap ready[ProcOf[w]], result'[w] = alias[ProcOf[w]][n]
            PROVE  Fine(result'[w])
        BY <1>1, <1>2, <1>4, <1>5, <2>5, <4>2 DEF Usable, ReadyIsUsable
      <4> QED BY <2>1, <2>5, <4>1, <4>2 DEF Answers
    <3> QED BY <1>1, <1>3, <2>5, <3>1
  <2> QED BY <1>6, <1>8, <2>2, <2>3, <2>4, <2>5
<1>7. CASE driver' = driver /\ UNCHANGED <<ready, alias, pc, want, using, result>>
  <2>1. \A p \in Process : \A n \in Name : alias'[p][n] = n \/ Later(alias'[p][n])
    BY <1>1, <1>2, <1>7 DEF Usable
  <2>2. \A w \in Worker : pc'[w] = "alias" => Later(using'[w])
    BY <1>1, <1>5, <1>7 DEF Usable
  <2>3. \A p \in Process : \A n \in Name \cap ready'[p] :
          \/ Later(alias'[p][n])
          \/ \E v \in Worker : ProcOf[v] = p /\ pc'[v] = "alias" /\ want'[v] = n
    BY <1>1, <1>2, <1>7 DEF Usable, ReadyIsUsable
  <2>4. driver' = "task" => \A v \in Worker : result'[v] # None => Later(result'[v])
    BY <1>1, <1>3, <1>7 DEF Usable, ReturnedIsUsable
  <2> QED BY <1>8, <2>1, <2>2, <2>3, <2>4
<1> QED BY <1>6, <1>7 DEF Next, Moves, E2BBuilds, vars, state

LEMMA AlwaysUsable == Spec => []Usable
<1>1. Init => Locked /\ Usable
  BY PrewarmAssumption
     DEF PrewarmAssumption, Init, Locked, Usable, ReadyIsUsable, ReturnedIsUsable, LockedSteps,
         BuildSteps
<1>2. Typed /\ Locked /\ Usable /\ [Next]_vars => Usable'
  BY NextUsable
<1> QED BY AlwaysTyped, <1>1, <1>2, NextLocked, PTL DEF Spec

\* What a process answers for a name it takes for ready is a template E2B has
\* built, also a renamed one, but for the moment between the two writes of a
\* thread, and but for a template whose refused build was taken for "ready";
\* a template once ready is not built again.
THEOREM ReadyStaysUsable == Spec => []ReadyIsUsable
<1>1. Usable => ReadyIsUsable
  BY DEF Usable
<1> QED BY AlwaysUsable, <1>1, PTL

\* What prewarm returns to a task is a template E2B has built, or one whose
\* refused build was taken for "ready", whatever was renamed, failed or was
\* cancelled before.
THEOREM TasksGetBuiltTemplates == Spec => []ReturnedIsUsable
<1>1. Usable => ReturnedIsUsable
  BY DEF Usable
<1> QED BY AlwaysUsable, <1>1, PTL

=============================================================================
