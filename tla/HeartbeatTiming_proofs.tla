----------------------- MODULE HeartbeatTiming_proofs -----------------------
(***************************************************************************)
(* Theorems about HeartbeatTiming, for every stale_timeout, lag and budget *)
(* of failures.                                                            *)
(***************************************************************************)
EXTENDS HeartbeatTiming, TLAPS

\* Both intervals leave room for two heartbeats in every stale window, and are
\* at least a second, for every stale_timeout SandboxConfig accepts.
THEOREM TwoBeatsPerWindow ==
  ASSUME NEW st \in Nat, st >= 10
  PROVE  /\ ThreadInterval(st) \in Nat /\ 1 <= ThreadInterval(st) /\ 2 * ThreadInterval(st) <= st
         /\ TaskInterval(st) \in Nat   /\ 1 <= TaskInterval(st)   /\ 2 * TaskInterval(st) <= st
         /\ 4 * ThreadInterval(st) <= st /\ (st > 10 => 4 * TaskInterval(st) <= st)
<1>1. /\ ThreadInterval(st) \in Nat /\ 1 <= ThreadInterval(st) /\ 4 * ThreadInterval(st) <= st
  <2>1. st \div 4 \in Nat /\ 4 * (st \div 4) <= st /\ st < 4 * (st \div 4) + 4
    OBVIOUS
  <2>2. PICK q \in Nat : q = st \div 4
    BY <2>1
  <2>3. q >= 1 /\ 4 * q <= st
    BY <2>1, <2>2
  <2>4. ThreadInterval(st) = q
    BY <2>2, <2>3 DEF ThreadInterval, AtLeast, AtMost
  <2> QED BY <2>3, <2>4
<1>2. CASE st > 10
  BY <1>1, <1>2 DEF TaskInterval
<1>3. CASE st = 10
  BY <1>1, <1>3 DEF TaskInterval
<1> QED BY <1>1, <1>2, <1>3

\* So many periods fit into a window.
Fits == (budget + 1) * Period <= stale_timeout

\* The age of the row is made of the periods of the missed writes and of the
\* wait that runs: the strengthening that makes HeldNeverStale inductive.
AgeExplained ==
  phase = "held" => /\ age <= missed * Period + since
                    /\ since <= Period /\ missed <= budget

Timed == TypeOK /\ Fits /\ AgeExplained

LEMMA PeriodIsNat == TypeOK => Interval \in Nat /\ Period \in Nat
  BY TimingAssumption, TwoBeatsPerWindow
     DEF TimingAssumption, TypeOK, Interval, Period

\* Fewer periods are not longer.
LEMMA Periods ==
  ASSUME NEW a \in Nat, NEW b \in Nat, NEW c \in Nat, a <= b
  PROVE  /\ a * c \in Nat /\ a * c <= b * c /\ (a + 1) * c = a * c + c
  OBVIOUS

\* What a longer period leaves no room for, neither does a shorter one.
LEMMA Room ==
  ASSUME NEW a \in Nat, NEW c \in Nat, NEW d \in Nat, NEW n \in Nat \ {0}, NEW st \in Nat,
         n * c <= st + n * d, a * (st + n * d) <= n * st
  PROVE  a * c <= st
<1>1. a * c \in Nat /\ n * (a * c) = a * (n * c)
  OBVIOUS
<1>2. a * (n * c) <= a * (st + n * d)
  <2> DEFINE x == n * c
             y == st + n * d
  <2>1. x \in Nat /\ y \in Nat /\ x <= y
    OBVIOUS
  <2> HIDE DEF x, y
  <2>2. a * x <= a * y
    BY <2>1
  <2> QED BY <2>2 DEF x, y
<1>3. n * (a * c) <= n * st
  <2>1. a * (n * c) \in Nat /\ a * (st + n * d) \in Nat /\ n * st \in Nat
    OBVIOUS
  <2> QED BY <1>1, <1>2, <2>1
<1> DEFINE z == a * c
<1>4. z \in Nat /\ n * z <= n * st
  BY <1>1, <1>3
<1> HIDE DEF z
<1>5. ASSUME z > st
      PROVE  FALSE
  <2>1. PICK e \in Nat : z = st + 1 + e
    <3>1. z - st - 1 \in Nat /\ z = st + 1 + (z - st - 1)
      BY <1>4, <1>5
    <3> QED BY <3>1
  <2>2. n * z = n * st + n + n * e /\ n * e \in Nat /\ n * st \in Nat
    BY <2>1
  <2> QED BY <1>4, <2>2
<1>6. z <= st
  BY <1>4, <1>5
<1> QED BY <1>6 DEF z

\* The interval the code computes has the room that is asked of it.
LEMMA IntervalFits == TypeOK /\ Endurable => Fits
<1> SUFFICES ASSUME TypeOK, Endurable PROVE Fits
  OBVIOUS
<1>1. /\ stale_timeout \in Nat /\ stale_timeout >= 10 /\ lag \in Nat /\ budget + 1 \in Nat
      /\ Interval \in Nat /\ Period \in Nat
  BY PeriodIsNat, TimingAssumption DEF TypeOK, TimingAssumption
<1>2. Share \in {2, 4} /\ Share * Interval <= stale_timeout
  BY <1>1, TwoBeatsPerWindow DEF Share, Interval, TypeOK
<1>3. Share * Period <= stale_timeout + Share * lag
  <2>1. Share * Period = Share * Interval + Share * lag
    BY <1>1, <1>2 DEF Period
  <2> QED BY <1>1, <1>2, <2>1
<1>4. Share \in Nat \ {0}
  BY <1>2
<1> QED BY <1>1, <1>3, <1>4, Room DEF Endurable, Fits

LEMMA InitTimed == Init => Timed
<1> SUFFICES ASSUME Init PROVE Timed
  OBVIOUS
<1>1. TypeOK
  BY DEF Init, TypeOK
<1>2. Fits
  BY <1>1, IntervalFits DEF Init
<1> QED BY <1>1, <1>2, PeriodIsNat, TimingAssumption
        DEF Init, Timed, TypeOK, AgeExplained, TimingAssumption

LEMMA NextTimed == Timed /\ [Next]_vars => Timed'
<1> SUFFICES ASSUME Timed, [Next]_vars PROVE Timed'
  OBVIOUS
<1>1. Interval \in Nat /\ Period \in Nat
  BY PeriodIsNat DEF Timed
<1>2. UNCHANGED params /\ Interval' = Interval /\ Period' = Period
  BY DEF Next, Tick, Beat, BeatFails, Die, vars, params, Interval, Period
<1>3. TypeOK'
  BY <1>1, <1>2, TimingAssumption
     DEF Timed, TypeOK, Next, Tick, Beat, BeatFails, Die, vars, params, AtMost, TimingAssumption
<1>4. Fits'
  BY <1>2 DEF Timed, Fits, params
<1>5. AgeExplained'
  <2>1. missed * Period \in Nat /\ (missed + 1) * Period = missed * Period + Period
    BY <1>1, Periods DEF Timed, TypeOK
  <2>2. CASE Tick
    BY <1>1, <1>2, <2>1, <2>2, TimingAssumption
       DEF Timed, TypeOK, AgeExplained, Tick, AtMost, params, TimingAssumption
  <2>3. CASE Beat
    BY <1>1, <1>2, <2>3, TimingAssumption
       DEF Timed, TypeOK, AgeExplained, Beat, params, TimingAssumption
  <2>4. CASE BeatFails
    BY <1>1, <1>2, <2>1, <2>4, TimingAssumption
       DEF Timed, TypeOK, AgeExplained, BeatFails, params, TimingAssumption
  <2>5. CASE Die
    BY <2>5 DEF AgeExplained, Die
  <2>6. CASE UNCHANGED vars
    BY <1>2, <2>6 DEF Timed, AgeExplained, vars, params
  <2> QED BY <2>2, <2>3, <2>4, <2>5, <2>6 DEF Next
<1> QED BY <1>3, <1>4, <1>5 DEF Timed

\* While its holder lives a row is never stale, whatever stale_timeout is, if
\* four heartbeats in a window (two where the task's interval is fixed) leave
\* room for the failures in a row and the lag.
THEOREM NeverStale == Spec => []HeldNeverStale
<1>1. Timed => HeldNeverStale
  <2> SUFFICES ASSUME Timed, phase = "held" PROVE age <= stale_timeout
    BY TimingAssumption DEF HeldNeverStale, Stale, Timed, TypeOK, TimingAssumption
  <2>1. Period \in Nat
    BY PeriodIsNat DEF Timed
  <2>2. missed * Period \in Nat /\ missed * Period <= budget * Period
        /\ budget * Period \in Nat /\ (budget + 1) * Period = budget * Period + Period
    BY <2>1, Periods, TimingAssumption DEF Timed, TypeOK, AgeExplained, TimingAssumption
  <2> QED BY <2>1, <2>2, TimingAssumption DEF Timed, Fits, TypeOK, AgeExplained, TimingAssumption
<1> QED BY InitTimed, NextTimed, <1>1, PTL DEF Spec

=============================================================================
