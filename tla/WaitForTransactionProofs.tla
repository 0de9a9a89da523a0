----------------------- MODULE WaitForTransactionProofs -----------------------
(***************************************************************************)
(* What waitForTransactionBlock promises, for every timeout, every poll     *)
(* interval and any time: TLC checks the same of one timeout and interval.  *)
(***************************************************************************)
EXTENDS WaitForTransaction, TLAPS

\* The n-th poll is not made before n - 1 intervals have passed, and the next
\* one not before another has.
PollsSpaced ==
    /\ pc = "idle" => polls = 0
    /\ polls * PollInterval <= now + PollInterval
    /\ pc = "sleep" => polls * PollInterval <= wakeAt

\* The timeout has fired by the tick after it is due, and nobody sleeps on.
TimeoutNoticed ==
    /\ now > Timeout => expired
    /\ expired => pc \notin {"idle", "sleep"}

IInv == TypeOK /\ PollsSpaced /\ TimeoutNoticed /\ NeverFallsOut

-----------------------------------------------------------------------------
LEMMA InitIInv == Init => IInv
<1> SUFFICES ASSUME Init PROVE IInv
  OBVIOUS
<1>1. now \in 0 .. MaxTime /\ wakeAt \in Nat /\ polls \in Nat
  BY TimesAssumption DEF Init
<1>2. TypeOK
  BY <1>1 DEF Init, TypeOK
<1>3. PollsSpaced
  BY TimesAssumption DEF Init, PollsSpaced
<1>4. ~(now > Timeout)
  BY TimesAssumption DEF Init
<1>5. TimeoutNoticed /\ NeverFallsOut
  BY <1>4 DEF Init, TimeoutNoticed, NeverFallsOut
<1>6. QED
  BY <1>2, <1>3, <1>5 DEF IInv

\* The two steps that poll: both find the timeout not expired.
LEMMA PollKeepsIInv ==
    ASSUME IInv, Poll, ~expired, polls * PollInterval <= now,
           UNCHANGED <<now, wakeAt, expired, aborted, answer, indexed>>,
           answer = "none"
    PROVE  IInv'
<1>1. polls' * PollInterval <= now + PollInterval
  <2>1. CASE polls' = polls
    BY <2>1, TimesAssumption DEF IInv, PollsSpaced
  <2>2. CASE polls' = polls + 1
    <3>1. (polls + 1) * PollInterval = polls * PollInterval + PollInterval
      BY TimesAssumption DEF IInv, TypeOK
    <3>2. QED
      BY <2>2, <3>1, TimesAssumption DEF IInv, TypeOK
  <2>3. QED
    BY <2>1, <2>2 DEF Poll
<1>2. PollsSpaced'
  BY <1>1 DEF Poll, PollsSpaced
<1>3. TypeOK'
  <2>1. polls' \in Nat /\ now' \in 0 .. MaxTime /\ wakeAt' \in Nat
    <3>1. polls \in Nat /\ now \in 0 .. MaxTime /\ wakeAt \in Nat
      BY DEF IInv, TypeOK
    <3>2. polls' = polls \/ polls' = polls + 1
      BY DEF Poll
    <3>3. QED
      BY <3>1, <3>2
  <2>2. /\ pc' \in {"idle", "poll", "sleep"} \cup Ended
        /\ answer' \in {"none", "found", "error"} /\ answer' = "none"
    BY DEF Poll, Ended
  <2>3. expired' \in BOOLEAN /\ aborted' \in BOOLEAN /\ indexed' \in BOOLEAN
    BY DEF IInv, TypeOK
  <2>4. QED
    BY <2>1, <2>2, <2>3 DEF TypeOK
<1>4. TimeoutNoticed' /\ NeverFallsOut'
  BY DEF Poll, IInv, TimeoutNoticed, NeverFallsOut
<1>5. QED
  BY <1>2, <1>3, <1>4 DEF IInv

LEMMA StepIInv == IInv /\ [Next]_vars => IInv'
<1> SUFFICES ASSUME IInv, [Next]_vars PROVE IInv'
  OBVIOUS
<1> USE TimesAssumption
<1>1. CASE Start
  <2>1. ~expired /\ polls * PollInterval <= now /\ answer = "none"
    BY <1>1 DEF Start, IInv, TypeOK, PollsSpaced, TimeoutNoticed
  <2>2. QED
    BY <1>1, <2>1, PollKeepsIInv DEF Start
<1>2. CASE IntervalEnds
  <2>1. ~expired /\ answer = "none"
    BY <1>2 DEF IntervalEnds, IInv, TypeOK, TimeoutNoticed
  <2>2. polls * PollInterval <= now
    BY <1>2 DEF IntervalEnds, IInv, TypeOK, PollsSpaced
  <2>3. Poll
    BY <1>2, <2>1 DEF IntervalEnds, LoopTop
  <2>4. QED
    BY <1>2, <2>1, <2>2, <2>3, PollKeepsIInv DEF IntervalEnds
<1>3. CASE PollSucceeds
  BY <1>3 DEF PollSucceeds, IInv, TypeOK, PollsSpaced, TimeoutNoticed, NeverFallsOut, Ended
<1>4. CASE PollFails
  <2>1. now' \in 0 .. MaxTime /\ wakeAt' \in Nat /\ polls' \in Nat
    <3>1. polls \in Nat /\ now \in 0 .. MaxTime /\ wakeAt \in Nat
      BY DEF IInv, TypeOK
    <3>2. wakeAt' = wakeAt \/ wakeAt' = now + PollInterval
      BY <1>4 DEF PollFails
    <3>3. UNCHANGED <<now, polls>>
      BY <1>4 DEF PollFails
    <3>4. QED
      BY <3>1, <3>2, <3>3
  <2>2. TypeOK' /\ NeverFallsOut'
    <3>1. /\ pc' \in {"idle", "poll", "sleep"} \cup Ended
          /\ answer' \in {"none", "found", "error"} /\ answer' = "none"
          /\ pc' # "fell out"
      BY <1>4 DEF PollFails, Ended
    <3>2. expired' \in BOOLEAN /\ aborted' \in BOOLEAN /\ indexed' \in BOOLEAN
      BY <1>4 DEF PollFails, IInv, TypeOK
    <3>3. QED
      BY <2>1, <3>1, <3>2 DEF TypeOK, NeverFallsOut
  <2>3. TimeoutNoticed'
    BY <1>4 DEF PollFails, IInv, TimeoutNoticed
  <2>4. PollsSpaced'
    BY <1>4 DEF PollFails, IInv, TypeOK, PollsSpaced
  <2>5. QED
    BY <2>2, <2>3, <2>4 DEF IInv
<1>5. CASE TimeoutFires
  BY <1>5 DEF TimeoutFires, TimeoutDue, IInv, TypeOK, PollsSpaced, TimeoutNoticed, NeverFallsOut, Ended
<1>6. CASE Abort
  BY <1>6 DEF Abort, IInv, TypeOK, PollsSpaced, TimeoutNoticed, NeverFallsOut, Ended
<1>7. CASE Index
  BY <1>7 DEF Index, IInv, TypeOK, PollsSpaced, TimeoutNoticed, NeverFallsOut, Ended
<1>8. CASE Answer
  BY <1>8 DEF Answer, IInv, TypeOK, PollsSpaced, TimeoutNoticed, NeverFallsOut, Ended
<1>9. CASE Tick
  <2>1. TypeOK' /\ NeverFallsOut'
    <3>1. now' \in 0 .. MaxTime
      BY <1>9 DEF Tick, IInv, TypeOK
    <3>2. QED
      BY <1>9, <3>1 DEF Tick, IInv, TypeOK, NeverFallsOut
  <2>2. PollsSpaced'
    <3>1. polls * PollInterval \in Int /\ now \in Int /\ now' = now + 1
      BY <1>9 DEF Tick, IInv, TypeOK
    <3>2. QED
      BY <1>9, <3>1 DEF Tick, IInv, PollsSpaced
  <2>3. TimeoutNoticed'
    <3>1. now' > Timeout => Timeout <= now
      BY <1>9 DEF Tick, IInv, TypeOK
    <3>2. Timeout <= now => expired
      BY <1>9 DEF Tick, TimeoutDue
    <3>3. QED
      BY <1>9, <3>1, <3>2 DEF Tick, IInv, TimeoutNoticed
  <2>4. QED
    BY <2>1, <2>2, <2>3 DEF IInv
<1>10. CASE UNCHANGED vars
  BY <1>10 DEF vars, IInv, TypeOK, PollsSpaced, TimeoutNoticed, NeverFallsOut, Ended
<1>11. QED
  BY <1>1, <1>2, <1>3, <1>4, <1>5, <1>6, <1>7, <1>8, <1>9, <1>10 DEF Next

\* IInv holds in every state: the state keeps its shape, polls are spaced, and
\* a timeout that has passed is noticed.
THEOREM SpecIInv == Spec => []IInv
BY InitIInv, StepIInv, PTL DEF Spec

-----------------------------------------------------------------------------
\* The state keeps its declared shape, for every timeout and interval.
THEOREM SpecTypeOK == Spec => []TypeOK
<1>1. IInv => TypeOK
  BY DEF IInv
<1>2. QED
  BY <1>1, SpecIInv, PTL

\* How many intervals fit into a time.
LEMMA WholeIntervals ==
    ASSUME NEW d \in Nat \ {0}, NEW n \in Nat, NEW k \in Nat, k * d <= n + d
    PROVE  k <= n \div d + 1
<1> DEFINE q == n \div d
<1>1. /\ q \in Int
      /\ n < (q + 1) * d
  BY Z3
<1>2. (q + 2) * d = (q + 1) * d + d
  BY <1>1
<1>3. k * d < (q + 2) * d
  BY <1>1, <1>2
<1>4. k < q + 2
  <2>1. SUFFICES ASSUME k >= q + 2 PROVE FALSE
    BY <1>1
  <2>2. k * d >= (q + 2) * d
    BY <1>1, <2>1
  <2>3. QED
    BY <1>1, <1>3, <2>2
<1>5. QED
  BY <1>1, <1>4

\* The node is polled once at the start and then at most once per interval.
THEOREM SpecPollsBounded == Spec => []PollsBounded
<1>1. IInv => PollsBounded
  BY WholeIntervals, TimesAssumption DEF IInv, TypeOK, PollsSpaced, PollsBounded
<1>2. QED
  BY <1>1, SpecIInv, PTL

\* After the timeout the call is over, or awaits a poll that is in flight.
THEOREM SpecOverByDeadline == Spec => []OverByDeadline
<1>1. IInv => OverByDeadline
  BY DEF IInv, TypeOK, TimeoutNoticed, OverByDeadline
<1>2. QED
  BY <1>1, SpecIInv, PTL

\* The statements after the loop are never reached.
THEOREM SpecNeverFallsOut == Spec => []NeverFallsOut
<1>1. IInv => NeverFallsOut
  BY DEF IInv
<1>2. QED
  BY <1>1, SpecIInv, PTL

\* No poll is made once the timeout or the abort signal has fired.
THEOREM SpecNoPollOnceOver == Spec => NoPollOnceOver
<1>1. IInv /\ [Next]_vars => [polls' # polls => ~expired /\ ~aborted]_vars
  BY DEF IInv, TypeOK, TimeoutNoticed, Next, vars, Start, PollSucceeds, PollFails, IntervalEnds,
         LoopTop, Poll, TimeoutFires, Abort, Index, Answer, Tick
<1>2. QED
  BY <1>1, SpecIInv, PTL DEF Spec, NoPollOnceOver
=============================================================================
