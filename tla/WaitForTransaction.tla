-------------------------- MODULE WaitForTransaction --------------------------
(***************************************************************************)
(* SuiClient.waitForTransactionBlock (src/src/client/client.ts): a loop     *)
(* that polls getTransactionBlock, sleeps between polls, and ends with the  *)
(* first answer, the timeout or the caller's abort signal.                  *)
(*                                                                          *)
(* Time is counted in ticks.  The event loop is idle otherwise, so a timer  *)
(* fires in the tick it is due, but two timers due in one tick fire in any  *)
(* order; an RPC call takes any time, and the code gives it no timeout.     *)
(***************************************************************************)
EXTENDS Integers

CONSTANTS
    Timeout,        \* timeout, in ticks
    PollInterval,   \* pollInterval, in ticks
    MaxTime         \* bound: ticks that are counted

ASSUME TimesAssumption ==
    /\ Timeout \in Nat
    /\ PollInterval \in Nat \ {0}
    /\ MaxTime \in Nat

VARIABLES
    now,        \* ticks since the call, up to MaxTime
    pc,         \* where the call is: "poll" awaits the RPC, "sleep" the race
    wakeAt,     \* when the poll interval slept for ends
    expired,    \* timeoutSignal.aborted
    aborted,    \* signal.aborted
    answer,     \* external: what the node has answered the poll in flight
    indexed,    \* external: the node knows the transaction
    polls       \* calls to getTransactionBlock so far

vars == <<now, pc, wakeAt, expired, aborted, answer, indexed, polls>>

Ended == {"returned", "timeout thrown", "abort thrown", "fell out"}

Init ==
    /\ now = 0
    /\ pc = "idle"
    /\ wakeAt = 0
    /\ expired = FALSE
    /\ aborted = FALSE
    /\ answer = "none"
    /\ indexed = FALSE
    /\ polls = 0

-----------------------------------------------------------------------------
\* signal?.throwIfAborted() and the poll.
Poll ==
    IF aborted
    THEN pc' = "abort thrown" /\ UNCHANGED polls
    ELSE pc' = "poll" /\ polls' = polls + 1

\* Mutant: the abort signal is not looked at before the next poll.
MutLoopTopIgnoresAbort ==
    IF expired THEN pc' = "fell out" /\ UNCHANGED polls ELSE pc' = "poll" /\ polls' = polls + 1

\* The head of the loop; falling out of it leads to the statements after it.
LoopTop == IF expired THEN pc' = "fell out" /\ UNCHANGED polls ELSE Poll

\* The call, up to its first await: the timeout was just set.
Start ==
    /\ pc = "idle"
    /\ Poll
    /\ UNCHANGED <<now, wakeAt, expired, aborted, answer, indexed>>

PollSucceeds ==
    /\ pc = "poll"
    /\ answer = "found"
    /\ pc' = "returned"
    /\ answer' = "none"
    /\ UNCHANGED <<now, wakeAt, expired, aborted, indexed, polls>>

\* Mutants: an expired timeout is not noticed; nor is the poll interval; there
\* is no sleep.
MutPollFailsNoRace ==
    /\ pc = "poll"
    /\ answer = "error"
    /\ pc' = "sleep"
    /\ wakeAt' = now + PollInterval
    /\ answer' = "none"
    /\ UNCHANGED <<now, expired, aborted, indexed, polls>>

MutPollFailsNoTimer ==
    /\ pc = "poll"
    /\ answer = "error"
    /\ pc' = "sleep"
    /\ wakeAt' = MaxTime + 1
    /\ answer' = "none"
    /\ UNCHANGED <<now, expired, aborted, indexed, polls>>

MutPollFailsAtOnce ==
    /\ pc = "poll"
    /\ answer = "error"
    /\ pc' = IF expired THEN "timeout thrown" ELSE "sleep"
    /\ wakeAt' = now
    /\ answer' = "none"
    /\ UNCHANGED <<now, expired, aborted, indexed, polls>>

\* The catch: sleep, unless the timeout it races has passed.
PollFails ==
    /\ pc = "poll"
    /\ answer = "error"
    /\ IF expired
       THEN pc' = "timeout thrown" /\ UNCHANGED wakeAt
       ELSE pc' = "sleep" /\ wakeAt' = now + PollInterval
    /\ answer' = "none"
    /\ UNCHANGED <<now, expired, aborted, indexed, polls>>

\* The poll interval ends and wins the race.
IntervalEnds ==
    /\ pc = "sleep"
    /\ wakeAt <= now
    /\ LoopTop
    /\ UNCHANGED <<now, wakeAt, expired, aborted, answer, indexed>>

TimeoutDue == pc \notin {"idle"} \cup Ended /\ ~expired /\ Timeout <= now

\* Mutants: the sleep goes on after the timeout; the timeout drops a poll.
MutTimeoutFiresQuietly ==
    /\ TimeoutDue
    /\ expired' = TRUE
    /\ UNCHANGED <<now, pc, wakeAt, aborted, answer, indexed, polls>>

MutTimeoutFiresAnywhere ==
    /\ TimeoutDue
    /\ expired' = TRUE
    /\ pc' = "timeout thrown"
    /\ UNCHANGED <<now, wakeAt, aborted, answer, indexed, polls>>

\* The timeout signal: it ends a sleep; a poll in flight does not notice.
TimeoutFires ==
    /\ TimeoutDue
    /\ expired' = TRUE
    /\ pc' = IF pc = "sleep" THEN "timeout thrown" ELSE pc
    /\ UNCHANGED <<now, wakeAt, aborted, answer, indexed, polls>>

\* The caller aborts, before the call or during it.
Abort ==
    /\ pc \notin Ended
    /\ ~aborted
    /\ aborted' = TRUE
    /\ UNCHANGED <<now, pc, wakeAt, expired, answer, indexed, polls>>

\* External: the node executes the transaction, and answers polls: with the
\* transaction if it knows it, with an error if not or for another reason.
Index ==
    /\ ~indexed
    /\ indexed' = TRUE
    /\ UNCHANGED <<now, pc, wakeAt, expired, aborted, answer, polls>>

Answer ==
    /\ pc = "poll"
    /\ answer = "none"
    /\ \/ indexed /\ answer' = "found"
       \/ answer' = "error"
    /\ UNCHANGED <<now, pc, wakeAt, expired, aborted, indexed, polls>>

Tick ==
    /\ pc \notin {"idle"} \cup Ended
    /\ now < MaxTime
    /\ ~TimeoutDue
    /\ pc = "sleep" => now < wakeAt
    /\ now' = now + 1
    /\ UNCHANGED <<pc, wakeAt, expired, aborted, answer, indexed, polls>>

Next ==
    \/ Start
    \/ PollSucceeds
    \/ PollFails
    \/ IntervalEnds
    \/ TimeoutFires
    \/ Abort
    \/ Index
    \/ Answer
    \/ Tick

Spec == Init /\ [][Next]_vars

(***************************************************************************)
(* The event loop runs continuations and due timers, and time passes.  With *)
(* answers, the node also answers or rejects each poll; HTTP requests have  *)
(* no timeout here, so that is an assumption about the node, not the code.  *)
(***************************************************************************)
LocalFairness ==
    /\ WF_vars(Start)
    /\ WF_vars(PollSucceeds \/ PollFails \/ IntervalEnds)
    /\ WF_vars(TimeoutFires)
    /\ WF_vars(Tick)

HangingSpec == Spec /\ LocalFairness
FairSpec    == Spec /\ LocalFairness /\ WF_vars(Answer)

-----------------------------------------------------------------------------
(* Properties.                                                              *)

\* The state has its declared shape, and an answer is only held while a poll
\* is in flight.
TypeOK ==
    /\ now \in 0 .. MaxTime
    /\ pc \in {"idle", "poll", "sleep"} \cup Ended
    /\ wakeAt \in Nat
    /\ expired \in BOOLEAN
    /\ aborted \in BOOLEAN
    /\ answer \in {"none", "found", "error"}
    /\ answer # "none" => pc = "poll"
    /\ indexed \in BOOLEAN
    /\ polls \in Nat

\* The node is not polled more often than the interval allows, however fast it
\* answers.
PollsBounded == polls <= now \div PollInterval + 1

\* After the timeout the call is over, unless the poll it awaits is in flight.
OverByDeadline ==
    now > Timeout => pc \in {"idle", "poll"} \cup Ended

\* The loop is never left by its condition: an expired timeout always throws in
\* the race first, so the statements after the loop (829-832) are never reached.
NeverFallsOut == pc # "fell out"

\* No poll is made once the timeout or the abort signal has fired, although
\* both may fire at any await.
NoPollOnceOver ==
    [][polls' # polls => ~expired /\ ~aborted]_vars

\* If the node answers its polls the call ends.
EndsIfAnswered == pc = "poll" ~> pc \in Ended

\* "The amount of time to wait for a transaction block" (client.ts:797): the
\* timeout ends the call.
TimeoutEndsTheWait == expired ~> pc \in Ended
=============================================================================
