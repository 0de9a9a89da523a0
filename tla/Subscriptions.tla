----------------------------- MODULE Subscriptions -----------------------------
(***************************************************************************)
(* What a client of subscriptions promises, without sockets, ids, maps or   *)
(* answers on their way: a session that has subscribed is listening, until  *)
(* it leaves or the connection is lost; a lost connection is recalled, for  *)
(* those who subscribed then, until too many were lost in a row.            *)
(***************************************************************************)
EXTENDS Integers

CONSTANTS
    Sessions,
    MaxReconnects   \* connections that may be lost in a row before it is over

VARIABLES
    phase,      \* phase[s]: where session s is in its use of the service
    kept,       \* sessions the service has a subscription for
    recalled,   \* sessions it is asking for again after a loss
    listening,  \* sessions whose messages arrive
    heard,      \* sessions that were given a message
    lost        \* connections lost in a row

vars == <<phase, kept, recalled, listening, heard, lost>>

Over == lost > MaxReconnects

Init ==
    /\ phase = [s \in Sessions |-> "idle"]
    /\ kept = {} /\ recalled = {} /\ listening = {} /\ heard = {}
    /\ lost = 0

Ask(s) ==
    /\ phase[s] = "idle"
    /\ phase' = [phase EXCEPT ![s] = "requesting"]
    /\ UNCHANGED <<kept, recalled, listening, heard, lost>>

Fail(s) ==
    /\ phase[s] = "requesting"
    /\ phase' = [phase EXCEPT ![s] = "failed"]
    /\ UNCHANGED <<kept, recalled, listening, heard, lost>>

\* A session that is told it has subscribed is listening.
Confirm(s) ==
    /\ phase[s] = "requesting" /\ ~Over
    /\ phase' = [phase EXCEPT ![s] = "subscribed"]
    /\ kept' = kept \cup {s}
    /\ listening' = listening \cup {s}
    /\ UNCHANGED <<recalled, heard, lost>>

Leave(s) ==
    /\ phase[s] \in {"subscribed", "left"}
    /\ phase' = [phase EXCEPT ![s] = "left"]
    /\ kept' = kept \ {s}
    /\ listening' = listening \ {s}
    /\ UNCHANGED <<recalled, heard, lost>>

\* Only what was kept when a recall began can come back: one that left before
\* stays away.  One that leaves during the recall may come back once.
Resume(s) ==
    /\ s \in recalled /\ ~Over
    /\ recalled' = recalled \ {s}
    /\ kept' = kept \cup {s}
    /\ listening' = listening \cup {s}
    /\ UNCHANGED <<phase, heard, lost>>

\* A recall that is not answered leaves its session to the next one.
GiveUpRecall(s) ==
    /\ s \in recalled
    /\ recalled' = recalled \ {s}
    /\ UNCHANGED <<phase, kept, listening, heard, lost>>

LoseConnection ==
    /\ ~Over
    /\ lost' = lost + 1
    /\ listening' = {} /\ recalled' = {}
    /\ UNCHANGED <<phase, kept, heard>>

Recall ==
    /\ lost > 0 /\ ~Over
    /\ listening = {}
    /\ recalled' = kept
    /\ UNCHANGED <<phase, kept, listening, heard, lost>>

Connect ==
    /\ ~Over
    /\ lost' = 0
    /\ UNCHANGED <<phase, kept, recalled, listening, heard>>

\* A message is for one session, which is listening.
Deliver(s) ==
    /\ s \in listening
    /\ heard' = heard \cup {s}
    /\ UNCHANGED <<phase, kept, recalled, listening, lost>>

Next ==
    \/ \E s \in Sessions :
        \/ Ask(s) \/ Fail(s) \/ Confirm(s) \/ Leave(s)
        \/ Resume(s) \/ GiveUpRecall(s) \/ Deliver(s)
    \/ LoseConnection \/ Recall \/ Connect

Spec == Init /\ [][Next]_vars

-----------------------------------------------------------------------------
\* Nobody listens who has no subscription, and nobody once it is over.
ListenersKept == listening \subseteq kept
OverIsSilent  == Over => listening = {}

\* A session that left, and is not being recalled, never has a subscription again.
Away(s) == phase[s] = "left" /\ s \notin kept \cup recalled

AwayForGood == [][\A s \in Sessions : Away(s) => Away(s)']_vars
=============================================================================
