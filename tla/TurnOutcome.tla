----------------------------- MODULE TurnOutcome -----------------------------
(***************************************************************************)
(* What a durable turn promises the people who watch it, with no leases,   *)
(* clocks, workers, steers or waits: a conversation works on one turn at a *)
(* time, an accepted turn gets at most one outcome, and the outcome is     *)
(* published to the conversation's readers in the very step that decides   *)
(* it and never retracted.  TurnLease implements it.                       *)
(***************************************************************************)
CONSTANTS Turns, Chats, ChatOf

VARIABLES
    outcome,   \* "none", "open", or how the turn ended
    published  \* the outcomes its readers have been shown

Outcomes == {"completed", "failed", "cancelled"}

Init == /\ outcome = [t \in Turns |-> "none"]
        /\ published = [t \in Turns |-> {}]

\* The conversation accepts a turn.
Open(t) ==
    /\ outcome[t] = "none"
    /\ \A u \in Turns : ChatOf[u] = ChatOf[t] => outcome[u] # "open"
    /\ outcome' = [outcome EXCEPT ![t] = "open"]
    /\ UNCHANGED published

\* The turn ends, and everyone is told.
Decide(t, o) ==
    /\ outcome[t] = "open"
    /\ outcome' = [outcome EXCEPT ![t] = o]
    /\ published' = [published EXCEPT ![t] = {o}]

Next == \E t \in Turns : Open(t) \/ \E o \in Outcomes : Decide(t, o)

Spec == Init /\ [][Next]_<<outcome, published>>
=============================================================================
