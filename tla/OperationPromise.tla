-------------------------- MODULE OperationPromise --------------------------
(***************************************************************************)
(* What the reverse channel promises a run about one operation identity,   *)
(* with no connections, frames, locks or process lifetimes: the capability *)
(* behind it is reached at most once, its verdict is decided at most once, *)
(* a success is decided only for a capability that was reached, and an     *)
(* identity whose outcome was lost stays lost.  ReverseRpc implements it.  *)
(***************************************************************************)
CONSTANT Ops

VARIABLES
    fate,    \* "unknown" to the host, "open", "lost", or the verdict
    reached  \* the capability behind the operation was reached

Verdicts == {"ok", "failed"}

Init == /\ fate = [o \in Ops |-> "unknown"]
        /\ reached = [o \in Ops |-> FALSE]

\* The host takes the operation on, or takes the identity and loses it at once.
Take(o, f) ==
    /\ fate[o] = "unknown"
    /\ f \in {"open", "lost"}
    /\ fate' = [fate EXCEPT ![o] = f]
    /\ UNCHANGED reached

Reach(o) ==
    /\ fate[o] = "open"
    /\ ~reached[o]
    /\ reached' = [reached EXCEPT ![o] = TRUE]
    /\ UNCHANGED fate

Decide(o, v) ==
    /\ fate[o] = "open"
    /\ v = "ok" => reached[o]
    /\ fate' = [fate EXCEPT ![o] = v]
    /\ UNCHANGED reached

\* A host process dies, or cannot write: whatever it had open is lost.
Lose(lost) ==
    /\ lost \subseteq {o \in Ops : fate[o] = "open"}
    /\ fate' = [o \in Ops |-> IF o \in lost THEN "lost" ELSE fate[o]]
    /\ UNCHANGED reached

Next == \/ \E o \in Ops : \/ \E f \in {"open", "lost"} : Take(o, f)
                          \/ Reach(o)
                          \/ \E v \in Verdicts : Decide(o, v)
        \/ \E lost \in SUBSET Ops : Lose(lost)

Spec == Init /\ [][Next]_<<fate, reached>>
=============================================================================
