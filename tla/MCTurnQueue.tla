---------------------------- MODULE MCTurnQueue ----------------------------
(***************************************************************************)
(* Instances of TurnQueue for TLC.  Ids, Reqs and Contents are numbers.    *)
(***************************************************************************)
EXTENDS TurnQueue

\* Plain texts, and with the highest number a message that refers to everything.
LastCarriesAll ==
    [content \in Contents |-> IF \A d \in Contents : d <= content THEN Refs ELSE {}]

\* The submissions are interchangeable, and so are the ids they use and the plain
\* texts: submissions are ordered by what they carry, ids are numbered as they first
\* appear, and the first text is used at least as often as any other.  What a
\* submission carries never changes, so the behaviours left out are renamings of ones
\* that stay, for liveness too.
Kind(s) == 2 * s.content + (IF s.queue THEN 1 ELSE 0)
Uses(content) == Cardinality({r \in Reqs : req[r].content = content})
Canonical ==
    /\ \A r, s \in Reqs : r < s => Kind(req[r]) <= Kind(req[s])
    /\ \A r \in Reqs : req[r].id <= 1 + Cardinality({req[s].id : s \in {x \in Reqs : x < r}})
    /\ \A content \in Contents : Carries[content] = Carries[1] => Uses(content) <= Uses(1)

\* A bound: at most one submission does not ask to queue.
MostlyQueue == \A r, s \in Reqs : ~req[r].queue /\ ~req[s].queue => r = s

MCInit == Init /\ Canonical /\ MostlyQueue
MCSpec == MCInit /\ [][Next]_vars
MCFairSpec == MCSpec /\ Fairness
=============================================================================
