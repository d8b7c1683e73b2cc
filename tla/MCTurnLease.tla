----------------------------- MODULE MCTurnLease -----------------------------
(***************************************************************************)
(* Instances of TurnLease for TLC.                                         *)
(***************************************************************************)
EXTENDS TurnLease, TLC

\* Every turn is submitted to one conversation.
SameChat == [t \in Turns |-> CHOOSE c \in Chats : TRUE]

\* All turns but one share a conversation.
TwoChats == CHOOSE f \in [Turns -> Chats] : \A c \in Chats : \E t \in Turns : f[t] = c

\* Poll tokens are random UUIDs: nothing in the code orders two of them.
TokenSymmetry == Permutations(Tokens)

\* The same for tokens that are numbers, where symmetry would not be sound (liveness):
\* they are first used in ascending order.  A poll that can use a token not used yet
\* can use the least of these, so the fairness of polling is not touched.
Polled(tok) == receipt[tok] # NoReceipt \/ scanned[tok] # NoTurn
TokensInOrder == \A tok \in Tokens : Polled(tok)' => \A k \in Tokens : k < tok => Polled(k)'
=============================================================================
