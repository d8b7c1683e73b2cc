----------------------------- MODULE MCTurnTools -----------------------------
(***************************************************************************)
(* Instances of TurnTools for TLC.                                         *)
(***************************************************************************)
EXTENDS TurnTools, TLC

\* Every turn is submitted to one conversation.
SameChat == [t \in Turns |-> CHOOSE c \in Chats : TRUE]

\* Poll tokens are random UUIDs: nothing in the code orders two of them.
TokenSymmetry == Permutations(Tokens)
=============================================================================
