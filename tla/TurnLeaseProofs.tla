--------------------------- MODULE TurnLeaseProofs ---------------------------
(***************************************************************************)
(* Proofs about TurnLease, for every number of turns, conversations, polls *)
(* and steers, every clock bound and every attempt budget.                 *)
(***************************************************************************)
EXTENDS TurnLease, TLAPS

-----------------------------------------------------------------------------
(* Types.                                                                  *)

LEMMA StampsAreTimes == TypeOK => \A at \in Stamps : at \in Nat /\ at <= now
BY LeaseConstants DEF TypeOK, Stamps

\* A journal row written under any token, or under none, is an event.
LEMMA RowIsEvent ==
    ASSUME TypeOK, NEW t \in Turns, NEW kind \in Kinds, NEW tok \in Tokens \cup {NoToken}
    PROVE  Row(t, kind, tok) \in Events
<1>1. CASE tok = NoToken
    BY <1>1 DEF Row, Events
<1>2. CASE tok \in Tokens
    <2>1. receipt[tok].claim \in Nat
        BY <1>2 DEF TypeOK, Receipts
    <2> QED BY <2>1, <1>2 DEF Row, Events
<1> QED BY <1>1, <1>2

\* Recording a row keeps the journals typed.
LEMMA RecordType ==
    ASSUME TypeOK, NEW t \in Turns, NEW kind \in Kinds, NEW tok \in Tokens \cup {NoToken},
           Record(t, kind, tok)
    PROVE  journal' \in [Turns -> Seq(Events)]
<1>1. Row(t, kind, tok) \in Events
    BY RowIsEvent
<1>2. journal[t] \in Seq(Events)
    BY DEF TypeOK
<1>3. Append(journal[t], Row(t, kind, tok)) \in Seq(Events)
    BY <1>1, <1>2
<1> QED BY <1>3 DEF Record, TypeOK

\* Rejecting the pending steers of a turn keeps the steer rows typed.
LEMMA RejectType ==
    ASSUME TypeOK, NEW t \in Turns, RejectPendingSteers(t)
    PROVE  steer' \in [Steers -> SteerRows]
<1>1. ASSUME NEW s \in Steers
      PROVE  steer[s] \in SteerRows /\ [steer[s] EXCEPT !.status = "rejected"] \in SteerRows
    <2>1. steer[s] \in SteerRows
        BY DEF TypeOK
    <2> QED BY <2>1 DEF SteerRows
<1> QED BY <1>1 DEF RejectPendingSteers

\* Settling a turn at a time of the clock keeps the state typed.
LEMMA SettleType ==
    ASSUME TypeOK, NEW t \in Turns, NEW outcome \in TerminalStatuses,
           NEW tok \in Tokens \cup {NoToken}, NEW at \in Nat,
           Settle(t, outcome, tok, at),
           now' = now,
           available' \in [Turns -> Nat],
           scanned' \in [Tokens -> Turns \cup {NoTurn}],
           failure' \in [Tokens -> {"none", "retry_wait", "failed"}],
           openWait' \in [Turns -> Tokens \cup {NoToken}]
    PROVE  TypeOK'
<1>1. journal' \in [Turns -> Seq(Events)]
    BY RecordType DEF Settle, Kinds
<1>2. steer' \in [Steers -> SteerRows]
    BY RejectType DEF Settle
<1>3. /\ status' \in [Turns -> Statuses]
      /\ lease' \in [Turns -> Tokens \cup {NoToken}]
      /\ expires' \in [Turns -> Nat]
      /\ updated' \in [Turns -> Nat]
    BY DEF TypeOK, Settle, ClearLease, Touch, Statuses
<1> QED BY <1>1, <1>2, <1>3 DEF TypeOK, Settle

LEMMA TypeInit == Init => TypeOK
BY LeaseConstants DEF Init, TypeOK, Statuses, Receipts, NoReceipt, SteerRows, NotSeen

\* No action leaves the types.
LEMMA TypeNext == TypeOK /\ [Next]_vars => TypeOK'
<1> SUFFICES ASSUME TypeOK, [Next]_vars PROVE TypeOK'
    OBVIOUS
<1> USE LeaseConstants
<1>a. now \in Nat /\ \A at \in Stamps : at \in Nat
    BY StampsAreTimes DEF TypeOK
<1>1. ASSUME NEW t \in Turns, NEW at \in Stamps, AcceptTurn(t, at) PROVE TypeOK'
    BY <1>1, <1>a DEF TypeOK, AcceptTurn, Touch, Statuses
<1>2. ASSUME NEW t \in Turns, NEW tok \in Tokens, NEW at \in Stamps, ClaimTurn(t, tok, at)
      PROVE  TypeOK'
    <2>1. NextAttempt(t) \in Nat /\ NextClaim(t) \in Nat /\ at + LeaseTime \in Nat
        BY <1>a DEF TypeOK, NextAttempt, NextClaim
    <2>2. [turn |-> t, attempt |-> NextAttempt(t), claim |-> NextClaim(t)] \in Receipts
        BY <2>1 DEF Receipts
    <2> QED BY <2>1, <2>2, <1>2, <1>a DEF TypeOK, ClaimTurn, Touch, Statuses
<1>3. ASSUME NEW t \in Turns, NEW tok \in Tokens, NEW at \in Stamps, ScanCancelled(t, tok, at)
      PROVE  TypeOK'
    <2>1. lease[t] \in Tokens \cup {NoToken} /\ "cancelled" \in TerminalStatuses
        BY DEF TypeOK, TerminalStatuses
    <2>2. Settle(t, "cancelled", lease[t], at)
        BY <1>3 DEF ScanCancelled
    <2> QED BY <2>1, <2>2, <1>3, <1>a, SettleType DEF TypeOK, ScanCancelled
<1>4. ASSUME NEW t \in Turns, NEW tok \in Tokens, NEW at \in Stamps, ScanExhausted(t, tok, at)
      PROVE  TypeOK'
    <2>1. lease[t] \in Tokens \cup {NoToken} /\ "failed" \in TerminalStatuses
        BY DEF TypeOK, TerminalStatuses
    <2>2. Settle(t, "failed", lease[t], now)
        BY <1>4 DEF ScanExhausted
    <2> QED BY <2>1, <2>2, <1>4, <1>a, SettleType DEF TypeOK, ScanExhausted
<1>5. ASSUME NEW t \in Turns, NEW tok \in Tokens, NEW at \in Stamps, Heartbeat(t, tok, at)
      PROVE  TypeOK'
    <2>1. at + LeaseTime \in Nat /\ at \in Nat
        BY <1>a
    <2> QED BY <2>1, <1>5 DEF TypeOK, Heartbeat, Touch
<1>6. ASSUME NEW t \in Turns, NEW tok \in Tokens, NEW at \in Stamps, ExpireLease(t, tok, at)
      PROVE  TypeOK'
    BY <1>6, <1>a DEF TypeOK, ExpireLease, Touch
<1>7. ASSUME NEW t \in Turns, NEW tok \in Tokens, NEW at \in Stamps, Generate(t, tok, at)
      PROVE  TypeOK'
    BY <1>7 DEF TypeOK, Generate, rowVars
<1>8. ASSUME NEW t \in Turns, NEW tok \in Tokens, NEW at \in Stamps, NEW kind \in Batches,
             AppendTurnEvents(t, tok, kind, at)
      PROVE  TypeOK'
    <2>1. journal' \in [Turns -> Seq(Events)]
        BY <1>8, RecordType, LeaseConstants DEF AppendTurnEvents, Kinds
    <2> QED BY <2>1, <1>8 DEF TypeOK, AppendTurnEvents, rowVars
<1>9. ASSUME NEW t \in Turns, NEW tok \in Tokens, CompleteTurn(t, tok) PROVE TypeOK'
    <2>1. "completed" \in TerminalStatuses
        BY DEF TerminalStatuses
    <2> QED BY <2>1, <1>9, <1>a, SettleType DEF TypeOK, CompleteTurn
<1>10. ASSUME NEW t \in Turns, NEW tok \in Tokens, NEW retryAt \in (now + 1)..(now + RetryDelay),
              RetryLater(t, tok, retryAt)
       PROVE  TypeOK'
    <2>1. journal' \in [Turns -> Seq(Events)]
        BY <1>10, RecordType DEF RetryLater, Kinds
    <2>2. retryAt \in Nat
        BY <1>a
    <2>3. /\ status' \in [Turns -> Statuses]
          /\ available' \in [Turns -> Nat]
          /\ updated' \in [Turns -> Nat]
          /\ lease' \in [Turns -> Tokens \cup {NoToken}]
          /\ expires' \in [Turns -> Nat]
        BY <2>2, <1>10, <1>a DEF TypeOK, RetryLater, ClearLease, Touch, Statuses
    <2> QED BY <2>1, <2>3, <1>10 DEF TypeOK, RetryLater
<1>11. ASSUME NEW t \in Turns, NEW tok \in Tokens, FailTurn(t, tok) PROVE TypeOK'
    <2>1. "failed" \in TerminalStatuses
        BY DEF TerminalStatuses
    <2> QED BY <2>1, <1>11, <1>a, SettleType DEF TypeOK, FailTurn
<1>12. ASSUME NEW t \in Turns, NEW tok \in Tokens, FinishCancellation(t, tok) PROVE TypeOK'
    <2>1. "cancelled" \in TerminalStatuses
        BY DEF TerminalStatuses
    <2> QED BY <2>1, <1>12, <1>a, SettleType DEF TypeOK, FinishCancellation
<1>13. ASSUME NEW t \in Turns, NEW tok \in Tokens, NEW at \in Stamps, ParkForClient(t, tok, at)
       PROVE  TypeOK'
    BY <1>13, <1>a DEF TypeOK, ParkForClient, Park, ClearLease, Touch, Statuses, ParkedStatuses
<1>14. ASSUME NEW t \in Turns, NEW tok \in Tokens, ParkForAgentRuns(t, tok) PROVE TypeOK'
    BY <1>14, <1>a DEF TypeOK, ParkForAgentRuns, Park, ClearLease, Touch, Statuses, ParkedStatuses
<1>15. ASSUME NEW t \in Turns, NEW tok \in Tokens, CheckpointSpawn(t, tok) PROVE TypeOK'
    <2>1. journal' \in [Turns -> Seq(Events)]
        BY <1>15, RecordType DEF CheckpointSpawn, Kinds
    <2> QED BY <2>1, <1>15, <1>a DEF TypeOK, CheckpointSpawn, Resume, ClearLease, Touch, Statuses
<1>16. ASSUME NEW t \in Turns, NEW at \in Stamps, ClientResolved(t, at) PROVE TypeOK'
    BY <1>16, <1>a DEF TypeOK, ClientResolved, Resume, CloseWait, Touch, Statuses
<1>17. ASSUME NEW t \in Turns, NEW at \in Stamps, ClientStopped(t, at) PROVE TypeOK'
    <2>1. "cancelled" \in TerminalStatuses
        BY DEF TerminalStatuses
    <2> QED BY <2>1, <1>17, <1>a, SettleType DEF TypeOK, ClientStopped, CloseWait
<1>18. ASSUME NEW t \in Turns, AgentRunsSettled(t) PROVE TypeOK'
    <2>1. journal' \in [Turns -> Seq(Events)]
        BY <1>18, RecordType DEF AgentRunsSettled, WaitMatches, Kinds
    <2> QED BY <2>1, <1>18, <1>a DEF TypeOK, AgentRunsSettled, Resume, CloseWait, Touch, Statuses
<1>19. ASSUME NEW s \in Steers, NEW t \in Turns, NEW at \in Stamps, AcceptSteer(s, t, at)
       PROVE  TypeOK'
    BY <1>19, <1>a DEF TypeOK, AcceptSteer, NewSteer, Touch, SteerRows
<1>20. ASSUME NEW s \in Steers, NEW t \in Turns, NEW at \in Stamps, AcceptInterrupt(s, t, at)
       PROVE  TypeOK'
    <2>1. journal' \in [Turns -> Seq(Events)]
        BY <1>20, RecordType DEF AcceptInterrupt, WaitMatches, Kinds
    <2>2. steer' \in [Steers -> SteerRows]
        BY <1>20, <1>a DEF TypeOK, AcceptInterrupt, NewSteer, SteerRows
    <2> QED BY <2>1, <2>2, <1>20, <1>a
            DEF TypeOK, AcceptInterrupt, Resume, CloseWait, Touch, Statuses
<1>21. ASSUME NEW s \in Steers, NEW t \in Turns, NEW tok \in Tokens, NEW at \in Stamps,
              ApplySteer(s, t, tok, at)
       PROVE  TypeOK'
    <2>1. journal' \in [Turns -> Seq(Events)]
        BY <1>21, RecordType DEF ApplySteer, Kinds
    <2>2. [steer[s] EXCEPT !.status = "applied"] \in SteerRows
        <3>1. steer[s] \in SteerRows
            BY DEF TypeOK
        <3> QED BY <3>1 DEF SteerRows
    <2>3. steer' \in [Steers -> SteerRows]
        BY <2>2, <1>21 DEF TypeOK, ApplySteer
    <2>4. updated' \in [Turns -> Nat]
        BY <1>21, <1>a DEF TypeOK, ApplySteer, Touch
    <2>5. revision[t] + 1 \in Nat
        BY DEF TypeOK
    <2>6. revision' \in [Turns -> Nat]
        BY <2>5, <1>21 DEF TypeOK, ApplySteer
    <2> QED BY <2>1, <2>3, <2>4, <2>6, <1>21 DEF TypeOK, ApplySteer
<1>22. ASSUME NEW t \in Turns, NEW at \in Stamps, CancelRunning(t, at) PROVE TypeOK'
    <2>1. steer' \in [Steers -> SteerRows]
        BY <1>22, RejectType DEF CancelRunning
    <2> QED BY <2>1, <1>22, <1>a DEF TypeOK, CancelRunning, Touch, Statuses
<1>23. ASSUME NEW t \in Turns, NEW at \in Stamps, CancelIdle(t, at) PROVE TypeOK'
    <2>1. "cancelled" \in TerminalStatuses
        BY DEF TerminalStatuses
    <2> QED BY <2>1, <1>23, <1>a, SettleType DEF TypeOK, CancelIdle
<1>24. ASSUME NEW t \in Turns, NEW at \in Stamps, CancelUnclaimedClientWait(t, at) PROVE TypeOK'
    <2>1. "cancelled" \in TerminalStatuses
        BY DEF TerminalStatuses
    <2> QED BY <2>1, <1>24, <1>a, SettleType DEF TypeOK, CancelUnclaimedClientWait, CloseWait
<1>25. ASSUME NEW t \in Turns, NEW at \in Stamps, CancelClaimedClientWait(t, at) PROVE TypeOK'
    <2>1. steer' \in [Steers -> SteerRows]
        BY <1>25, RejectType DEF CancelClaimedClientWait
    <2> QED BY <2>1, <1>25, <1>a
            DEF TypeOK, CancelClaimedClientWait, Touch, Statuses, ParkedStatuses
<1>26. ASSUME NEW t \in Turns, NEW at \in Stamps, CancelAgentRunWait(t, at) PROVE TypeOK'
    <2>1. steer' \in [Steers -> SteerRows]
        BY <1>26, RejectType DEF CancelAgentRunWait
    <2>2. Row(t, "tool", openWait[t]) \in Events /\ Row(t, "cancelled", NoToken) \in Events
        BY <1>26, RowIsEvent DEF CancelAgentRunWait, WaitMatches, Kinds, TerminalStatuses
    <2>3. journal' \in [Turns -> Seq(Events)]
        BY <2>2, <1>26 DEF TypeOK, CancelAgentRunWait
    <2> QED BY <2>1, <2>3, <1>26, <1>a
            DEF TypeOK, CancelAgentRunWait, CloseWait, Touch, Statuses, TerminalStatuses
<1>27. CASE Tick
    BY <1>27 DEF TypeOK, Tick, rowVars
<1>28. CASE UNCHANGED vars
    BY <1>28 DEF TypeOK, vars, rowVars
<1> QED BY <1>1, <1>2, <1>3, <1>4, <1>5, <1>6, <1>7, <1>8, <1>9, <1>10, <1>11, <1>12, <1>13,
           <1>14, <1>15, <1>16, <1>17, <1>18, <1>19, <1>20, <1>21, <1>22, <1>23, <1>24, <1>25,
           <1>26, <1>27, <1>28
        DEF Next, WaitStep, WorkerStep, UserStep, ClaimScan, SteerStep

\* Every column of every row keeps a value of its domain: no operation writes a
\* status, count, token or event the readers of the row cannot decode.
THEOREM TypeCorrect == Spec => []TypeOK
BY TypeInit, TypeNext, PTL DEF Spec

\* The row is never stamped ahead of the clock.
Stamped == \A t \in Turns : updated[t] <= now

LEMMA StampedNext == TypeOK /\ Stamped /\ [Next]_vars => Stamped'
<1> SUFFICES ASSUME TypeOK, Stamped, [Next]_vars PROVE Stamped'
    OBVIOUS
<1> USE DEF TypeOK
<1>a. now \in Nat /\ \A at \in Stamps : at \in Nat /\ at <= now
    BY StampsAreTimes, LeaseConstants
<1>b. ASSUME NEW t \in Turns, NEW at \in Nat, at <= now, Touch(t, at), now' = now PROVE Stamped'
    BY <1>a, <1>b DEF Touch, Stamped
<1>c. ASSUME UNCHANGED updated, now' = now \/ now' = now + 1 PROVE Stamped'
    BY <1>a, <1>c DEF Stamped
<1>1. ASSUME NEW t \in Turns, WaitStep(t) PROVE Stamped'
    BY <1>1, <1>a, <1>b DEF WaitStep, ClientResolved, ClientStopped, AgentRunsSettled, Settle, Resume
<1>2. ASSUME NEW t \in Turns, NEW tok \in Tokens, WorkerStep(t, tok) PROVE Stamped'
    BY <1>2, <1>a, <1>b, <1>c DEF WorkerStep, Heartbeat, ExpireLease, Generate, AppendTurnEvents,
        ParkForClient, ParkForAgentRuns, Park, RetryLater, CompleteTurn, FailTurn,
        FinishCancellation, CheckpointSpawn, Settle, Resume, rowVars
<1>3. ASSUME NEW t \in Turns, NEW at \in Stamps, UserStep(t, at) PROVE Stamped'
    BY <1>3, <1>a, <1>b DEF UserStep, AcceptTurn, CancelRunning, CancelIdle,
        CancelUnclaimedClientWait, CancelClaimedClientWait, CancelAgentRunWait, Settle
<1>4. ASSUME NEW t \in Turns, NEW tok \in Tokens, NEW at \in Stamps, ClaimScan(t, tok, at)
      PROVE  Stamped'
    BY <1>4, <1>a, <1>b DEF ClaimScan, ClaimTurn, ScanCancelled, ScanExhausted, Settle
<1>5. ASSUME NEW s \in Steers, NEW t \in Turns, NEW at \in Stamps, SteerStep(s, t, at)
      PROVE  Stamped'
    BY <1>5, <1>a, <1>b DEF SteerStep, AcceptSteer, AcceptInterrupt, ApplySteer, Resume
<1>6. CASE Tick
    BY <1>6, <1>c DEF Tick, rowVars
<1>7. CASE UNCHANGED vars
    BY <1>7, <1>c DEF vars, rowVars
<1> QED BY <1>1, <1>2, <1>3, <1>4, <1>5, <1>6, <1>7 DEF Next

-----------------------------------------------------------------------------
(* Leases, receipts and waits.                                             *)

\* The variables LeaseInv speaks of.
leaseVars == <<status, attempt, claimCount, lease, receipt, scanned, failure, openWait>>

LEMMA LeaseInit == Init => LeaseInv
BY LeaseConstants DEF Init, LeaseInv, LeaseAgreement, ClaimNumbersAreFresh, NeverStranded,
    FailureHasReceipt, LeasedTokenHasNoFailure, PollAnswersOnce, NoReceipt, WaitMatches,
    ParkedStatuses

LEMMA LeaseStutter == LeaseInv /\ UNCHANGED leaseVars => LeaseInv'
BY DEF leaseVars, LeaseInv, LeaseAgreement, ClaimNumbersAreFresh, NeverStranded,
    FailureHasReceipt, LeasedTokenHasNoFailure, PollAnswersOnce, WaitMatches

\* The receipt of the token that holds, or last held, a turn names the turn.
LEMMA LeaseOwner ==
    ASSUME LeaseInv, NEW t \in Turns
    PROVE  /\ lease[t] \in Tokens => receipt[lease[t]].turn = t
           /\ status[t] \in ParkedStatuses => receipt[openWait[t]].turn = t
<1> DEFINE own == [turn |-> t, attempt |-> attempt[t], claim |-> claimCount[t]]
<1>1. own.turn = t
    OBVIOUS
<1>2. lease[t] \in Tokens => receipt[lease[t]] = own
    BY DEF LeaseInv, LeaseAgreement
<1>3. status[t] \in ParkedStatuses => receipt[openWait[t]] = own
    BY DEF LeaseInv, NeverStranded, WaitMatches
<1> HIDE DEF own
<1> QED BY <1>1, <1>2, <1>3

\* A poll with a fresh token takes over nobody's token: what the other turns
\* hold was granted to tokens that are spent.
LEMMA LeaseClaim ==
    ASSUME TypeOK, LeaseInv, NEW t \in Turns, NEW tok \in Tokens, NEW at \in Stamps,
           ClaimTurn(t, tok, at)
    PROVE  LeaseInv'
<1> USE LeaseConstants
<1> DEFINE granted == [turn |-> t, attempt |-> NextAttempt(t), claim |-> NextClaim(t)]
<1>1. /\ NextAttempt(t) \in Nat /\ NextClaim(t) \in Nat /\ NextClaim(t) = claimCount[t] + 1
      /\ granted \in Receipts
    BY DEF TypeOK, NextAttempt, NextClaim, Receipts
<1>2. /\ receipt' = [receipt EXCEPT ![tok] = granted]
      /\ status' = [status EXCEPT ![t] = "running"]
      /\ attempt' = [attempt EXCEPT ![t] = NextAttempt(t)]
      /\ claimCount' = [claimCount EXCEPT ![t] = NextClaim(t)]
      /\ lease' = [lease EXCEPT ![t] = tok]
      /\ UNCHANGED <<scanned, failure, openWait>>
    BY DEF ClaimTurn
<1>3. receipt[tok].turn = NoTurn /\ scanned[tok] = NoTurn /\ failure[tok] = "none"
    BY DEF ClaimTurn, Unspent, LeaseInv, FailureHasReceipt
<1>4. \A u \in Turns : lease[u] # tok /\ (status[u] \in ParkedStatuses => openWait[u] # tok)
    BY <1>3, LeaseOwner
<1>5. status[t] \in {"queued", "retry_wait", "resuming", "running"}
    BY DEF ClaimTurn, Candidate, Due, Expired
<1>6. LeaseAgreement'
    <2> SUFFICES ASSUME NEW u \in Turns
                 PROVE  /\ lease'[u] \in Tokens <=> status'[u] \in {"running", "cancelling"}
                        /\ lease'[u] \in Tokens => receipt'[lease'[u]] =
                             [turn |-> u, attempt |-> attempt'[u], claim |-> claimCount'[u]]
        BY DEF LeaseAgreement
    <2>1. CASE u = t
        BY <2>1, <1>1, <1>2 DEF TypeOK
    <2>2. CASE u # t
        BY <2>2, <1>2, <1>4 DEF TypeOK, LeaseInv, LeaseAgreement
    <2> QED BY <2>1, <2>2
<1>7. ClaimNumbersAreFresh'
    <2> SUFFICES ASSUME NEW u \in Turns, NEW j \in Tokens, receipt'[j].turn = u
                 PROVE  /\ receipt'[j].claim \in 1..claimCount'[u]
                        /\ \A k \in Tokens \ {j} :
                             receipt'[k].turn = u => receipt'[k].claim # receipt'[j].claim
        BY DEF ClaimNumbersAreFresh
    <2>1. receipt'[tok] = granted /\ \A k \in Tokens \ {tok} : receipt'[k] = receipt[k]
        BY <1>2 DEF TypeOK
    <2>2. claimCount[u] \in Nat /\ claimCount'[u] \in Nat /\ claimCount'[u] >= claimCount[u]
        BY <1>1, <1>2 DEF TypeOK
    <2>3. \A k \in Tokens \ {tok} : receipt[k].turn = u => receipt[k].claim \in 1..claimCount[u]
        BY DEF LeaseInv, ClaimNumbersAreFresh
    <2>4. CASE j = tok
        <3>1. u = t /\ receipt'[j].claim = claimCount[t] + 1 /\ claimCount'[t] = claimCount[t] + 1
            BY <2>4, <2>1, <1>1, <1>2 DEF TypeOK
        <3> QED BY <3>1, <2>1, <2>2, <2>3, <2>4
    <2>5. CASE j # tok
        <3>1. \A k \in Tokens \ {j, tok} :
                receipt'[k].turn = u => receipt'[k].claim # receipt'[j].claim
            BY <2>5, <2>1 DEF LeaseInv, ClaimNumbersAreFresh
        <3>2. receipt'[tok].turn = u => receipt'[tok].claim # receipt'[j].claim
            BY <2>5, <2>1, <2>2, <2>3, <1>1
        <3>3. receipt'[j].claim \in 1..claimCount'[u]
            BY <2>5, <2>1, <2>2, <2>3
        <3> QED BY <3>1, <3>2, <3>3
    <2> QED BY <2>4, <2>5
<1>8. NeverStranded'
    <2>1. NextAttempt(t) <= MaxAttempts
        BY DEF TypeOK, LeaseInv, NeverStranded, ClaimTurn, Candidate, Due, Expired, NextAttempt
    <2> SUFFICES ASSUME NEW u \in Turns
                 PROVE  /\ status'[u] \in {"absent", "queued", "retry_wait"} => attempt'[u] < MaxAttempts
                        /\ attempt'[u] <= MaxAttempts
                        /\ status'[u] \in ParkedStatuses => WaitMatches(u)'
                        /\ status'[u] \notin ParkedStatuses => openWait'[u] = NoToken
        BY DEF NeverStranded
    <2>2. CASE u = t
        BY <2>1, <2>2, <1>2, <1>5 DEF TypeOK, LeaseInv, NeverStranded, ParkedStatuses
    <2>3. CASE u # t
        BY <2>3, <1>2, <1>4 DEF TypeOK, LeaseInv, NeverStranded, WaitMatches
    <2> QED BY <2>2, <2>3
<1>9. FailureHasReceipt' /\ LeasedTokenHasNoFailure' /\ PollAnswersOnce'
    BY <1>1, <1>2, <1>3
    DEF TypeOK, LeaseInv, FailureHasReceipt, LeasedTokenHasNoFailure, PollAnswersOnce
<1> QED BY <1>6, <1>7, <1>8, <1>9 DEF LeaseInv

\* Settling a turn, when what the step records under other tokens is its own.
LEMMA LeaseSettle ==
    ASSUME TypeOK, LeaseInv, NEW t \in Turns, NEW outcome \in TerminalStatuses, NEW tok, NEW at,
           Settle(t, outcome, tok, at),
           openWait' = [openWait EXCEPT ![t] = NoToken],
           \A k \in Tokens : scanned'[k] = scanned[k] \/ receipt[k].turn = NoTurn,
           \A k \in Tokens : failure'[k] = failure[k] \/ receipt[k].turn = t
    PROVE  LeaseInv'
<1> USE LeaseConstants
<1>1. LeaseAgreement'
    BY DEF TypeOK, LeaseInv, LeaseAgreement, Settle, ClearLease, TerminalStatuses
<1>2. ClaimNumbersAreFresh'
    BY DEF LeaseInv, ClaimNumbersAreFresh, Settle
<1>3. NeverStranded'
    BY DEF TypeOK, LeaseInv, NeverStranded, Settle, ClearLease, WaitMatches, ParkedStatuses,
      TerminalStatuses
<1>4. FailureHasReceipt' /\ PollAnswersOnce'
    BY DEF TypeOK, LeaseInv, FailureHasReceipt, PollAnswersOnce, Settle
<1>5. LeasedTokenHasNoFailure'
    <2> SUFFICES ASSUME NEW u \in Turns, lease'[u] \in Tokens PROVE failure'[lease'[u]] = "none"
        BY DEF LeasedTokenHasNoFailure
    <2>1. u # t /\ lease'[u] = lease[u]
        BY DEF TypeOK, Settle, ClearLease
    <2>2. receipt[lease[u]].turn = u
        BY <2>1, LeaseOwner
    <2> QED BY <2>1, <2>2 DEF LeaseInv, LeasedTokenHasNoFailure
<1> QED BY <1>1, <1>2, <1>3, <1>4, <1>5 DEF LeaseInv

\* Giving up a held lease for an open wait.
LEMMA LeasePark ==
    ASSUME TypeOK, LeaseInv, NEW t \in Turns, NEW tok \in Tokens, NEW at,
           NEW waiting \in {"waiting_for_client", "waiting_for_agent_run"},
           status[t] = "running", lease[t] = tok, Park(t, tok, waiting, at)
    PROVE  LeaseInv'
<1> USE LeaseConstants
<1>1. receipt[tok] = [turn |-> t, attempt |-> attempt[t], claim |-> claimCount[t]]
    BY DEF LeaseInv, LeaseAgreement
<1>2. LeaseAgreement'
    BY DEF TypeOK, LeaseInv, LeaseAgreement, Park, ClearLease
<1>3. ClaimNumbersAreFresh'
    BY DEF LeaseInv, ClaimNumbersAreFresh, Park
<1>4. NeverStranded'
    BY <1>1 DEF TypeOK, LeaseInv, NeverStranded, Park, ClearLease, WaitMatches, ParkedStatuses
<1>5. FailureHasReceipt' /\ LeasedTokenHasNoFailure' /\ PollAnswersOnce'
    BY DEF TypeOK, LeaseInv, FailureHasReceipt, LeasedTokenHasNoFailure, PollAnswersOnce, Park,
      ClearLease
<1> QED BY <1>2, <1>3, <1>4, <1>5 DEF LeaseInv

\* Becoming claimable again, with no lease and no wait left.
LEMMA LeaseResume ==
    ASSUME TypeOK, LeaseInv, NEW t \in Turns, NEW at, Resume(t, at),
           lease' = [lease EXCEPT ![t] = NoToken],
           openWait' = [openWait EXCEPT ![t] = NoToken],
           UNCHANGED <<attempt, claimCount, receipt, scanned, failure>>
    PROVE  LeaseInv'
<1> USE LeaseConstants
<1>1. LeaseAgreement'
    BY DEF TypeOK, LeaseInv, LeaseAgreement, Resume
<1>2. ClaimNumbersAreFresh'
    BY DEF LeaseInv, ClaimNumbersAreFresh
<1>3. NeverStranded'
    BY DEF TypeOK, LeaseInv, NeverStranded, Resume, WaitMatches, ParkedStatuses
<1>4. FailureHasReceipt' /\ LeasedTokenHasNoFailure' /\ PollAnswersOnce'
    BY DEF TypeOK, LeaseInv, FailureHasReceipt, LeasedTokenHasNoFailure, PollAnswersOnce
<1> QED BY <1>1, <1>2, <1>3, <1>4 DEF LeaseInv

\* A turn that is not parked has no open wait, so leaving it alone clears it.
LEMMA NoWaitToClose ==
    ASSUME TypeOK, LeaseInv, NEW t \in Turns, status[t] \notin ParkedStatuses,
           UNCHANGED openWait
    PROVE  openWait' = [openWait EXCEPT ![t] = NoToken]
BY DEF TypeOK, LeaseInv, NeverStranded

\* The same for a lease nobody holds.
LEMMA NoLeaseToClear ==
    ASSUME TypeOK, LeaseInv, NEW t \in Turns, status[t] \notin {"running", "cancelling"},
           UNCHANGED lease
    PROVE  lease' = [lease EXCEPT ![t] = NoToken]
BY DEF TypeOK, LeaseInv, LeaseAgreement

\* No action breaks the agreement of leases, receipts and waits.
LEMMA LeaseNext == TypeOK /\ LeaseInv /\ [Next]_vars => LeaseInv'
<1> SUFFICES ASSUME TypeOK, LeaseInv, [Next]_vars PROVE LeaseInv'
    OBVIOUS
<1> USE LeaseConstants
<1>a. ASSUME NEW t \in Turns, NEW tok \in Tokens, NEW at, Leased(t, tok, at)
      PROVE  status[t] = "running" /\ lease[t] = tok /\ status[t] \notin ParkedStatuses
    BY <1>a DEF Leased, ParkedStatuses
<1>1. ASSUME NEW t \in Turns, NEW at \in Stamps, AcceptTurn(t, at) PROVE LeaseInv'
    BY <1>1 DEF AcceptTurn, TypeOK, LeaseInv, LeaseAgreement, ClaimNumbersAreFresh, NeverStranded,
      FailureHasReceipt, LeasedTokenHasNoFailure, PollAnswersOnce, WaitMatches, ParkedStatuses
<1>2. ASSUME NEW t \in Turns, NEW tok \in Tokens, NEW at \in Stamps, ClaimTurn(t, tok, at)
      PROVE  LeaseInv'
    BY <1>2, LeaseClaim
<1>3. ASSUME NEW t \in Turns, NEW tok \in Tokens, NEW at \in Stamps, ScanCancelled(t, tok, at)
      PROVE  LeaseInv'
    <2>1. openWait' = [openWait EXCEPT ![t] = NoToken]
        BY <1>3, NoWaitToClose DEF ScanCancelled, ParkedStatuses
    <2>2. "cancelled" \in TerminalStatuses /\ Settle(t, "cancelled", lease[t], at)
        BY <1>3 DEF ScanCancelled, TerminalStatuses
    <2>3. \A k \in Tokens : scanned'[k] = scanned[k] \/ receipt[k].turn = NoTurn
        BY <1>3 DEF ScanCancelled, Unspent, TypeOK
    <2>4. UNCHANGED failure
        BY <1>3 DEF ScanCancelled
    <2> QED BY <2>1, <2>2, <2>3, <2>4, LeaseSettle
<1>4. ASSUME NEW t \in Turns, NEW tok \in Tokens, NEW at \in Stamps, ScanExhausted(t, tok, at)
      PROVE  LeaseInv'
    <2>1. openWait' = [openWait EXCEPT ![t] = NoToken]
        BY <1>4, NoWaitToClose DEF ScanExhausted, ParkedStatuses
    <2>2. "failed" \in TerminalStatuses /\ Settle(t, "failed", lease[t], now)
        BY <1>4 DEF ScanExhausted, TerminalStatuses
    <2>3. \A k \in Tokens : scanned'[k] = scanned[k] \/ receipt[k].turn = NoTurn
        BY <1>4 DEF ScanExhausted, Unspent, TypeOK
    <2>4. \A k \in Tokens : failure'[k] = failure[k] \/ receipt[k].turn = t
        BY <1>4, LeaseOwner DEF ScanExhausted, TypeOK
    <2> QED BY <2>1, <2>2, <2>3, <2>4, LeaseSettle
<1>5. ASSUME NEW t \in Turns, NEW tok \in Tokens, NEW at \in Stamps,
             Heartbeat(t, tok, at) \/ ExpireLease(t, tok, at) \/ Generate(t, tok, at)
                \/ \E kind \in Batches : AppendTurnEvents(t, tok, kind, at)
      PROVE  LeaseInv'
    BY <1>5, LeaseStutter DEF Heartbeat, ExpireLease, Generate, AppendTurnEvents, rowVars, leaseVars
<1>6. ASSUME NEW t \in Turns, NEW tok \in Tokens, CompleteTurn(t, tok) PROVE LeaseInv'
    <2>1. openWait' = [openWait EXCEPT ![t] = NoToken]
        BY <1>6, <1>a, NoWaitToClose DEF CompleteTurn, Held
    <2>2. /\ "completed" \in TerminalStatuses /\ Settle(t, "completed", tok, now)
          /\ UNCHANGED <<scanned, failure>>
        BY <1>6 DEF CompleteTurn, TerminalStatuses
    <2> QED BY <2>1, <2>2, LeaseSettle
<1>7. ASSUME NEW t \in Turns, NEW tok \in Tokens, NEW retryAt, RetryLater(t, tok, retryAt)
      PROVE  LeaseInv'
    <2>1. lease[t] = tok /\ status[t] = "running" /\ receipt[tok].turn = t
        BY <1>7, <1>a DEF RetryLater, Held
    <2>2. /\ status' = [status EXCEPT ![t] = "retry_wait"]
          /\ lease' = [lease EXCEPT ![t] = NoToken]
          /\ failure' = [failure EXCEPT ![tok] = "retry_wait"]
          /\ attempt[t] < MaxAttempts
          /\ UNCHANGED <<attempt, claimCount, receipt, scanned, openWait>>
        BY <1>7 DEF RetryLater, ClearLease
    <2>3. LeaseAgreement'
        BY <2>2 DEF TypeOK, LeaseInv, LeaseAgreement
    <2>4. ClaimNumbersAreFresh' /\ FailureHasReceipt' /\ PollAnswersOnce'
        BY <2>1, <2>2 DEF TypeOK, LeaseInv, ClaimNumbersAreFresh, FailureHasReceipt, PollAnswersOnce
    <2>5. NeverStranded'
        BY <2>1, <2>2 DEF TypeOK, LeaseInv, NeverStranded, WaitMatches, ParkedStatuses
    <2>6. LeasedTokenHasNoFailure'
        <3> SUFFICES ASSUME NEW u \in Turns, lease'[u] \in Tokens PROVE failure'[lease'[u]] = "none"
            BY DEF LeasedTokenHasNoFailure
        <3>1. u # t /\ lease'[u] = lease[u]
            BY <2>2 DEF TypeOK
        <3>2. lease[u] # tok
            BY <3>1, <2>1, LeaseOwner
        <3> QED BY <3>1, <3>2, <2>2 DEF TypeOK, LeaseInv, LeasedTokenHasNoFailure
    <2> QED BY <2>3, <2>4, <2>5, <2>6 DEF LeaseInv
<1>8. ASSUME NEW t \in Turns, NEW tok \in Tokens, FailTurn(t, tok) PROVE LeaseInv'
    <2>1. openWait' = [openWait EXCEPT ![t] = NoToken]
        BY <1>8, <1>a, NoWaitToClose DEF FailTurn, Held
    <2>2. /\ "failed" \in TerminalStatuses /\ Settle(t, "failed", tok, now)
          /\ UNCHANGED scanned
        BY <1>8 DEF FailTurn, TerminalStatuses
    <2>3. \A k \in Tokens : failure'[k] = failure[k] \/ receipt[k].turn = t
        BY <1>8 DEF FailTurn, Held, TypeOK
    <2> QED BY <2>1, <2>2, <2>3, LeaseSettle
<1>9. ASSUME NEW t \in Turns, NEW tok \in Tokens, FinishCancellation(t, tok) PROVE LeaseInv'
    <2>1. openWait' = [openWait EXCEPT ![t] = NoToken]
        BY <1>9, NoWaitToClose DEF FinishCancellation, ParkedStatuses
    <2>2. /\ "cancelled" \in TerminalStatuses /\ Settle(t, "cancelled", tok, now)
          /\ UNCHANGED <<scanned, failure>>
        BY <1>9 DEF FinishCancellation, TerminalStatuses
    <2> QED BY <2>1, <2>2, LeaseSettle
<1>10. ASSUME NEW t \in Turns, NEW tok \in Tokens, NEW at \in Stamps, ParkForClient(t, tok, at)
       PROVE  LeaseInv'
    BY <1>10, <1>a, LeasePark DEF ParkForClient
<1>11. ASSUME NEW t \in Turns, NEW tok \in Tokens, ParkForAgentRuns(t, tok) PROVE LeaseInv'
    BY <1>11, <1>a, LeasePark DEF ParkForAgentRuns
<1>12. ASSUME NEW t \in Turns, NEW tok \in Tokens, CheckpointSpawn(t, tok) PROVE LeaseInv'
    <2>1. openWait' = [openWait EXCEPT ![t] = NoToken]
        BY <1>12, <1>a, NoWaitToClose DEF CheckpointSpawn, Held
    <2> QED BY <2>1, <1>12, LeaseResume DEF CheckpointSpawn, ClearLease
<1>13. ASSUME NEW t \in Turns, NEW at \in Stamps, ClientResolved(t, at) PROVE LeaseInv'
    <2>1. lease' = [lease EXCEPT ![t] = NoToken]
        BY <1>13, NoLeaseToClear DEF ClientResolved
    <2> QED BY <2>1, <1>13, LeaseResume DEF ClientResolved, CloseWait
<1>14. ASSUME NEW t \in Turns, NEW at \in Stamps, ClientStopped(t, at) PROVE LeaseInv'
    <2>1. /\ "cancelled" \in TerminalStatuses /\ Settle(t, "cancelled", NoToken, at)
          /\ openWait' = [openWait EXCEPT ![t] = NoToken] /\ UNCHANGED <<scanned, failure>>
        BY <1>14 DEF ClientStopped, CloseWait, TerminalStatuses
    <2> QED BY <2>1, LeaseSettle
<1>15. ASSUME NEW t \in Turns, AgentRunsSettled(t) PROVE LeaseInv'
    <2>1. lease' = [lease EXCEPT ![t] = NoToken]
        BY <1>15, NoLeaseToClear DEF AgentRunsSettled
    <2> QED BY <2>1, <1>15, LeaseResume DEF AgentRunsSettled, CloseWait
<1>16. ASSUME NEW s \in Steers, NEW t \in Turns, NEW at \in Stamps, AcceptInterrupt(s, t, at)
       PROVE  LeaseInv'
    <2>1. lease' = [lease EXCEPT ![t] = NoToken]
        BY <1>16, NoLeaseToClear DEF AcceptInterrupt
    <2> QED BY <2>1, <1>16, LeaseResume DEF AcceptInterrupt, CloseWait
<1>17. ASSUME NEW s \in Steers, NEW t \in Turns, NEW at \in Stamps,
              AcceptSteer(s, t, at) \/ \E tok \in Tokens : ApplySteer(s, t, tok, at)
       PROVE  LeaseInv'
    BY <1>17, LeaseStutter DEF AcceptSteer, ApplySteer, leaseVars
<1>18. ASSUME NEW t \in Turns, NEW at \in Stamps, CancelRunning(t, at) PROVE LeaseInv'
    BY <1>18 DEF CancelRunning, TypeOK, LeaseInv, LeaseAgreement, ClaimNumbersAreFresh,
      NeverStranded, FailureHasReceipt, LeasedTokenHasNoFailure, PollAnswersOnce, WaitMatches,
      ParkedStatuses
<1>19. ASSUME NEW t \in Turns, NEW at \in Stamps, CancelIdle(t, at) PROVE LeaseInv'
    <2>1. openWait' = [openWait EXCEPT ![t] = NoToken]
        BY <1>19, NoWaitToClose DEF CancelIdle, ParkedStatuses
    <2>2. /\ "cancelled" \in TerminalStatuses /\ Settle(t, "cancelled", NoToken, now)
          /\ UNCHANGED <<scanned, failure>>
        BY <1>19 DEF CancelIdle, TerminalStatuses
    <2> QED BY <2>1, <2>2, LeaseSettle
<1>20. ASSUME NEW t \in Turns, NEW at \in Stamps, CancelUnclaimedClientWait(t, at) PROVE LeaseInv'
    <2>1. /\ "cancelled" \in TerminalStatuses /\ Settle(t, "cancelled", NoToken, now)
          /\ openWait' = [openWait EXCEPT ![t] = NoToken] /\ UNCHANGED <<scanned, failure>>
        BY <1>20 DEF CancelUnclaimedClientWait, CloseWait, TerminalStatuses
    <2> QED BY <2>1, LeaseSettle
<1>21. ASSUME NEW t \in Turns, NEW at \in Stamps, CancelClaimedClientWait(t, at) PROVE LeaseInv'
    BY <1>21 DEF CancelClaimedClientWait, TypeOK, LeaseInv, LeaseAgreement, ClaimNumbersAreFresh,
      NeverStranded, FailureHasReceipt, LeasedTokenHasNoFailure, PollAnswersOnce, WaitMatches,
      ParkedStatuses
<1>22. ASSUME NEW t \in Turns, NEW at \in Stamps, CancelAgentRunWait(t, at) PROVE LeaseInv'
    BY <1>22 DEF CancelAgentRunWait, CloseWait, TypeOK, LeaseInv, LeaseAgreement,
      ClaimNumbersAreFresh, NeverStranded, FailureHasReceipt, LeasedTokenHasNoFailure,
      PollAnswersOnce, WaitMatches, ParkedStatuses
<1>23. CASE Tick
    BY <1>23, LeaseStutter DEF Tick, rowVars, leaseVars
<1>24. CASE UNCHANGED vars
    BY <1>24, LeaseStutter DEF vars, rowVars, leaseVars
<1> QED BY <1>1, <1>2, <1>3, <1>4, <1>5, <1>6, <1>7, <1>8, <1>9, <1>10, <1>11, <1>12, <1>13,
           <1>14, <1>15, <1>16, <1>17, <1>18, <1>19, <1>20, <1>21, <1>22, <1>23, <1>24
        DEF Next, WaitStep, WorkerStep, UserStep, ClaimScan, SteerStep

LEMMA LeaseInvariant == Spec => [](TypeOK /\ LeaseInv)
<1>1. Init => TypeOK /\ LeaseInv
    BY TypeInit, LeaseInit
<1>2. (TypeOK /\ LeaseInv) /\ [Next]_vars => (TypeOK /\ LeaseInv)'
    BY TypeNext, LeaseNext
<1> QED BY <1>1, <1>2, PTL DEF Spec

\* Whoever runs a turn holds its lease under a receipt for the present attempt
\* and claim: the fence never refuses the rightful owner, whatever crashes,
\* retries, parks and cancellations came before.
THEOREM LeasesAgree == Spec => []LeaseAgreement
<1>1. TypeOK /\ LeaseInv => LeaseAgreement
    BY DEF LeaseInv
<1> QED BY <1>1, LeaseInvariant, PTL

\* A turn that waits to be claimed can still be claimed, and a parked turn has
\* the wait that its answer looks for: no sequence of failures, parks and
\* interrupts leaves a turn that nobody can advance.
THEOREM TurnsAreNeverStranded == Spec => []NeverStranded
<1>1. TypeOK /\ LeaseInv => NeverStranded
    BY DEF LeaseInv
<1> QED BY <1>1, LeaseInvariant, PTL

\* No two polls are granted the same claim, and no receipt runs ahead of its
\* turn: claim_turn's corrupt-receipt error is unreachable.
THEOREM ClaimsAreFresh == Spec => []ClaimNumbersAreFresh
<1>1. TypeOK /\ LeaseInv => ClaimNumbersAreFresh
    BY DEF LeaseInv
<1> QED BY <1>1, LeaseInvariant, PTL

\* A poll that is repeated gets one answer: no scan token both holds a receipt
\* for one turn and settled another (claim_turn's replay of a lost answer).
THEOREM PollsAnswerOnce == Spec => []PollAnswersOnce
<1>1. TypeOK /\ LeaseInv => PollAnswersOnce
    BY DEF LeaseInv
<1> QED BY <1>1, LeaseInvariant, PTL

\* The writers of the lease column: the claim scan, and whoever clears it.
LEMMA LeaseWriters ==
    [Next]_vars => \/ \E t \in Turns, tok \in Tokens, at \in Stamps : ClaimTurn(t, tok, at)
                   \/ UNCHANGED lease
                   \/ \E t \in Turns : lease' = [lease EXCEPT ![t] = NoToken]
<1> SUFFICES ASSUME [Next]_vars,
                    ~ \E t \in Turns, tok \in Tokens, at \in Stamps : ClaimTurn(t, tok, at)
             PROVE  UNCHANGED lease \/ \E t \in Turns : lease' = [lease EXCEPT ![t] = NoToken]
    OBVIOUS
<1>1. ASSUME NEW t \in Turns, WaitStep(t) PROVE UNCHANGED lease \/ lease' = [lease EXCEPT ![t] = NoToken]
    BY <1>1 DEF WaitStep, ClientResolved, ClientStopped, AgentRunsSettled, Settle, ClearLease
<1>2. ASSUME NEW t \in Turns, NEW tok \in Tokens, WorkerStep(t, tok)
      PROVE  UNCHANGED lease \/ lease' = [lease EXCEPT ![t] = NoToken]
    BY <1>2 DEF WorkerStep, Heartbeat, ExpireLease, Generate, AppendTurnEvents, ParkForClient,
        ParkForAgentRuns, Park, RetryLater, CompleteTurn, FailTurn, FinishCancellation,
        CheckpointSpawn, Settle, ClearLease, rowVars
<1>3. ASSUME NEW t \in Turns, NEW at \in Stamps, UserStep(t, at)
      PROVE  UNCHANGED lease \/ lease' = [lease EXCEPT ![t] = NoToken]
    BY <1>3 DEF UserStep, AcceptTurn, CancelRunning, CancelIdle, CancelUnclaimedClientWait,
        CancelClaimedClientWait, CancelAgentRunWait, Settle, ClearLease
<1>4. ASSUME NEW t \in Turns, NEW tok \in Tokens, NEW at \in Stamps, ClaimScan(t, tok, at)
      PROVE  lease' = [lease EXCEPT ![t] = NoToken]
    BY <1>4 DEF ClaimScan, ScanCancelled, ScanExhausted, Settle, ClearLease
<1>5. ASSUME NEW s \in Steers, NEW t \in Turns, NEW at \in Stamps, SteerStep(s, t, at)
      PROVE  UNCHANGED lease
    BY <1>5 DEF SteerStep, AcceptSteer, AcceptInterrupt, ApplySteer
<1>6. CASE Tick \/ UNCHANGED vars
    BY <1>6 DEF Tick, vars, rowVars
<1> QED BY <1>1, <1>2, <1>3, <1>4, <1>5, <1>6 DEF Next

\* Only the claim scan hands a lease from one token to another, and it does so
\* only when the lease has expired by the database's clock.
THEOREM LeasesAreNeverStolen == Spec => LeaseNeverStolen
<1>1. TypeOK /\ LeaseInv /\ [Next]_vars =>
        [\A t \in Turns : lease[t] \in Tokens /\ lease'[t] \in Tokens \ {lease[t]} =>
            /\ expires[t] <= now
            /\ claimCount'[t] > claimCount[t]]_vars
    <2> SUFFICES ASSUME TypeOK, LeaseInv, [Next]_vars, NEW u \in Turns,
                        lease[u] \in Tokens, lease'[u] \in Tokens \ {lease[u]}
                 PROVE  expires[u] <= now /\ claimCount'[u] > claimCount[u]
        OBVIOUS
    <2>1. PICK t \in Turns, tok \in Tokens, at \in Stamps : ClaimTurn(t, tok, at)
        BY LeaseWriters, LeaseConstants DEF TypeOK
    <2>2. u = t
        BY <2>1 DEF ClaimTurn, TypeOK
    <2>3. status[t] = "running"
        BY <2>1, <2>2 DEF ClaimTurn, LeaseInv, LeaseAgreement
    <2>4. expires[t] <= at
        BY <2>1, <2>3 DEF ClaimTurn, Candidate, Due, Expired
    <2>5. at \in Nat /\ at <= now
        BY StampsAreTimes
    <2>6. now \in Nat /\ expires[t] \in Nat /\ claimCount[t] \in Nat
        BY LeaseConstants DEF TypeOK
    <2>7. claimCount'[t] = claimCount[t] + 1
        BY <2>1 DEF ClaimTurn, NextClaim, TypeOK
    <2> QED BY <2>2, <2>4, <2>5, <2>6, <2>7
<1> QED BY <1>1, LeaseInvariant, PTL DEF Spec, LeaseNeverStolen

=============================================================================
