-------------------------- MODULE TurnJournalProofs --------------------------
(***************************************************************************)
(* Proofs about what TurnLease tells the readers of a conversation: the    *)
(* order of the journal, the one terminal event of a turn, the fate of the *)
(* user's steers, and that the table implements TurnOutcome.  They rest on *)
(* the lease invariant of TurnLeaseProofs.                                 *)
(***************************************************************************)
EXTENDS TurnLeaseProofs

-----------------------------------------------------------------------------
(* What a step does to one turn and its journal.                           *)

\* Nothing a reader of `t' could see changes.
Still(t) == /\ status'[t] = status[t]
            /\ journal'[t] = journal[t]
            /\ claimCount'[t] = claimCount[t]

\* A row of a worker that holds the present claim, or of nobody.
Current(t, e) == e \in Events /\ e.claim \in {0, claimCount[t]}

\* `t' is accepted into a conversation that works on nothing.
Admitted(t) ==
    /\ status[t] = "absent" /\ status'[t] = "queued"
    /\ \A u \in Turns : ChatOf[u] = ChatOf[t] => ~Active(u)
    /\ journal'[t] = journal[t] /\ claimCount'[t] = claimCount[t]

\* `t' goes on, and says nothing.
Moved(t) ==
    /\ Active(t) /\ Active(t)'
    /\ journal'[t] = journal[t]
    /\ claimCount'[t] \in {claimCount[t], claimCount[t] + 1}

\* `t' goes on, and a row is journaled.
Reported(t) ==
    /\ Active(t) /\ Active(t)'
    /\ claimCount'[t] = claimCount[t]
    /\ \E e : /\ Current(t, e) /\ e.kind \notin TerminalStatuses
              /\ journal'[t] = Append(journal[t], e)

\* `t' ends, perhaps after one last row.
Ended(t) ==
    /\ Active(t) /\ status'[t] \in TerminalStatuses
    /\ claimCount'[t] = claimCount[t]
    /\ \E e : /\ Current(t, e) /\ e.kind = status'[t]
              /\ \/ journal'[t] = Append(journal[t], e)
                 \/ \E d : /\ Current(t, d) /\ d.kind \notin TerminalStatuses
                           /\ journal'[t] = Append(Append(journal[t], d), e)

TurnStep(t) == Admitted(t) \/ Moved(t) \/ Reported(t) \/ Ended(t)

\* A step in the life of `t' leaves the other turns alone.
Only(t) == TurnStep(t) /\ \A u \in Turns \ {t} : Still(u)

\* The rows a worker writes under its claim are current, and so are those that
\* name no worker.
LEMMA RowIsCurrent ==
    ASSUME TypeOK, NEW t \in Turns, NEW kind \in Kinds, NEW tok \in Tokens \cup {NoToken},
           tok \in Tokens => receipt[tok].claim = claimCount[t]
    PROVE  Current(t, Row(t, kind, tok)) /\ Row(t, kind, tok).kind = kind
<1>1. Row(t, kind, tok) \in Events
    BY RowIsEvent
<1> QED BY <1>1, LeaseConstants DEF Current, Row

\* The claim of the token that holds a lease, or parked its turn, is the last.
LEMMA OwnerIsCurrent ==
    ASSUME LeaseInv, NEW t \in Turns
    PROVE  /\ lease[t] \in Tokens => receipt[lease[t]].claim = claimCount[t]
           /\ WaitMatches(t) => openWait[t] \in Tokens /\ receipt[openWait[t]].claim = claimCount[t]
<1> DEFINE own == [turn |-> t, attempt |-> attempt[t], claim |-> claimCount[t]]
<1>1. own.claim = claimCount[t]
    OBVIOUS
<1>2. lease[t] \in Tokens => receipt[lease[t]] = own
    BY DEF LeaseInv, LeaseAgreement
<1>3. WaitMatches(t) => openWait[t] \in Tokens /\ receipt[openWait[t]] = own
    BY DEF WaitMatches
<1> HIDE DEF own
<1> QED BY <1>1, <1>2, <1>3

\* Settling is the end of an active turn.
LEMMA SettleEnds ==
    ASSUME TypeOK, LeaseInv, NEW t \in Turns, NEW outcome \in TerminalStatuses,
           NEW tok \in Tokens \cup {NoToken}, NEW at,
           Active(t), tok \in Tokens => receipt[tok].claim = claimCount[t],
           Settle(t, outcome, tok, at)
    PROVE  Only(t)
<1>1. outcome \in Kinds
    BY DEF Kinds
<1>2. Current(t, Row(t, outcome, tok)) /\ Row(t, outcome, tok).kind = outcome
    BY <1>1, RowIsCurrent
<1>3. /\ status'[t] = outcome /\ claimCount'[t] = claimCount[t]
      /\ journal'[t] = Append(journal[t], Row(t, outcome, tok))
      /\ \A u \in Turns \ {t} : Still(u)
    BY DEF Settle, Record, TypeOK, Still
<1> QED BY <1>2, <1>3 DEF Ended, TurnStep, Only

\* Recording a row while the turn goes on.
LEMMA RecordReports ==
    ASSUME TypeOK, NEW t \in Turns, NEW kind \in Kinds \ TerminalStatuses, NEW tok \in Tokens,
           Active(t), receipt[tok].claim = claimCount[t], Record(t, kind, tok),
           UNCHANGED claimCount,
           NEW next \in Statuses, next \notin TerminalStatuses \cup {"absent"},
           status' = [status EXCEPT ![t] = next]
    PROVE  Only(t)
<1>1. Current(t, Row(t, kind, tok)) /\ Row(t, kind, tok).kind = kind
    BY RowIsCurrent
<1>2. /\ status'[t] = next /\ claimCount'[t] = claimCount[t]
      /\ journal'[t] = Append(journal[t], Row(t, kind, tok))
      /\ \A u \in Turns \ {t} : Still(u)
    BY DEF Record, TypeOK, Still
<1> QED BY <1>1, <1>2 DEF Reported, TurnStep, Only, Active

\* Changing the status of an active turn, or starting a claim, without a word.
LEMMA QuietMove ==
    ASSUME TypeOK, NEW t \in Turns, Active(t), UNCHANGED journal,
           UNCHANGED claimCount \/ claimCount' = [claimCount EXCEPT ![t] = claimCount[t] + 1],
           NEW next \in Statuses, next \notin TerminalStatuses \cup {"absent"},
           status' = [status EXCEPT ![t] = next]
    PROVE  Only(t)
<1>1. /\ status'[t] = next /\ claimCount'[t] \in {claimCount[t], claimCount[t] + 1}
      /\ journal'[t] = journal[t]
      /\ \A u \in Turns \ {t} : Still(u)
    BY DEF TypeOK, Still
<1> QED BY <1>1 DEF Moved, TurnStep, Only, Active

\* Every step is a step in the life of one turn, or none.
LEMMA StepShape ==
    ASSUME TypeOK, LeaseInv, [Next]_vars
    PROVE  (\A u \in Turns : Still(u)) \/ \E t \in Turns : Only(t)
<1> USE LeaseConstants
<1>q. ASSUME UNCHANGED <<status, journal, claimCount>> PROVE \A u \in Turns : Still(u)
    BY <1>q DEF Still
<1>s. /\ {"running", "cancelling", "queued", "resuming", "retry_wait", "waiting_for_client",
          "waiting_for_agent_run", "cancelling_client"} \subseteq Statuses
      /\ \A next \in {"running", "cancelling", "queued", "resuming", "retry_wait",
                      "waiting_for_client", "waiting_for_agent_run", "cancelling_client"} :
            next \notin TerminalStatuses \cup {"absent"}
      /\ {"completed", "failed", "cancelled"} = TerminalStatuses
      /\ {"progress", "approval", "tool", "steered", "retrying"} \subseteq Kinds \ TerminalStatuses
    BY DEF Statuses, ParkedStatuses, TerminalStatuses, Kinds
<1>a. ASSUME NEW t \in Turns, status[t] \in {"running", "cancelling", "queued", "resuming",
                "retry_wait", "waiting_for_client", "waiting_for_agent_run", "cancelling_client"}
      PROVE  Active(t)
    BY <1>a, <1>s DEF Active
<1>h. ASSUME NEW t \in Turns, NEW tok \in Tokens, NEW at, Leased(t, tok, at)
      PROVE  status[t] = "running" /\ Active(t) /\ receipt[tok].claim = claimCount[t]
    BY <1>h, <1>a, OwnerIsCurrent DEF Leased
<1>1. ASSUME NEW t \in Turns, NEW at \in Stamps, AcceptTurn(t, at) PROVE Only(t)
    BY <1>1 DEF AcceptTurn, Only, TurnStep, Admitted, Still, TypeOK
<1>2. ASSUME NEW t \in Turns, NEW tok \in Tokens, NEW at \in Stamps, ClaimTurn(t, tok, at)
      PROVE  Only(t)
    <2>1. Active(t)
        BY <1>2, <1>a DEF ClaimTurn, Candidate, Due, Expired
    <2> QED BY <2>1, <1>2, <1>s, QuietMove DEF ClaimTurn, NextClaim
<1>3. ASSUME NEW t \in Turns, NEW tok \in Tokens, NEW at \in Stamps,
             ScanCancelled(t, tok, at) \/ ScanExhausted(t, tok, at)
      PROVE  Only(t)
    <2>1. status[t] \in {"running", "cancelling"} /\ Active(t)
        BY <1>3, <1>a DEF ScanCancelled, ScanExhausted
    <2>2. lease[t] \in Tokens \cup {NoToken}
          /\ (lease[t] \in Tokens => receipt[lease[t]].claim = claimCount[t])
        BY OwnerIsCurrent DEF TypeOK
    <2>3. Settle(t, "cancelled", lease[t], at) \/ Settle(t, "failed", lease[t], now)
        BY <1>3 DEF ScanCancelled, ScanExhausted
    <2> QED BY <2>1, <2>2, <2>3, <1>s, SettleEnds
<1>4. ASSUME NEW t \in Turns, NEW tok \in Tokens, NEW at \in Stamps,
             Heartbeat(t, tok, at) \/ ExpireLease(t, tok, at) \/ Generate(t, tok, at)
      PROVE  \A u \in Turns : Still(u)
    BY <1>4, <1>q DEF Heartbeat, ExpireLease, Generate, rowVars
<1>5. ASSUME NEW t \in Turns, NEW tok \in Tokens, NEW at \in Stamps, NEW kind \in Batches,
             AppendTurnEvents(t, tok, kind, at)
      PROVE  Only(t)
    <2>1. status[t] = "running" /\ Active(t) /\ receipt[tok].claim = claimCount[t]
        BY <1>5, <1>h DEF AppendTurnEvents, Held
    <2>2. status' = [status EXCEPT ![t] = "running"]
        BY <2>1, <1>5 DEF AppendTurnEvents, rowVars, TypeOK
    <2>3. kind \in Kinds \ TerminalStatuses
        BY <1>s
    <2> QED BY <2>1, <2>2, <2>3, <1>5, <1>s, RecordReports DEF AppendTurnEvents, rowVars
<1>6. ASSUME NEW t \in Turns, NEW tok \in Tokens, CompleteTurn(t, tok) \/ FailTurn(t, tok)
      PROVE  Only(t)
    <2>1. Active(t) /\ receipt[tok].claim = claimCount[t]
        BY <1>6, <1>h DEF CompleteTurn, FailTurn, Held
    <2>2. Settle(t, "completed", tok, now) \/ Settle(t, "failed", tok, now)
        BY <1>6 DEF CompleteTurn, FailTurn
    <2> QED BY <2>1, <2>2, <1>s, SettleEnds
<1>7. ASSUME NEW t \in Turns, NEW tok \in Tokens, FinishCancellation(t, tok) PROVE Only(t)
    <2>1. Active(t) /\ receipt[tok].claim = claimCount[t]
        BY <1>7, <1>a, OwnerIsCurrent DEF FinishCancellation
    <2> QED BY <2>1, <1>7, <1>s, SettleEnds DEF FinishCancellation
<1>8. ASSUME NEW t \in Turns, NEW tok \in Tokens, NEW retryAt, RetryLater(t, tok, retryAt)
      PROVE  Only(t)
    <2>1. Active(t) /\ receipt[tok].claim = claimCount[t]
        BY <1>8, <1>h DEF RetryLater, Held
    <2> QED BY <2>1, <1>8, <1>s, RecordReports DEF RetryLater
<1>9. ASSUME NEW t \in Turns, NEW tok \in Tokens, NEW at,
             ParkForClient(t, tok, at) \/ ParkForAgentRuns(t, tok)
      PROVE  Only(t)
    <2>1. Active(t)
        BY <1>9, <1>h DEF ParkForClient, ParkForAgentRuns
    <2> QED BY <2>1, <1>9, <1>s, QuietMove DEF ParkForClient, ParkForAgentRuns, Park
<1>10. ASSUME NEW t \in Turns, NEW tok \in Tokens, CheckpointSpawn(t, tok) PROVE Only(t)
    <2>1. Active(t) /\ receipt[tok].claim = claimCount[t]
        BY <1>10, <1>h DEF CheckpointSpawn, Held
    <2> QED BY <2>1, <1>10, <1>s, RecordReports DEF CheckpointSpawn, Resume
<1>11. ASSUME NEW t \in Turns, NEW at, ClientResolved(t, at) \/ CancelClaimedClientWait(t, at)
                                         \/ CancelRunning(t, at)
       PROVE  Only(t)
    <2>1. Active(t)
        BY <1>11, <1>a DEF ClientResolved, CancelClaimedClientWait, CancelRunning
    <2> QED BY <2>1, <1>11, <1>s, QuietMove DEF ClientResolved, CancelClaimedClientWait,
            CancelRunning, Resume
<1>12. ASSUME NEW t \in Turns, NEW at,
              ClientStopped(t, at) \/ CancelIdle(t, at) \/ CancelUnclaimedClientWait(t, at)
       PROVE  Only(t)
    <2>1. Active(t)
        BY <1>12, <1>a DEF ClientStopped, CancelIdle, CancelUnclaimedClientWait
    <2>2. Settle(t, "cancelled", NoToken, at) \/ Settle(t, "cancelled", NoToken, now)
        BY <1>12 DEF ClientStopped, CancelIdle, CancelUnclaimedClientWait
    <2> QED BY <2>1, <2>2, <1>s, SettleEnds
<1>13. ASSUME NEW t \in Turns, NEW s, NEW at, AgentRunsSettled(t) \/ AcceptInterrupt(s, t, at)
       PROVE  Only(t)
    <2>1. Active(t) /\ openWait[t] \in Tokens /\ receipt[openWait[t]].claim = claimCount[t]
        BY <1>13, <1>a, OwnerIsCurrent DEF AgentRunsSettled, AcceptInterrupt
    <2> QED BY <2>1, <1>13, <1>s, RecordReports DEF AgentRunsSettled, AcceptInterrupt, Resume
<1>14. ASSUME NEW t \in Turns, NEW at, CancelAgentRunWait(t, at) PROVE Only(t)
    <2>1. Active(t) /\ openWait[t] \in Tokens /\ receipt[openWait[t]].claim = claimCount[t]
        BY <1>14, <1>a, OwnerIsCurrent DEF CancelAgentRunWait
    <2>2. /\ Current(t, Row(t, "tool", openWait[t])) /\ Row(t, "tool", openWait[t]).kind = "tool"
          /\ Current(t, Row(t, "cancelled", NoToken))
          /\ Row(t, "cancelled", NoToken).kind = "cancelled"
        BY <2>1, <1>s, RowIsCurrent DEF Kinds
    <2>3. /\ status'[t] = "cancelled" /\ claimCount'[t] = claimCount[t]
          /\ journal'[t] = Append(Append(journal[t], Row(t, "tool", openWait[t])),
                                  Row(t, "cancelled", NoToken))
          /\ \A u \in Turns \ {t} : Still(u)
        BY <1>14 DEF CancelAgentRunWait, TypeOK, Still
    <2> QED BY <2>1, <2>2, <2>3, <1>s DEF Ended, TurnStep, Only
<1>15. ASSUME NEW s \in Steers, NEW t \in Turns, NEW at, AcceptSteer(s, t, at)
       PROVE  \A u \in Turns : Still(u)
    BY <1>15, <1>q DEF AcceptSteer
<1>16. ASSUME NEW s \in Steers, NEW t \in Turns, NEW tok \in Tokens, NEW at, ApplySteer(s, t, tok, at)
       PROVE  Only(t)
    <2>1. status[t] = "running" /\ Active(t) /\ receipt[tok].claim = claimCount[t]
        BY <1>16, <1>h DEF ApplySteer, Held
    <2>2. status' = [status EXCEPT ![t] = "running"]
        BY <2>1, <1>16 DEF ApplySteer, TypeOK
    <2> QED BY <2>1, <2>2, <1>16, <1>s, RecordReports DEF ApplySteer
<1>17. CASE Tick \/ UNCHANGED vars
    BY <1>17, <1>q DEF Tick, vars, rowVars
<1> QED BY <1>1, <1>2, <1>3, <1>4, <1>5, <1>6, <1>7, <1>8, <1>9, <1>10, <1>11, <1>12, <1>13,
           <1>14, <1>15, <1>16, <1>17
        DEF Next, WaitStep, WorkerStep, UserStep, ClaimScan, SteerStep

-----------------------------------------------------------------------------
(* The journal.                                                            *)

\* Every row of a journal names a claim.
LEMMA RowsAreEvents ==
    ASSUME NEW rows \in Seq(Events)
    PROVE  \A i \in 1..Len(rows) : rows[i].claim \in Nat
<1>1. \A i \in 1..Len(rows) : rows[i] \in Events
    OBVIOUS
<1>2. \A e \in Events : e.claim \in Nat
    BY DEF Events
<1> QED BY <1>1, <1>2

\* A turn that goes on may have its number of claims raised.
LEMMA FitsMove ==
    ASSUME NEW rows \in Seq(Events), NEW n \in Nat, NEW m \in Nat, n <= m,
           NEW before, before \notin TerminalStatuses,
           NEW after, after \notin TerminalStatuses,
           Fits(rows, n, before)
    PROVE  Fits(rows, m, after)
<1>1. \A i \in 1..Len(rows) : rows[i].claim \in Nat
    BY RowsAreEvents
<1>2. \A i \in 1..Len(rows) : rows[i].kind \notin TerminalStatuses
    BY DEF Fits
<1> QED BY <1>1, <1>2 DEF Fits

\* A current row fits behind the journal of a turn that has not ended, if it
\* announces an end exactly when the turn has one.
LEMMA FitsAppend ==
    ASSUME NEW rows \in Seq(Events), NEW n \in Nat, NEW before, before \notin TerminalStatuses,
           NEW after, NEW e \in Events, e.claim \in {0, n},
           e.kind \in TerminalStatuses \/ after \in TerminalStatuses => e.kind = after,
           Fits(rows, n, before)
    PROVE  Fits(Append(rows, e), n, after)
<1> DEFINE all == Append(rows, e)
<1>1. /\ Len(all) = Len(rows) + 1 /\ Len(rows) \in Nat /\ all # << >>
      /\ \A i \in 1..Len(rows) : all[i] = rows[i]
      /\ all[Len(rows) + 1] = e
    OBVIOUS
<1>2. \A i \in 1..Len(rows) : rows[i].kind \notin TerminalStatuses /\ rows[i].claim \in Nat
                                /\ rows[i].claim <= n
    BY RowsAreEvents DEF Fits
<1>3. e.claim \in Nat
    BY DEF Events
<1> HIDE DEF all
<1>4. \A i \in 1..Len(all) : i \in 1..Len(rows) \/ i = Len(rows) + 1
    BY <1>1
<1>5. \A i \in 1..Len(all) : all[i].claim \in Nat /\ all[i].claim <= n
    BY <1>1, <1>2, <1>3, <1>4
<1>6. \A i, j \in 1..Len(all) : i < j /\ all[j].claim # 0 => all[i].claim <= all[j].claim
    <2> SUFFICES ASSUME NEW i \in 1..Len(all), NEW j \in 1..Len(all), i < j, all[j].claim # 0
                 PROVE  all[i].claim <= all[j].claim
        OBVIOUS
    <2>1. i \in 1..Len(rows)
        BY <1>1
    <2>2. CASE j \in 1..Len(rows)
        BY <2>1, <2>2, <1>1 DEF Fits
    <2>3. CASE j = Len(rows) + 1
        BY <2>1, <2>3, <1>1, <1>5
    <2> QED BY <2>2, <2>3, <1>4
<1>7. \A i \in 1..Len(all) : all[i].kind \in TerminalStatuses => i = Len(all) /\ all[i].kind = after
    BY <1>1, <1>2, <1>4
<1>8. after \in TerminalStatuses => all[Len(all)].kind = after
    BY <1>1
<1> QED BY <1>1, <1>5, <1>6, <1>7, <1>8 DEF Fits, all

LEMMA JournalNext == TypeOK /\ LeaseInv /\ JournalInv /\ [Next]_vars => JournalInv'
<1> SUFFICES ASSUME TypeOK, LeaseInv, JournalInv, [Next]_vars PROVE JournalInv'
    OBVIOUS
<1> DEFINE Ok(u) == Fits(journal'[u], claimCount'[u], status'[u])
<1>0. \A u \in Turns : Fits(journal[u], claimCount[u], status[u]) /\ journal[u] \in Seq(Events)
                         /\ claimCount[u] \in Nat
    BY DEF JournalInv, TypeOK
<1>1. ASSUME NEW u \in Turns, Still(u) PROVE Ok(u)
    BY <1>0, <1>1 DEF Still
<1>2. ASSUME NEW t \in Turns, Admitted(t) \/ Moved(t) PROVE Ok(t)
    <2>1. status[t] \notin TerminalStatuses /\ status'[t] \notin TerminalStatuses
        BY <1>2 DEF Admitted, Moved, Active, TerminalStatuses
    <2>2. journal'[t] = journal[t] /\ claimCount'[t] \in {claimCount[t], claimCount[t] + 1}
        BY <1>2 DEF Admitted, Moved
    <2>3. claimCount'[t] \in Nat /\ claimCount[t] <= claimCount'[t]
        BY <2>2, <1>0
    <2> QED BY <2>1, <2>2, <2>3, <1>0, FitsMove
<1>3. ASSUME NEW t \in Turns, Reported(t) PROVE Ok(t)
    <2>1. PICK e : /\ Current(t, e) /\ e.kind \notin TerminalStatuses
                   /\ journal'[t] = Append(journal[t], e)
        BY <1>3 DEF Reported
    <2>2. /\ status[t] \notin TerminalStatuses /\ status'[t] \notin TerminalStatuses
          /\ claimCount'[t] = claimCount[t]
        BY <1>3 DEF Reported, Active
    <2> QED BY <2>1, <2>2, <1>0, FitsAppend DEF Current
<1>4. ASSUME NEW t \in Turns, Ended(t) PROVE Ok(t)
    <2>1. PICK e : /\ Current(t, e) /\ e.kind = status'[t]
                   /\ \/ journal'[t] = Append(journal[t], e)
                      \/ \E d : /\ Current(t, d) /\ d.kind \notin TerminalStatuses
                                /\ journal'[t] = Append(Append(journal[t], d), e)
        BY <1>4 DEF Ended
    <2>2. status[t] \notin TerminalStatuses /\ claimCount'[t] = claimCount[t]
        BY <1>4 DEF Ended, Active
    <2>3. CASE journal'[t] = Append(journal[t], e)
        BY <2>1, <2>2, <2>3, <1>0, FitsAppend DEF Current
    <2>4. ASSUME NEW d, Current(t, d), d.kind \notin TerminalStatuses,
                 journal'[t] = Append(Append(journal[t], d), e)
          PROVE  Ok(t)
        <3> DEFINE rows == Append(journal[t], d)
        <3>1. rows \in Seq(Events)
            BY <2>4, <1>0 DEF Current
        <3>2. Fits(rows, claimCount[t], status[t])
            BY <2>2, <2>4, <1>0, FitsAppend DEF Current
        <3> HIDE DEF rows
        <3>3. Fits(Append(rows, e), claimCount[t], status'[t])
            BY <3>1, <3>2, <2>1, <2>2, <1>0, FitsAppend DEF Current
        <3> QED BY <3>3, <2>2, <2>4 DEF rows
    <2> QED BY <2>1, <2>3, <2>4
<1>5. ASSUME NEW t \in Turns, Only(t) PROVE \A u \in Turns : Ok(u)
    BY <1>1, <1>2, <1>3, <1>4, <1>5 DEF Only, TurnStep
<1>6. \A u \in Turns : Ok(u)
    BY <1>1, <1>5, StepShape
<1> QED BY <1>6 DEF JournalInv

LEMMA JournalInvariant == Spec => [](TypeOK /\ LeaseInv /\ JournalInv)
<1>1. Init => JournalInv
    BY DEF Init, JournalInv, Fits, TerminalStatuses
<1> QED BY <1>1, LeaseInvariant, JournalNext, PTL DEF Spec

\* The journal agrees with the row: a turn is settled exactly when its journal
\* has a terminal event, which says how, is the only one and has no successor,
\* whichever of a worker, the scan, the user or a client settled it.
THEOREM TerminalEventsAreLast == Spec => []TerminalEventIsLast
<1>1. JournalInv => TerminalEventIsLast
    BY DEF JournalInv, Fits, TerminalEventIsLast
<1> QED BY <1>1, JournalInvariant, PTL

\* A worker whose lease was taken never journals behind its successor's back
\* (append_turn_events and every settlement).
THEOREM JournalKeepsClaimOrder == Spec => []ClaimsNeverInterleave
<1>1. JournalInv => ClaimsNeverInterleave
    BY DEF JournalInv, Fits, ClaimsNeverInterleave
<1> QED BY <1>1, JournalInvariant, PTL

-----------------------------------------------------------------------------
(* The promise.                                                            *)

outcomeBar == [t \in Turns |-> OutcomeOf(t)]
publishedBar == [t \in Turns |-> PublishedOf(t)]

\* What the row says of the outcome.
LEMMA OutcomeOfRow ==
    ASSUME NEW t \in Turns
    PROVE  /\ status[t] = "absent" => OutcomeOf(t) = "none"
           /\ Active(t) => OutcomeOf(t) = "open"
           /\ status[t] \in TerminalStatuses => OutcomeOf(t) = status[t]
           /\ OutcomeOf(t) = "none" => status[t] = "absent"
           /\ OutcomeOf(t) = "open" => Active(t)
BY DEF OutcomeOf, Active, TerminalStatuses

\* The terminal kinds in the journal of a settled turn are its outcome, and any
\* other journal has none.
Told(rows) == {rows[i].kind : i \in 1..Len(rows)} \cap TerminalStatuses
LEMMA FittingTells ==
    ASSUME NEW rows \in Seq(Events), NEW claims, NEW outcome, Fits(rows, claims, outcome)
    PROVE  /\ outcome \in TerminalStatuses => Told(rows) = {outcome}
           /\ outcome \notin TerminalStatuses => Told(rows) = {}
<1> DEFINE kinds == {rows[i].kind : i \in 1..Len(rows)}
<1>1. \A k \in kinds : k \in TerminalStatuses => k = outcome
    BY DEF Fits
<1>2. outcome \in TerminalStatuses => Len(rows) \in 1..Len(rows) /\ rows[Len(rows)].kind = outcome
    BY DEF Fits
<1>3. outcome \in TerminalStatuses => outcome \in kinds
    BY <1>2
<1>4. Told(rows) = kinds \cap TerminalStatuses
    BY DEF Told
<1> HIDE DEF kinds
<1> QED BY <1>1, <1>3, <1>4

\* Every step of the table is a step of the promise, or none.
LEMMA PromiseStep ==
    ASSUME TypeOK, TypeOK', LeaseInv, JournalInv, JournalInv', [Next]_vars
    PROVE  Promise!Next \/ UNCHANGED <<outcomeBar, publishedBar>>
<1>o. /\ outcomeBar' = [t \in Turns |-> OutcomeOf(t)']
      /\ publishedBar' = [t \in Turns |-> PublishedOf(t)']
    BY DEF outcomeBar, publishedBar
<1>1. ASSUME NEW u \in Turns, Still(u)
      PROVE  OutcomeOf(u)' = OutcomeOf(u) /\ PublishedOf(u)' = PublishedOf(u)
    BY <1>1 DEF Still, OutcomeOf, PublishedOf
<1>b. /\ \A u \in Turns : (status[u])' = status'[u]
      /\ \A u \in Turns : Active(u)' => OutcomeOf(u)' = "open"
      /\ \A u \in Turns : status'[u] \in TerminalStatuses => OutcomeOf(u)' = status'[u]
    BY DEF OutcomeOf, Active, TerminalStatuses
<1>p. /\ \A u \in Turns : status'[u] \in TerminalStatuses => PublishedOf(u)' = {status'[u]}
      /\ \A u \in Turns : status'[u] \notin TerminalStatuses => PublishedOf(u)' = {}
    <2>1. \A u \in Turns : /\ Fits(journal'[u], claimCount'[u], status'[u])
                            /\ journal'[u] \in Seq(Events)
                            /\ PublishedOf(u)' = Told(journal'[u])
        BY DEF JournalInv, TypeOK, PublishedOf, Told
    <2> QED BY <2>1, FittingTells
<1>m. /\ \A u \in Turns : status[u] \in TerminalStatuses => PublishedOf(u) = {status[u]}
      /\ \A u \in Turns : status[u] \notin TerminalStatuses => PublishedOf(u) = {}
    <2>1. \A u \in Turns : /\ Fits(journal[u], claimCount[u], status[u])
                            /\ journal[u] \in Seq(Events)
                            /\ PublishedOf(u) = Told(journal[u])
        BY DEF JournalInv, TypeOK, PublishedOf, Told
    <2> QED BY <2>1, FittingTells
<1>2. CASE \A u \in Turns : Still(u)
    BY <1>1, <1>2, <1>o DEF outcomeBar, publishedBar
<1>3. ASSUME NEW t \in Turns, Only(t)
      PROVE  Promise!Next \/ UNCHANGED <<outcomeBar, publishedBar>>
    <2>1. \A u \in Turns \ {t} : OutcomeOf(u)' = OutcomeOf(u) /\ PublishedOf(u)' = PublishedOf(u)
        BY <1>1, <1>3 DEF Only
    <2>2. /\ outcomeBar' = [outcomeBar EXCEPT ![t] = OutcomeOf(t)']
          /\ publishedBar' = [publishedBar EXCEPT ![t] = PublishedOf(t)']
        BY <2>1, <1>o DEF outcomeBar, publishedBar
    <2>3. CASE Moved(t) \/ Reported(t)
        <3>1. Active(t) /\ Active(t)'
            BY <2>3 DEF Moved, Reported
        <3>2. OutcomeOf(t)' = OutcomeOf(t)
            BY <3>1, <1>b, OutcomeOfRow
        <3>3. PublishedOf(t)' = PublishedOf(t)
            BY <3>1, <1>p, <1>m DEF Active
        <3> QED BY <3>2, <3>3, <2>2 DEF outcomeBar, publishedBar
    <2>4. CASE Admitted(t)
        <3>1. outcomeBar[t] = "none"
            BY <2>4, OutcomeOfRow DEF Admitted, outcomeBar
        <3>2. \A u \in Turns : ChatOf[u] = ChatOf[t] => outcomeBar[u] # "open"
            BY <2>4, OutcomeOfRow DEF Admitted, outcomeBar
        <3>3. OutcomeOf(t)' = "open"
            BY <2>4, <1>b DEF Admitted, Active, TerminalStatuses
        <3>4. PublishedOf(t)' = PublishedOf(t)
            BY <2>4, <1>p, <1>m DEF Admitted, TerminalStatuses
        <3>5. publishedBar' = publishedBar
            BY <3>4, <2>2 DEF publishedBar
        <3>6. Promise!Open(t)
            BY <3>1, <3>2, <3>3, <3>5, <2>2 DEF Promise!Open, outcomeBar, publishedBar
        <3> QED BY <3>6 DEF Promise!Next
    <2>5. CASE Ended(t)
        <3>1. Active(t) /\ status'[t] \in TerminalStatuses
            BY <2>5 DEF Ended
        <3>2. outcomeBar[t] = "open"
            BY <3>1, OutcomeOfRow DEF outcomeBar
        <3>3. OutcomeOf(t)' = status'[t] /\ PublishedOf(t)' = {status'[t]}
            BY <3>1, <1>b, <1>p
        <3>4. Promise!Decide(t, status'[t])
            BY <3>2, <3>3, <2>2 DEF Promise!Decide, outcomeBar, publishedBar
        <3> QED BY <3>4, <3>1 DEF Promise!Next, Promise!Outcomes, TerminalStatuses
    <2> QED BY <1>3, <2>3, <2>4, <2>5 DEF Only, TurnStep
<1> QED BY <1>2, <1>3, StepShape

\* The rows and the journal together implement TurnOutcome: one open turn per
\* conversation, one outcome per turn, told to the readers in the transaction
\* that decides it, whatever workers, scans, users and clients do.
THEOREM TableKeepsPromise == Spec => KeepsPromise
<1>1. Init => Promise!Init
    <2> SUFFICES ASSUME Init PROVE Promise!Init
        OBVIOUS
    <2>1. \A t \in Turns : status[t] = "absent" /\ journal[t] = << >>
        BY DEF Init
    <2>2. \A t \in Turns : OutcomeOf(t) = "none" /\ PublishedOf(t) = {}
        BY <2>1, OutcomeOfRow DEF PublishedOf
    <2> QED BY <2>2 DEF Promise!Init
<1>2. TypeOK /\ TypeOK' /\ LeaseInv /\ JournalInv /\ JournalInv' /\ [Next]_vars =>
          [Promise!Next]_<<[t \in Turns |-> OutcomeOf(t)], [t \in Turns |-> PublishedOf(t)]>>
    BY PromiseStep DEF outcomeBar, publishedBar
<1> QED BY <1>1, <1>2, JournalInvariant, PTL DEF Spec, KeepsPromise, Promise!Spec

-----------------------------------------------------------------------------
(* The user's steers.                                                      *)

\* A turn in one of these statuses reads no more steers.
Deaf == TerminalStatuses \cup {"cancelling", "cancelling_client"}

\* No turn stops reading steers in this step, and none that had stopped moves.
Onward == \A u \in Turns : \/ status'[u] = status[u]
                           \/ status[u] \notin Deaf /\ status'[u] \notin Deaf \cup {"absent"}

\* `t' stops reading, and what it had not read is rejected.
Deafened(t) ==
    /\ RejectPendingSteers(t)
    /\ Active(t) /\ status'[t] \in Deaf \ {"completed"}
    /\ \A u \in Turns \ {t} : status'[u] = status[u]

Applied(s, t) == /\ Pending(s, t) /\ status[t] = "running"
                 /\ steer' = [steer EXCEPT ![s].status = "applied"]

\* What a step does to the steers.
LEMMA SteerShape ==
    ASSUME TypeOK, LeaseInv, [Next]_vars
    PROVE  \/ Onward /\ UNCHANGED steer
           \/ Onward /\ \E s \in Steers, t \in Turns : Applied(s, t)
           \/ Onward /\ \E s \in Steers, t \in Turns, at \in Nat :
                            NewSteer(s, t, at) /\ status[t] \notin Deaf \cup {"absent"}
           \/ \E t \in Turns : Deafened(t)
           \/ \E t \in Turns, tok \in Tokens : CompleteTurn(t, tok)
<1>n. ASSUME NEW at \in Stamps PROVE at \in Nat
    BY DEF Stamps, TypeOK
<1>q. ASSUME UNCHANGED <<status, steer>> PROVE Onward /\ UNCHANGED steer
    BY <1>q DEF Onward
<1>o. ASSUME NEW t \in Turns, NEW next, next \notin Deaf \cup {"absent"}, status[t] \notin Deaf,
             status' = [status EXCEPT ![t] = next]
      PROVE  Onward
    BY <1>o DEF Onward, TypeOK
<1>d. ASSUME NEW t \in Turns, NEW next \in Deaf \ {"completed"}, Active(t),
             status' = [status EXCEPT ![t] = next], RejectPendingSteers(t)
      PROVE  Deafened(t)
    BY <1>d DEF Deafened, TypeOK
<1>s. ASSUME NEW t \in Turns, NEW next \in {"failed", "cancelled"}, NEW tok, NEW at, Active(t),
             Settle(t, next, tok, at)
      PROVE  Deafened(t)
    <2>1. next \in Deaf \ {"completed"}
        BY DEF Deaf, TerminalStatuses
    <2> QED BY <2>1, <1>s, <1>d DEF Settle
<1>1. ASSUME NEW t \in Turns, NEW at \in Stamps, AcceptTurn(t, at) PROVE Onward /\ UNCHANGED steer
    BY <1>1, <1>o DEF AcceptTurn, Deaf, TerminalStatuses
<1>2. ASSUME NEW t \in Turns, NEW tok \in Tokens, NEW at \in Stamps, ClaimTurn(t, tok, at)
      PROVE  Onward /\ UNCHANGED steer
    <2>1. status[t] \notin Deaf
        BY <1>2 DEF ClaimTurn, Candidate, Due, Expired, Deaf, TerminalStatuses
    <2> QED BY <2>1, <1>2, <1>o DEF ClaimTurn, Deaf, TerminalStatuses
<1>3. ASSUME NEW t \in Turns, NEW tok \in Tokens, NEW at \in Stamps,
             ScanCancelled(t, tok, at) \/ ScanExhausted(t, tok, at)
      PROVE  Deafened(t)
    BY <1>3, <1>s DEF ScanCancelled, ScanExhausted, Active, TerminalStatuses
<1>4. ASSUME NEW t \in Turns, NEW tok \in Tokens, NEW at \in Stamps,
             Heartbeat(t, tok, at) \/ ExpireLease(t, tok, at) \/ Generate(t, tok, at)
                 \/ \E kind \in Batches : AppendTurnEvents(t, tok, kind, at)
      PROVE  Onward /\ UNCHANGED steer
    BY <1>4, <1>q DEF Heartbeat, ExpireLease, Generate, AppendTurnEvents, rowVars
<1>5. ASSUME NEW t \in Turns, NEW tok \in Tokens, FailTurn(t, tok) \/ FinishCancellation(t, tok)
      PROVE  Deafened(t)
    BY <1>5, <1>s DEF FailTurn, FinishCancellation, Held, Leased, Active, TerminalStatuses
<1>6. ASSUME NEW t \in Turns, NEW tok \in Tokens, NEW at, RetryLater(t, tok, at)
      PROVE  Onward /\ UNCHANGED steer
    BY <1>6, <1>o DEF RetryLater, Held, Leased, Deaf, TerminalStatuses
<1>7. ASSUME NEW t \in Turns, NEW tok \in Tokens, NEW at,
             ParkForClient(t, tok, at) \/ ParkForAgentRuns(t, tok) \/ CheckpointSpawn(t, tok)
      PROVE  Onward /\ UNCHANGED steer
    <2>1. status[t] = "running" /\ UNCHANGED steer
        BY <1>7 DEF ParkForClient, ParkForAgentRuns, CheckpointSpawn, Park, Held, Leased
    <2>2. \E next \in {"waiting_for_client", "waiting_for_agent_run", "resuming"} :
              status' = [status EXCEPT ![t] = next]
        BY <1>7 DEF ParkForClient, ParkForAgentRuns, CheckpointSpawn, Park, Resume
    <2> QED BY <2>1, <2>2, <1>o DEF Deaf, TerminalStatuses
<1>8. ASSUME NEW t \in Turns, NEW at, ClientResolved(t, at) \/ AgentRunsSettled(t)
      PROVE  Onward /\ UNCHANGED steer
    BY <1>8, <1>o DEF ClientResolved, AgentRunsSettled, Resume, Deaf, TerminalStatuses
<1>9. ASSUME NEW t \in Turns, NEW at,
             ClientStopped(t, at) \/ CancelIdle(t, at) \/ CancelUnclaimedClientWait(t, at)
      PROVE  Deafened(t)
    BY <1>9, <1>s DEF ClientStopped, CancelIdle, CancelUnclaimedClientWait, Active, TerminalStatuses
<1>10. ASSUME NEW t \in Turns, NEW at,
              CancelRunning(t, at) \/ CancelClaimedClientWait(t, at) \/ CancelAgentRunWait(t, at)
       PROVE  Deafened(t)
    <2>1. Active(t) /\ RejectPendingSteers(t)
        BY <1>10 DEF CancelRunning, CancelClaimedClientWait, CancelAgentRunWait, Active,
            TerminalStatuses
    <2>2. \E next \in {"cancelling", "cancelling_client", "cancelled"} :
              status' = [status EXCEPT ![t] = next]
        BY <1>10 DEF CancelRunning, CancelClaimedClientWait, CancelAgentRunWait
    <2> QED BY <2>1, <2>2, <1>d DEF Deaf, TerminalStatuses
<1>11. ASSUME NEW s \in Steers, NEW t \in Turns, NEW at \in Stamps,
              AcceptSteer(s, t, at) \/ AcceptInterrupt(s, t, at)
       PROVE  Onward /\ NewSteer(s, t, at) /\ status[t] \notin Deaf \cup {"absent"}
    <2>1. NewSteer(s, t, at) /\ status[t] \notin Deaf \cup {"absent"}
        BY <1>11 DEF AcceptSteer, AcceptInterrupt, NewSteer, AcceptsSteer, Deaf, TerminalStatuses
    <2>2. CASE AcceptSteer(s, t, at)
        BY <2>1, <2>2 DEF AcceptSteer, Onward
    <2>3. CASE AcceptInterrupt(s, t, at)
        BY <2>1, <2>3, <1>o DEF AcceptInterrupt, Resume, Deaf, TerminalStatuses
    <2> QED BY <1>11, <2>1, <2>2, <2>3
<1>12. ASSUME NEW s \in Steers, NEW t \in Turns, NEW tok \in Tokens, NEW at, ApplySteer(s, t, tok, at)
       PROVE  Onward /\ Applied(s, t)
    BY <1>12 DEF ApplySteer, EarliestPending, Held, Leased, Onward, Applied
<1>13. CASE Tick \/ UNCHANGED vars
    BY <1>13, <1>q DEF Tick, vars, rowVars
<1> QED BY <1>n, <1>1, <1>2, <1>3, <1>4, <1>5, <1>6, <1>7, <1>8, <1>9, <1>10, <1>11, <1>12, <1>13
        DEF Next, WaitStep, WorkerStep, UserStep, ClaimScan, SteerStep

\* What the evidence of a completion is made of changes only under a live claim.
LEMMA EvidenceKept ==
    ASSUME TypeOK, LeaseInv, [Next]_vars
    PROVE  /\ \A tok \in Tokens : receipt[tok].turn \in Turns => receipt'[tok] = receipt[tok]
           /\ \A tok \in Tokens : \/ seen'[tok] = seen[tok]
                                  \/ \E u \in Turns : status[u] = "running" /\ lease[u] = tok
           /\ \A u \in Turns : revision'[u] = revision[u] \/ status[u] = "running"
<1> USE LeaseConstants
<1> DEFINE Kept == /\ \A tok \in Tokens : receipt[tok].turn \in Turns => receipt'[tok] = receipt[tok]
                   /\ \A tok \in Tokens : \/ seen'[tok] = seen[tok]
                                          \/ \E u \in Turns : status[u] = "running" /\ lease[u] = tok
                   /\ \A u \in Turns : revision'[u] = revision[u] \/ status[u] = "running"
<1>q. ASSUME UNCHANGED <<receipt, seen, revision>> PROVE Kept
    BY <1>q
<1>1. ASSUME NEW t \in Turns, NEW tok \in Tokens, NEW at, ClaimTurn(t, tok, at) PROVE Kept
    BY <1>1 DEF ClaimTurn, Unspent, TypeOK
<1>2. ASSUME NEW t \in Turns, NEW tok \in Tokens, NEW at, Generate(t, tok, at) PROVE Kept
    BY <1>2 DEF Generate, rowVars, TypeOK
<1>3. ASSUME NEW s \in Steers, NEW t \in Turns, NEW tok \in Tokens, NEW at, ApplySteer(s, t, tok, at)
      PROVE  Kept
    BY <1>3 DEF ApplySteer, Held, Leased, TypeOK
<1>4. ASSUME NEW t \in Turns, NEW tok \in Tokens, NEW at,
             \/ ScanCancelled(t, tok, at) \/ ScanExhausted(t, tok, at)
             \/ Heartbeat(t, tok, at) \/ ExpireLease(t, tok, at)
             \/ \E kind \in Batches : AppendTurnEvents(t, tok, kind, at)
             \/ ParkForClient(t, tok, at) \/ RetryLater(t, tok, at)
      PROVE  Kept
    <2>1. UNCHANGED <<receipt, seen, revision>>
        BY <1>4 DEF ScanCancelled, ScanExhausted, Heartbeat, ExpireLease, AppendTurnEvents,
            ParkForClient, RetryLater, Park, Settle, rowVars
    <2> QED BY <2>1, <1>q
<1>5. ASSUME NEW t \in Turns, NEW tok \in Tokens,
             \/ CompleteTurn(t, tok) \/ FailTurn(t, tok) \/ FinishCancellation(t, tok)
             \/ ParkForAgentRuns(t, tok) \/ CheckpointSpawn(t, tok)
      PROVE  Kept
    <2>1. UNCHANGED <<receipt, seen, revision>>
        BY <1>5 DEF CompleteTurn, FailTurn, FinishCancellation, ParkForAgentRuns, CheckpointSpawn,
            Park, Settle
    <2> QED BY <2>1, <1>q
<1>7. ASSUME NEW t \in Turns, WaitStep(t) \/ \E at \in Stamps : UserStep(t, at) PROVE Kept
    <2>1. UNCHANGED <<receipt, seen, revision>>
        BY <1>7 DEF WaitStep, UserStep, ClientResolved, ClientStopped, AgentRunsSettled, AcceptTurn,
            CancelRunning, CancelIdle, CancelUnclaimedClientWait, CancelClaimedClientWait,
            CancelAgentRunWait, Settle
    <2> QED BY <2>1, <1>q
<1>8. ASSUME NEW s \in Steers, NEW t \in Turns, NEW at, AcceptSteer(s, t, at) \/ AcceptInterrupt(s, t, at)
      PROVE  Kept
    <2>1. UNCHANGED <<receipt, seen, revision>>
        BY <1>8 DEF AcceptSteer, AcceptInterrupt
    <2> QED BY <2>1, <1>q
<1>6. ASSUME Tick \/ UNCHANGED vars PROVE Kept
    BY <1>6, <1>q DEF Tick, vars, rowVars
<1> HIDE DEF Kept
<1>9. Kept
    BY <1>1, <1>2, <1>3, <1>4, <1>5, <1>6, <1>7, <1>8 DEF Next, WorkerStep, ClaimScan, SteerStep
<1> QED BY <1>9 DEF Kept

\* A completed turn keeps the evidence that its last words were heard.
Heard(t, tok) == /\ receipt[tok].turn = t /\ receipt[tok].claim = claimCount[t]
                 /\ seen[tok] = revision[t]

LEMMA HeardKept ==
    ASSUME TypeOK, LeaseInv, [Next]_vars, NEW t \in Turns, NEW tok \in Tokens,
           status[t] = "completed", Heard(t, tok)
    PROVE  status'[t] = "completed" /\ Heard(t, tok)'
<1>1. status[t] \in TerminalStatuses /\ status[t] # "running"
    BY DEF TerminalStatuses
<1>2. Still(t)
    BY <1>1, StepShape DEF Only, TurnStep, Admitted, Moved, Reported, Ended, Active, TerminalStatuses
<1>3. receipt'[tok] = receipt[tok] /\ revision'[t] = revision[t]
    BY <1>1, EvidenceKept DEF Heard
<1>4. seen'[tok] = seen[tok]
    <2>1. ASSUME NEW u \in Turns, status[u] = "running", lease[u] = tok PROVE FALSE
        <3>1. receipt[tok] = [turn |-> u, attempt |-> attempt[u], claim |-> claimCount[u]]
            BY <2>1 DEF LeaseInv, LeaseAgreement
        <3> QED BY <3>1, <2>1, <1>1 DEF Heard
    <2> QED BY <2>1, EvidenceKept
<1> QED BY <1>2, <1>3, <1>4 DEF Still, Heard

\* How the rows of the steers change.
LEMMA SteerRowsChange ==
    ASSUME TypeOK, NEW s \in Steers, NEW t \in Turns
    PROVE  /\ RejectPendingSteers(t) =>
                 IF Pending(s, t)
                 THEN steer'[s].status = "rejected" /\ steer'[s].turn = t
                 ELSE steer'[s] = steer[s]
           /\ \A r \in Steers : Applied(r, t) =>
                 IF s = r THEN steer'[s].status = "applied" /\ steer'[s].turn = t
                          ELSE steer'[s] = steer[s]
           /\ \A r \in Steers, at \in Nat : NewSteer(r, t, at) =>
                 IF s = r THEN /\ steer[s].status = "none"
                               /\ steer'[s].status = "pending" /\ steer'[s].turn = t
                          ELSE steer'[s] = steer[s]
BY DEF RejectPendingSteers, Applied, NewSteer, Pending, TypeOK, SteerRows

LEMMA SteerNext == TypeOK /\ LeaseInv /\ SteerInv /\ [Next]_vars => SteerInv'
<1> SUFFICES ASSUME TypeOK, LeaseInv, SteerInv, [Next]_vars PROVE SteerInv'
    OBVIOUS
<1> USE LeaseConstants
<1>t. /\ \A s \in Steers : steer[s].status \in {"none", "pending", "applied", "rejected"}
      /\ \A u \in Turns : status[u] \in Statuses
    BY DEF TypeOK, SteerRows
<1>i. /\ \A s \in Steers, u \in Turns : steer[s].status = "pending" /\ steer[s].turn = u =>
             status[u] \notin Deaf \cup {"absent"}
      /\ \A s \in Steers, u \in Turns : status[u] = "completed" /\ steer[s].turn = u =>
             steer[s].status = "applied"
      /\ \A s \in Steers : steer[s].status = "none" => steer[s].turn = NoTurn
      /\ \A s \in Steers, u \in Turns : steer[s].status = "rejected" /\ steer[s].turn = u =>
             status[u] \in Deaf \ {"completed"}
    BY DEF SteerInv, PendingSteerIsReadable, CompletedSawEverySteer, RejectedWithTurn, Pending,
        Active, Deaf, TerminalStatuses
<1> DEFINE Reads(s, u) == steer'[s].status = "pending" /\ steer'[s].turn = u =>
                              status'[u] \notin Deaf \cup {"absent"}
           Done(s, u) == status'[u] = "completed" /\ steer'[s].turn = u => steer'[s].status = "applied"
           None(s) == steer'[s].status = "none" => steer'[s].turn = NoTurn
           Gone(s, u) == steer'[s].status = "rejected" /\ steer'[s].turn = u =>
                             status'[u] \in Deaf \ {"completed"}
           Good(s, u) == Reads(s, u) /\ Done(s, u) /\ None(s) /\ Gone(s, u)
<1>d. "completed" \in Deaf /\ Deaf \ {"completed"} \subseteq Deaf
    BY DEF Deaf, TerminalStatuses
<1>o. ASSUME Onward, NEW s \in Steers, NEW u \in Turns, steer'[s] = steer[s] PROVE Good(s, u)
    BY <1>o, <1>i, <1>d DEF Onward
<1>1. ASSUME Onward, UNCHANGED steer, NEW s \in Steers, NEW u \in Turns PROVE Good(s, u)
    BY <1>1, <1>o
<1>2. ASSUME Onward, NEW r \in Steers, NEW t \in Turns, Applied(r, t), NEW s \in Steers, NEW u \in Turns
      PROVE  Good(s, u)
    <2>1. CASE s # r
        BY <2>1, <1>2, <1>o, SteerRowsChange
    <2>2. CASE s = r
        BY <2>2, <1>2, SteerRowsChange
    <2> QED BY <2>1, <2>2
<1>3. ASSUME Onward, NEW r \in Steers, NEW t \in Turns, NEW at \in Nat, NewSteer(r, t, at),
             status[t] \notin Deaf \cup {"absent"}, NEW s \in Steers, NEW u \in Turns
      PROVE  Good(s, u)
    <2>1. CASE s # r
        BY <2>1, <1>3, <1>o, SteerRowsChange
    <2>2. CASE s = r
        <3>1. steer'[s].status = "pending" /\ steer'[s].turn = t
            BY <2>2, <1>3, SteerRowsChange
        <3>2. status'[t] \notin Deaf \cup {"absent"}
            BY <1>3 DEF Onward
        <3> QED BY <3>1, <3>2, <1>d
    <2> QED BY <2>1, <2>2
<1>4. ASSUME NEW t \in Turns, Deafened(t), NEW s \in Steers, NEW u \in Turns PROVE Good(s, u)
    <2>1. /\ RejectPendingSteers(t) /\ status[t] \notin TerminalStatuses
          /\ status'[t] \in Deaf \ {"completed"}
          /\ \A v \in Turns \ {t} : status'[v] = status[v]
        BY <1>4 DEF Deafened, Active
    <2>2. CASE Pending(s, t)
        <3>1. steer'[s].status = "rejected" /\ steer'[s].turn = t
            BY <2>1, <2>2, SteerRowsChange
        <3> QED BY <3>1, <2>1
    <2>3. CASE ~Pending(s, t)
        <3>1. steer'[s] = steer[s]
            BY <2>1, <2>3, SteerRowsChange
        <3> QED BY <3>1, <2>1, <2>3, <1>i DEF Pending
    <2> QED BY <2>2, <2>3
<1>5. ASSUME NEW t \in Turns, NEW tok \in Tokens, CompleteTurn(t, tok)
      PROVE  /\ \A s \in Steers, u \in Turns : Good(s, u)
             /\ status'[t] = "completed" /\ Heard(t, tok)'
             /\ \A u \in Turns \ {t} : status'[u] = status[u]
    <2>1. /\ status[t] = "running" /\ status'[t] = "completed"
          /\ \A u \in Turns \ {t} : status'[u] = status[u]
          /\ RejectPendingSteers(t)
          /\ \A s \in Steers : ~Pending(s, t)
        BY <1>5 DEF CompleteTurn, Held, Leased, OutputCurrent, SteerPending, Settle, TypeOK
    <2>2. Heard(t, tok)'
        BY <1>5 DEF CompleteTurn, Held, OutputCurrent, Settle, Heard
    <2>3. \A s \in Steers : steer'[s] = steer[s]
        BY <2>1, SteerRowsChange
    <2>4. \A s \in Steers : steer[s].turn = t => steer[s].status = "applied"
        <3>1. "running" \notin Deaf
            BY DEF Deaf, TerminalStatuses
        <3> QED BY <3>1, <2>1, <1>t, <1>i DEF Pending
    <2>5. \A s \in Steers, u \in Turns : Good(s, u)
        BY <2>1, <2>3, <2>4, <1>i
    <2> QED BY <2>1, <2>2, <2>5
<1> HIDE DEF Good
<1>6. \A s \in Steers, u \in Turns : Good(s, u)
    BY <1>1, <1>2, <1>3, <1>4, <1>5, SteerShape
<1>7. ASSUME NEW t \in Turns, status'[t] = "completed" PROVE \E tok \in Tokens : Heard(t, tok)'
    <2>1. CASE status[t] = "completed"
        <3>1. PICK tok \in Tokens : Heard(t, tok)
            BY <2>1 DEF SteerInv, CompletedSawEverySteer, Heard
        <3> QED BY <3>1, <2>1, HeardKept
    <2>2. CASE status[t] # "completed"
        <3>1. \E u \in Turns, tok \in Tokens : CompleteTurn(u, tok)
            BY <2>2, <1>7, <1>d, SteerShape DEF Onward, Deafened
        <3> QED BY <3>1, <2>2, <1>5, <1>7
    <2> QED BY <2>1, <2>2
<1> USE DEF Good
<1>8. PendingSteerIsReadable'
    BY <1>6 DEF PendingSteerIsReadable, Pending, Active, Deaf
<1>9. CompletedSawEverySteer'
    BY <1>6, <1>7 DEF CompletedSawEverySteer, Heard
<1>10. RejectedWithTurn'
    <2>1. Deaf \ {"completed"} = {"cancelling", "cancelling_client", "failed", "cancelled"}
        BY DEF Deaf, TerminalStatuses
    <2>2. \A s \in Steers : steer'[s].status = "rejected" /\ steer'[s].turn \in Turns =>
              status'[steer'[s].turn] \in {"cancelling", "cancelling_client", "failed", "cancelled"}
        BY <1>6, <2>1
    <2>3. ASSUME NEW s \in Steers PROVE None(s)
        <3>1. CASE Turns = {}
            BY <3>1, SteerShape, <1>i DEF Onward, Applied, Deafened
        <3>2. CASE Turns # {}
            BY <3>2, <1>6
        <3> QED BY <3>1, <3>2
    <2> QED BY <2>2, <2>3 DEF RejectedWithTurn
<1> QED BY <1>8, <1>9, <1>10 DEF SteerInv

LEMMA SteerInvariant == Spec => [](TypeOK /\ LeaseInv /\ SteerInv)
<1>1. Init => SteerInv
    BY LeaseConstants DEF Init, SteerInv, PendingSteerIsReadable, CompletedSawEverySteer, RejectedWithTurn, Pending
<1> QED BY <1>1, LeaseInvariant, SteerNext, PTL DEF Spec

\* The user's words are never dropped by a turn that goes on to succeed: every
\* steer of a completed turn reached its transcript, and the generation that
\* complete_turn committed was built after the last of them.
THEOREM NoSteerIsDropped == Spec => []CompletedSawEverySteer
BY SteerInvariant, PTL DEF SteerInv

\* A steer stays pending only on a turn that can still read it, so no user waits
\* for an answer to words nobody will read.
THEOREM NoSteerIsStranded == Spec => []PendingSteerIsReadable
BY SteerInvariant, PTL DEF SteerInv

=============================================================================
