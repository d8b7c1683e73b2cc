--------------------------- MODULE TurnToolsProofs ---------------------------
(***************************************************************************)
(* Proofs about TurnTools, for every number of turns, polls and calls and  *)
(* every assignment of calls to permission classes.                        *)
(***************************************************************************)
EXTENDS TurnTools, TurnJournalProofs, FiniteSetTheorems

\* Whatever the permission mode, what it gates is a call.
LEMMA GatedCalls == Gated \subseteq Calls
BY ToolConstants DEF Gated

-----------------------------------------------------------------------------
(* Effects and consent.                                                    *)

LEMMA ToolInvInit == ToolInit => ToolInv
<1> SUFFICES ASSUME ToolInit PROVE ToolInv
    OBVIOUS
<1>1. ToolTypeOK
    <2>1. [status |-> "none", turn |-> NoTurn, tok |-> NoToken] \in CallRows
        BY DEF CallRows
    <2>2. [state |-> "none", judge |-> "none"] \in CardRows
        BY DEF CardRows
    <2> QED BY <2>1, <2>2 DEF ToolInit, ToolTypeOK, Stages
<1>2. CallsAreOwned /\ NothingRanYet /\ EffectAtMostOnce
    BY LeaseConstants DEF ToolInit, CallsAreOwned, NothingRanYet, EffectAtMostOnce
<1>3. ClearedHasConsent /\ ConsentBeforeEffect
    BY ToolConstants, GatedCalls DEF ToolInit, ClearedHasConsent, ConsentBeforeEffect
<1> QED BY <1>1, <1>2, <1>3 DEF ToolInv

LEMMA ToolInvStutter == ToolInv /\ UNCHANGED toolVars => ToolInv'
BY ToolConstants, GatedCalls DEF ToolInv, ToolTypeOK, CallsAreOwned, NothingRanYet, ClearedHasConsent,
    EffectAtMostOnce, ConsentBeforeEffect, toolVars

\* A drive that ends leaves its own calls done and the others as they were.
LEMMA EndDriveWork ==
    ASSUME ToolInv, NEW tok \in Tokens, EndDrive(tok)
    PROVE  /\ work' \in [Calls -> Stages]
           /\ halted' \subseteq Tokens
           /\ \A c \in Calls : work'[c] = work[c] \/ (work'[c] = "done" /\ call[c].tok = tok)
BY DEF ToolInv, ToolTypeOK, EndDrive, Own, Stages

\* Closing a turn's calls keeps the rows typed, and no row that exists
\* disappears or moves; what was decided stays decided.
LEMMA CloseCallsRows ==
    ASSUME ToolInv, NEW t \in Turns, CloseCalls(t)
    PROVE  /\ call' \in [Calls -> CallRows]
           /\ card' \in [Calls -> CardRows]
           /\ \A c \in Calls :
                /\ call'[c].turn = call[c].turn
                /\ call'[c].tok = call[c].tok
                /\ call'[c].status = "none" => call[c].status = "none"
                /\ card[c].state # "pending" => card'[c] = card[c]
<1>1. call' \in [Calls -> CallRows]
    BY DEF ToolInv, ToolTypeOK, CloseCalls, CallRows
<1>2. card' \in [Calls -> CardRows]
    BY DEF ToolInv, ToolTypeOK, CloseCalls, CardRows, Settled
<1>3. ASSUME NEW c \in Calls
      PROVE  /\ call'[c].turn = call[c].turn
             /\ call'[c].tok = call[c].tok
             /\ call'[c].status = "none" => call[c].status = "none"
    BY DEF ToolInv, ToolTypeOK, CloseCalls, CallRows
<1>4. ASSUME NEW c \in Calls, card[c].state # "pending" PROVE card'[c] = card[c]
    BY <1>4 DEF CloseCalls
<1> QED BY <1>1, <1>2, <1>3, <1>4

\* Ending a drive disturbs nothing, whether or not the turn's calls are closed.
LEMMA ToolInvEnd ==
    ASSUME ToolInv, NEW t \in Turns, NEW tok \in Tokens,
           EndDrive(tok), UNCHANGED <<granted, effects>>,
           CloseCalls(t) \/ UNCHANGED <<call, card>>
    PROVE  ToolInv'
<1>1. /\ call' \in [Calls -> CallRows]
      /\ card' \in [Calls -> CardRows]
      /\ \A c \in Calls : /\ call'[c].turn = call[c].turn
                          /\ call'[c].tok = call[c].tok
                          /\ call'[c].status = "none" => call[c].status = "none"
                          /\ card[c].state # "pending" => card'[c] = card[c]
    <2>1. CASE CloseCalls(t)
        BY <2>1, CloseCallsRows
    <2>2. CASE UNCHANGED <<call, card>>
        BY <2>2 DEF ToolInv, ToolTypeOK
    <2> QED BY <2>1, <2>2
<1>2. ToolTypeOK'
    BY <1>1, EndDriveWork DEF ToolInv, ToolTypeOK
<1>3. CallsAreOwned'
    BY <1>1, EndDriveWork, LeaseConstants DEF ToolInv, CallsAreOwned
<1>4. NothingRanYet' /\ EffectAtMostOnce'
    <2>1. \A c \in Calls : work'[c] = work[c] \/ work'[c] = "done"
        BY EndDriveWork
    <2> QED BY <2>1 DEF ToolInv, NothingRanYet, EffectAtMostOnce
<1>5. ClearedHasConsent' /\ ConsentBeforeEffect'
    BY <1>1, EndDriveWork, ToolConstants, GatedCalls DEF ToolInv, ClearedHasConsent, ConsentBeforeEffect
<1> QED BY <1>2, <1>3, <1>4, <1>5 DEF ToolInv

LEMMA ToolInvCall ==
    ASSUME ToolInv, NEW c \in Calls, CallStep(c)
    PROVE  ToolInv'
<1>8. ASSUME NEW at \in Stamps, ResolveLost(c, at) PROVE ToolInv'
    <2>1. call[c].turn \in Turns /\ call[c].tok \in Tokens
        BY <1>8 DEF ToolInv, CallsAreOwned, ResolveLost
    <2> QED BY <2>1, <1>8, ToolInvEnd DEF ResolveLost
<1> USE ToolConstants, GatedCalls DEF ToolInv, ToolTypeOK, CallsAreOwned, NothingRanYet, ClearedHasConsent,
        EffectAtMostOnce, ConsentBeforeEffect, CallRows, CardRows, Stages
<1>1. CASE RefuseCall(c)
    BY <1>1 DEF RefuseCall, MayStart, Begin
<1>2. ASSUME NEW judge \in {"none", "judging"}, RequestApproval(c, judge) PROVE ToolInv'
    BY <1>2 DEF RequestApproval, Requestable, Open
<1>3. CASE RequestGranted(c)
    BY <1>3 DEF RequestGranted, Requestable, Open
<1>4. CASE RequestConflict(c)
    BY <1>4 DEF RequestConflict, Advance
<1>5. CASE ReadDecision(c)
    BY <1>5 DEF ReadDecision, Advance, Consents
<1>6. CASE RunTool(c)
    BY <1>6 DEF RunTool, Advance
<1>7. ASSUME NEW at \in Stamps, StartCall(c, at) PROVE ToolInv'
    BY <1>7 DEF StartCall, MayStart, Begin
<1>9. ASSUME NEW at \in Stamps, NEW result \in {"completed", "failed"}, ResolveCall(c, result, at)
      PROVE  ToolInv'
    BY <1>9 DEF ResolveCall, SettleCard, Settled, Advance, Open
<1>10. ASSUME NEW state \in {"approved", "denied"}, NEW remember \in BOOLEAN,
              Decide(c, state, remember)
       PROVE  ToolInv'
    BY <1>10 DEF Decide, Decidable, Open
<1>11. CASE JudgeApproves(c)
    BY <1>11 DEF JudgeApproves, JudgeOwns, Decidable, Open
<1>12. CASE JudgeDeclines(c)
    BY <1>12 DEF JudgeDeclines, JudgeOwns, Decidable, Open
<1> QED BY <1>1, <1>2, <1>3, <1>4, <1>5, <1>6, <1>7, <1>8, <1>9, <1>10, <1>11, <1>12, CallStep(c)
        DEF CallStep

LEMMA ToolInvDrive ==
    ASSUME ToolInv, NEW t \in Turns, NEW tok \in Tokens, DriveStep(t, tok)
    PROVE  ToolInv'
<1>1. CASE DriveAnswers(t, tok)
    BY <1>1, ToolInvEnd DEF DriveAnswers
<1>2. CASE DriveRetries(t, tok)
    BY <1>2, ToolInvEnd DEF DriveRetries
<1>3. CASE DriveStops(t, tok)
    BY <1>3, ToolInvEnd DEF DriveStops
<1>4. CASE RefuseRecovery(t, tok)
    BY <1>4, ToolInvEnd DEF RefuseRecovery
<1>5. ASSUME NEW at \in Stamps, DriveGenerates(t, tok, at) PROVE ToolInv'
    BY <1>5, ToolInvStutter DEF DriveGenerates
<1>6. ASSUME NEW at \in Stamps, DriveDrained(t, tok, at) PROVE ToolInv'
    BY <1>6, ToolInvEnd DEF DriveDrained
<1> USE ToolConstants, GatedCalls DEF ToolInv, ToolTypeOK, CallsAreOwned, NothingRanYet, ClearedHasConsent,
        EffectAtMostOnce, ConsentBeforeEffect, CallRows, CardRows, Stages
<1>7. ASSUME NEW at \in Stamps, NoticeLoss(t, tok, at) PROVE ToolInv'
    BY <1>7 DEF NoticeLoss, Halt
<1>8. ASSUME NEW at \in Stamps, NEW c \in Calls, AcceptCall(c, t, tok, at) PROVE ToolInv'
    BY <1>8 DEF AcceptCall, Advance
<1>9. ASSUME NEW at \in Stamps, NEW c \in Calls, AbandonInherited(c, t, tok, at) PROVE ToolInv'
    BY <1>9 DEF AbandonInherited, SettleCard, Settled, OpenCalls, Open
<1> QED BY <1>1, <1>2, <1>3, <1>4, <1>5, <1>6, <1>7, <1>8, <1>9, DriveStep(t, tok) DEF DriveStep

LEMMA ToolInvCancel ==
    ASSUME ToolInv, NEW t \in Turns, NEW at \in Stamps, UserCancels(t, at)
    PROVE  ToolInv'
<1>1. /\ call' \in [Calls -> CallRows]
      /\ card' \in [Calls -> CardRows]
      /\ \A c \in Calls : /\ call'[c].turn = call[c].turn
                          /\ call'[c].tok = call[c].tok
                          /\ call'[c].status = "none" => call[c].status = "none"
                          /\ card[c].state # "pending" => card'[c] = card[c]
    <2>1. CASE CloseCalls(t)
        BY <2>1, CloseCallsRows
    <2>2. CASE RevokeCards(t) /\ UNCHANGED call
        BY <2>2 DEF ToolInv, ToolTypeOK, RevokeCards, Settled, CardRows
    <2> QED BY <2>1, <2>2 DEF UserCancels
<1>2. UNCHANGED <<granted, work, halted, effects>>
    BY DEF UserCancels
<1>3. ToolTypeOK'
    BY <1>1, <1>2 DEF ToolInv, ToolTypeOK
<1>4. CallsAreOwned'
    BY <1>1, <1>2 DEF ToolInv, CallsAreOwned
<1>5. /\ NothingRanYet'
      /\ EffectAtMostOnce'
      /\ ClearedHasConsent'
      /\ ConsentBeforeEffect'
    BY <1>1, <1>2, ToolConstants, GatedCalls DEF ToolInv, NothingRanYet, EffectAtMostOnce, ClearedHasConsent,
        ConsentBeforeEffect
<1> QED BY <1>3, <1>4, <1>5 DEF ToolInv

LEMMA ToolInvNext == ToolInv /\ [ToolNext]_allVars => ToolInv'
<1> SUFFICES ASSUME ToolInv, [ToolNext]_allVars PROVE ToolInv'
    OBVIOUS
<1>1. CASE Tick /\ UNCHANGED toolVars
    BY <1>1, ToolInvStutter
<1>2. CASE RevokeGrant
    BY <1>2, ToolConstants, GatedCalls DEF RevokeGrant, ToolInv, ToolTypeOK, CallsAreOwned, NothingRanYet,
        ClearedHasConsent, EffectAtMostOnce, ConsentBeforeEffect
<1>3. ASSUME NEW t \in Turns, LeaseSteps(t) PROVE ToolInv'
    BY <1>3, ToolInvStutter DEF LeaseSteps
<1>4. CASE UNCHANGED allVars
    BY <1>4, ToolInvStutter DEF allVars
<1> QED BY <1>1, <1>2, <1>3, <1>4, ToolInvCall, ToolInvDrive, ToolInvCancel DEF ToolNext

LEMMA ToolInvariant == ToolSpec => []ToolInv
BY ToolInvInit, ToolInvNext, PTL DEF ToolSpec

\* A tool that needs consent never runs without it: no interleaving of the
\* worker, the user, the judge, a cancellation, a sweep and a successor clears
\* a gated call whose card does not say yes (run_tool).
THEOREM ConsentPrecedesEffect == ToolSpec => []ConsentBeforeEffect
BY ToolInvariant, PTL DEF ToolInv

\* No call's tool runs twice, however often its turn is reclaimed
\* (resume_pending_server_calls).
THEOREM EffectsHappenOnce == ToolSpec => []EffectAtMostOnce
BY ToolInvariant, PTL DEF ToolInv

-----------------------------------------------------------------------------
(* TurnTools only adds to TurnLease.                                       *)

\* A worker's request for consent is one of its journal batches.
LEMMA RequestIsBatch ==
    ASSUME TypeOK, Stamped, ToolInv, NEW c \in Calls, NEW judge, RequestApproval(c, judge)
    PROVE  Next
<1> DEFINE t == call[c].turn
           tok == call[c].tok
<1>1. t \in Turns /\ tok \in Tokens
    BY DEF RequestApproval, ToolInv, CallsAreOwned
<1>2. now \in Stamps
    BY LeaseConstants DEF TypeOK, Stamps
<1>3. AppendTurnEvents(t, tok, "approval", now)
    <2>1. Held(t, tok, now)
        BY <1>1 DEF RequestApproval, Requestable, Fenced, Held, Leased, Stamped
    <2> QED BY <2>1 DEF RequestApproval, AppendTurnEvents
<1>4. WorkerStep(t, tok)
    BY <1>2, <1>3, ToolConstants, GatedCalls DEF WorkerStep
<1> QED BY <1>1, <1>4 DEF Next

LEMMA CallStepLease ==
    ASSUME TypeOK, Stamped, ToolInv, NEW c \in Calls, CallStep(c)
    PROVE  [Next]_vars
<1>1. ASSUME NEW judge \in {"none", "judging"}, RequestApproval(c, judge) PROVE Next
    BY <1>1, RequestIsBatch
<1>2. CASE \A judge \in {"none", "judging"} : ~RequestApproval(c, judge)
    BY <1>2 DEF CallStep, RefuseCall, RequestGranted, RequestConflict, ReadDecision, RunTool,
        StartCall, ResolveLost, ResolveCall, Decide, JudgeApproves, JudgeDeclines
<1> QED BY <1>1, <1>2

LEMMA DriveStepLease ==
    ASSUME NEW t \in Turns, NEW tok \in Tokens, DriveStep(t, tok)
    PROVE  [Next]_vars
<1>1. CASE DriveAnswers(t, tok) \/ DriveRetries(t, tok) \/ DriveStops(t, tok)
    <2>1. WorkerStep(t, tok)
        BY <1>1 DEF DriveAnswers, DriveRetries, DriveStops, WorkerStep
    <2> QED BY <2>1 DEF Next
<1>2. ASSUME NEW at \in Stamps, DriveGenerates(t, tok, at) \/ DriveDrained(t, tok, at)
      PROVE  Next
    <2>1. WorkerStep(t, tok)
        BY <1>2 DEF DriveGenerates, DriveDrained, WorkerStep
    <2> QED BY <2>1 DEF Next
<1>3. CASE RefuseRecovery(t, tok)
    BY <1>3 DEF RefuseRecovery
<1>4. ASSUME NEW at \in Stamps,
             \/ NoticeLoss(t, tok, at)
             \/ \E c \in Calls : AcceptCall(c, t, tok, at) \/ AbandonInherited(c, t, tok, at)
      PROVE  UNCHANGED vars
    BY <1>4 DEF NoticeLoss, AcceptCall, AbandonInherited
<1> QED BY <1>1, <1>2, <1>3, <1>4 DEF DriveStep

LEMMA LeaseStepsLease ==
    ASSUME NEW t \in Turns, LeaseSteps(t)
    PROVE  Next
<1>1. CASE WaitStep(t)
    BY <1>1 DEF Next
<1>2. ASSUME NEW at \in Stamps, AcceptTurn(t, at) \/ CancelClaimedClientWait(t, at) PROVE Next
    <2>1. UserStep(t, at)
        BY <1>2 DEF UserStep
    <2> QED BY <2>1 DEF Next
<1>3. ASSUME NEW at \in Stamps, NEW tok \in Tokens,
             Heartbeat(t, tok, at) \/ ("progress" \in Batches /\ AppendTurnEvents(t, tok, "progress", at))
      PROVE  Next
    <2>1. WorkerStep(t, tok)
        BY <1>3 DEF WorkerStep
    <2> QED BY <2>1 DEF Next
<1>4. ASSUME NEW at \in Stamps, NEW tok \in Tokens, ClaimScan(t, tok, at) PROVE Next
    BY <1>4 DEF Next
<1>5. ASSUME NEW at \in Stamps, NEW s \in Steers, SteerStep(s, t, at) PROVE Next
    BY <1>5 DEF Next
<1> QED BY <1>1, <1>2, <1>3, <1>4, <1>5 DEF LeaseSteps

LEMMA ToolNextLease == TypeOK /\ Stamped /\ ToolInv /\ [ToolNext]_allVars => [Next]_vars
<1> SUFFICES ASSUME TypeOK, Stamped, ToolInv, [ToolNext]_allVars PROVE [Next]_vars
    OBVIOUS
<1>1. CASE Tick /\ UNCHANGED toolVars
    BY <1>1 DEF Next
<1>2. CASE RevokeGrant
    BY <1>2 DEF RevokeGrant
<1>3. ASSUME NEW t \in Turns, NEW at \in Stamps, UserCancels(t, at) PROVE Next
    <2>1. UserStep(t, at)
        BY <1>3 DEF UserCancels, UserStep
    <2> QED BY <2>1 DEF Next
<1>4. CASE UNCHANGED allVars
    BY <1>4 DEF allVars
<1> QED BY <1>1, <1>2, <1>3, <1>4, CallStepLease, DriveStepLease, LeaseStepsLease DEF ToolNext

LEMMA ToolsAreTyped == ToolSpec => [](TypeOK /\ Stamped /\ ToolInv)
<1>1. ToolInit => TypeOK /\ Stamped /\ ToolInv
    BY TypeInit, ToolInvInit DEF ToolInit, Init, Stamped
<1>2. TypeOK /\ Stamped /\ ToolInv /\ [ToolNext]_allVars => (TypeOK /\ Stamped /\ ToolInv)'
    BY ToolNextLease, TypeNext, StampedNext, ToolInvNext
<1> QED BY <1>1, <1>2, PTL DEF ToolSpec

\* The turn with its calls and its consent is still the turn of TurnLease: no
\* step of a tool, a card, the judge or a sweep does to the turn's row, its
\* receipts or its journal what TurnLease does not allow.  What is proved of
\* TurnLease holds of it.
THEOREM ToolsRefineLease == ToolSpec => Spec
<1>1. ToolInit => Init
    BY DEF ToolInit
<1> QED BY <1>1, ToolsAreTyped, ToolNextLease, PTL DEF ToolSpec, Spec

\* In particular every lease of a turn that runs tools agrees with its receipt.
THEOREM ToolLeasesAgree == ToolSpec => []LeaseAgreement
BY ToolsRefineLease, LeasesAgree, PTL

-----------------------------------------------------------------------------
(* Decisions.                                                              *)

\* What somebody decided about a call.
Decided(d) == card[d].state \notin {"none", "pending"}

LEMMA DecidedNext ==
    ASSUME ToolInv, [ToolNext]_allVars, NEW d \in Calls, Decided(d)
    PROVE  card'[d].state = card[d].state
<1> USE DEF Decided
<1>1. ASSUME NEW c \in Calls, CallStep(c) PROVE card'[d].state = card[d].state
    <2>1. CASE UNCHANGED card
        BY <2>1
    <2>2. CASE card' # card
        BY <2>2, <1>1 DEF ToolInv, ToolTypeOK, CallStep, RefuseCall, RequestApproval, RequestGranted,
            RequestConflict, ReadDecision, RunTool, StartCall, ResolveLost, ResolveCall, SettleCard,
            Settled, Decide, JudgeApproves, JudgeDeclines, JudgeOwns, Decidable
    <2> QED BY <2>1, <2>2
<1>2. ASSUME NEW t \in Turns, NEW tok \in Tokens, DriveStep(t, tok)
      PROVE  card'[d].state = card[d].state
    <2>1. CASE DriveStops(t, tok)
        BY <2>1 DEF DriveStops, CloseCalls
    <2>2. ASSUME NEW at \in Stamps, NEW c \in Calls, AbandonInherited(c, t, tok, at)
          PROVE  card'[d].state = card[d].state
        BY <2>2 DEF AbandonInherited, SettleCard, ToolInv, ToolTypeOK
    <2>3. \/ DriveStops(t, tok)
          \/ \E at \in Stamps, c \in Calls : AbandonInherited(c, t, tok, at)
          \/ UNCHANGED card
        BY <1>2 DEF DriveStep, DriveAnswers, DriveRetries, RefuseRecovery, DriveGenerates,
            DriveDrained, NoticeLoss, AcceptCall, toolVars
    <2> QED BY <2>1, <2>2, <2>3
<1>3. ASSUME NEW t \in Turns, NEW at \in Stamps, UserCancels(t, at)
      PROVE  card'[d].state = card[d].state
    BY <1>3 DEF UserCancels, RevokeCards, CloseCalls
<1>4. ASSUME NEW t \in Turns, LeaseSteps(t) PROVE card'[d].state = card[d].state
    BY <1>4 DEF LeaseSteps, toolVars
<1>5. CASE RevokeGrant \/ (Tick /\ UNCHANGED toolVars) \/ UNCHANGED allVars
    BY <1>5 DEF RevokeGrant, toolVars, allVars
<1> QED BY <1>1, <1>2, <1>3, <1>4, <1>5 DEF ToolNext

\* A card is decided once: the user's answer, the judge's verdict, the
\* revocation of a cancellation and the settlement of a sweep never overwrite
\* one another, in whatever order they arrive (decide, resolve_from_judge).
THEOREM DecisionsAreFinal == ToolSpec => DecisionIsFinal
<1>1. ToolInv /\ [ToolNext]_allVars =>
        [\A c \in Calls : card[c].state \notin {"none", "pending"} =>
            card'[c].state = card[c].state]_allVars
    BY DecidedNext DEF Decided
<1> QED BY <1>1, ToolInvariant, PTL DEF ToolSpec, DecisionIsFinal

-----------------------------------------------------------------------------
(* Cancellation.                                                           *)

\* A worker never makes a turn "cancelling".
LEMMA WorkerNeverCancels ==
    ASSUME TypeOK, NEW t \in Turns, NEW tok \in Tokens, WorkerStep(t, tok),
           NEW u \in Turns, status'[u] = "cancelling"
    PROVE  status[u] = "cancelling"
BY DEF TypeOK, WorkerStep, Heartbeat, ExpireLease, Generate, AppendTurnEvents, ParkForClient,
    ParkForAgentRuns, Park, RetryLater, CompleteTurn, FailTurn, FinishCancellation,
    CheckpointSpawn, Settle, Resume, rowVars

\* Nor does a poll, a client, a sub-agent, a steer or an admission.
LEMMA LeaseStepsNeverCancel ==
    ASSUME TypeOK, NEW t \in Turns, LeaseSteps(t), NEW u \in Turns, status'[u] = "cancelling"
    PROVE  status[u] = "cancelling"
<1> USE DEF TypeOK
<1>1. CASE WaitStep(t)
    BY <1>1 DEF WaitStep, ClientResolved, ClientStopped, AgentRunsSettled, Settle, Resume
<1>2. ASSUME NEW at \in Stamps, AcceptTurn(t, at) \/ CancelClaimedClientWait(t, at)
      PROVE  status[u] = "cancelling"
    BY <1>2 DEF AcceptTurn, CancelClaimedClientWait
<1>3. ASSUME NEW at \in Stamps, NEW tok \in Tokens,
             Heartbeat(t, tok, at) \/ AppendTurnEvents(t, tok, "progress", at)
      PROVE  status[u] = "cancelling"
    BY <1>3 DEF Heartbeat, AppendTurnEvents, rowVars
<1>4. ASSUME NEW at \in Stamps, NEW tok \in Tokens, ClaimScan(t, tok, at)
      PROVE  status[u] = "cancelling"
    BY <1>4 DEF ClaimScan, ClaimTurn, ScanCancelled, ScanExhausted, Settle
<1>5. ASSUME NEW at \in Stamps, NEW s \in Steers, SteerStep(s, t, at)
      PROVE  status[u] = "cancelling"
    BY <1>5 DEF SteerStep, AcceptSteer, AcceptInterrupt, ApplySteer, Resume
<1> QED BY <1>1, <1>2, <1>3, <1>4, <1>5 DEF LeaseSteps

\* While `u' is being cancelled, a step on a call opens no card of it.
LEMMA NoCardCall ==
    ASSUME TypeOK, ToolInv, NoCardWhileCancelling, NEW d \in Calls, CallStep(d),
           NEW c \in Calls, NEW u \in Turns, status'[u] = "cancelling", call'[c].turn = u
    PROVE  card'[c].state # "pending"
<1>1. status' = status
    BY DEF CallStep, RefuseCall, RequestApproval, RequestGranted, RequestConflict, ReadDecision,
        RunTool, StartCall, ResolveLost, ResolveCall, Decide, JudgeApproves, JudgeDeclines, vars,
        rowVars
<1>2. call'[c].turn = call[c].turn
    BY DEF CallStep, RefuseCall, RequestApproval, RequestGranted, RequestConflict, ReadDecision,
        RunTool, StartCall, ResolveLost, ResolveCall, Decide, JudgeApproves, JudgeDeclines,
        ToolInv, ToolTypeOK, CallRows
<1>3. status[u] = "cancelling" /\ call[c].turn = u /\ card[c].state # "pending"
    BY <1>1, <1>2 DEF NoCardWhileCancelling
<1>4. ASSUME NEW judge \in {"none", "judging"}, RequestApproval(d, judge)
      PROVE  card'[c].state # "pending"
    <2>1. status[call[d].turn] = "running"
        BY <1>4 DEF RequestApproval, Requestable
    <2>2. c # d
        BY <2>1, <1>3
    <2> QED BY <2>2, <1>3, <1>4 DEF RequestApproval, ToolInv, ToolTypeOK
<1>5. CASE \A judge \in {"none", "judging"} : ~RequestApproval(d, judge)
    BY <1>3, <1>5 DEF CallStep, RefuseCall, RequestGranted, RequestConflict, ReadDecision,
        RunTool, StartCall, ResolveLost, ResolveCall, SettleCard, Settled, Decide, JudgeApproves,
        JudgeDeclines, JudgeOwns, Decidable, ToolInv, ToolTypeOK, CardRows
<1> QED BY <1>4, <1>5

\* Nor does the drive, which admits a call without a card.
LEMMA NoCardDrive ==
    ASSUME TypeOK, ToolInv, NoCardWhileCancelling,
           NEW t \in Turns, NEW tok \in Tokens, DriveStep(t, tok),
           NEW c \in Calls, NEW u \in Turns, status'[u] = "cancelling", call'[c].turn = u
    PROVE  card'[c].state # "pending"
<1>1. status[u] = "cancelling"
    <2>1. WorkerStep(t, tok) \/ UNCHANGED vars
        BY DEF DriveStep, DriveAnswers, DriveRetries, DriveStops, RefuseRecovery, DriveGenerates,
            DriveDrained, NoticeLoss, AcceptCall, AbandonInherited, WorkerStep
    <2> QED BY <2>1, WorkerNeverCancels DEF vars, rowVars
<1>2. CASE DriveStops(t, tok)
    <2>1. CloseCalls(t)
        BY <1>2 DEF DriveStops
    <2>2. call'[c].turn = call[c].turn
        BY <2>1, CloseCallsRows
    <2> QED BY <2>1, <2>2, <1>1, CloseCallsRows DEF NoCardWhileCancelling
<1>3. ASSUME NEW at \in Stamps, NEW d \in Calls, AcceptCall(d, t, tok, at)
      PROVE  card'[c].state # "pending"
    <2>1. card[d].state = "none" /\ card' = card
        BY <1>3 DEF AcceptCall, ToolInv, CallsAreOwned
    <2>2. c # d => call[c].turn = u
        BY <1>3 DEF AcceptCall, ToolInv, ToolTypeOK
    <2> QED BY <2>1, <2>2, <1>1 DEF NoCardWhileCancelling
<1>4. ASSUME NEW at \in Stamps, NEW d \in Calls, AbandonInherited(d, t, tok, at)
      PROVE  card'[c].state # "pending"
    <2>1. call[c].turn = u
        BY <1>4 DEF AbandonInherited, ToolInv, ToolTypeOK, CallRows
    <2>2. card[c].state # "pending"
        BY <2>1, <1>1 DEF NoCardWhileCancelling
    <2> QED BY <2>2, <1>4 DEF AbandonInherited, SettleCard, Settled, ToolInv, ToolTypeOK, CardRows
<1>5. CASE UNCHANGED <<call, card>>
    BY <1>1, <1>5 DEF NoCardWhileCancelling
<1> QED BY <1>2, <1>3, <1>4, <1>5 DEF DriveStep, DriveAnswers, DriveRetries, RefuseRecovery,
        DriveGenerates, DriveDrained, NoticeLoss, toolVars

\* And the transaction that accepts a cancellation revokes what is open.
LEMMA NoCardCancel ==
    ASSUME TypeOK, ToolInv, NoCardWhileCancelling,
           NEW t \in Turns, NEW at \in Stamps, UserCancels(t, at),
           NEW c \in Calls, NEW u \in Turns, status'[u] = "cancelling", call'[c].turn = u
    PROVE  card'[c].state # "pending"
<1>1. CASE CancelRunning(t, at) /\ RevokeCards(t) /\ UNCHANGED call
    <2>1. CASE u = t
        BY <1>1, <2>1 DEF RevokeCards, Settled, ToolInv, ToolTypeOK, CardRows
    <2>2. CASE u # t
        <3>1. status[u] = "cancelling" /\ call[c].turn = u
            BY <1>1, <2>2 DEF CancelRunning, TypeOK
        <3> QED BY <1>1, <2>2, <3>1 DEF RevokeCards, NoCardWhileCancelling
    <2> QED BY <2>1, <2>2
<1>2. CASE /\ CancelIdle(t, at) \/ CancelUnclaimedClientWait(t, at) \/ CancelAgentRunWait(t, at)
           /\ CloseCalls(t)
    <2>1. status[u] = "cancelling"
        BY <1>2 DEF CancelIdle, CancelUnclaimedClientWait, CancelAgentRunWait, Settle, TypeOK
    <2>2. call[c].turn = u
        BY <1>2, CloseCallsRows
    <2> QED BY <1>2, <2>1, <2>2, CloseCallsRows DEF NoCardWhileCancelling
<1> QED BY <1>1, <1>2 DEF UserCancels

LEMMA NoCardNext ==
    TypeOK /\ ToolInv /\ NoCardWhileCancelling /\ [ToolNext]_allVars => NoCardWhileCancelling'
<1> SUFFICES ASSUME TypeOK, ToolInv, NoCardWhileCancelling, [ToolNext]_allVars,
                    NEW c \in Calls, NEW u \in Turns, status'[u] = "cancelling", call'[c].turn = u
             PROVE  card'[c].state # "pending"
    BY DEF NoCardWhileCancelling
<1>1. ASSUME NEW t \in Turns, LeaseSteps(t) PROVE card'[c].state # "pending"
    <2>1. status[u] = "cancelling"
        BY <1>1, LeaseStepsNeverCancel
    <2> QED BY <1>1, <2>1 DEF LeaseSteps, toolVars, NoCardWhileCancelling
<1>2. CASE RevokeGrant \/ (Tick /\ UNCHANGED toolVars) \/ UNCHANGED allVars
    <2>1. UNCHANGED <<status, call, card>>
        BY <1>2 DEF RevokeGrant, Tick, toolVars, allVars, vars, rowVars
    <2> QED BY <2>1 DEF NoCardWhileCancelling
<1> QED BY <1>1, <1>2, NoCardCall, NoCardDrive, NoCardCancel DEF ToolNext

\* From the moment a cancellation is accepted, nobody is asked for consent to
\* anything the turn wanted to do, although its worker keeps its lease and may
\* be about to ask (reject_pending_for_cancelling_turn_on, request_on).
THEOREM CancellingTurnAsksNothing == ToolSpec => []NoCardWhileCancelling
<1>1. ToolInit => NoCardWhileCancelling
    BY DEF ToolInit, NoCardWhileCancelling
<1> QED BY <1>1, ToolsAreTyped, NoCardNext, PTL DEF ToolSpec

-----------------------------------------------------------------------------
(* What is open when a turn completes or is recovered.                     *)

\* A step that is not the admission of `c' opens nothing, and leaves `c' with
\* its worker; it finishes `c' only by closing it or with its drive.
Kept(c) ==
    /\ call'[c].tok = call[c].tok /\ call'[c].turn = call[c].turn
    /\ call'[c].status = "pending" => call[c].status = "pending"
    /\ work'[c] = "done" /\ work[c] # "done" =>
           call[c].tok \in halted' \/ call'[c].status # "pending"
    /\ work'[c] = "admitted" => work[c] = "admitted"
    /\ work'[c] = "asking" => work[c] = "asking" \/ c \in Gated
    /\ card'[c].state = "pending" => card[c].state = "pending" \/ Open(c)
    /\ card'[c].state = "pending" /\ Open(c) => call'[c].status = "pending"
    /\ card'[c].state # "none" => card[c].state # "none" \/ work[c] = "asking"

LEMMA KeptRows ==
    ASSUME UNCHANGED <<call, card, work>>, NEW c \in Calls
    PROVE  Kept(c)
BY DEF Kept, Open

\* Closing the calls of a turn closes their cards with them.
LEMMA CloseKeeps ==
    ASSUME ToolInv, NEW t \in Turns, CloseCalls(t), NEW c \in Calls,
           work'[c] = work[c] \/ (work'[c] = "done" /\ call[c].tok \in halted')
    PROVE  Kept(c)
<1>1. call[c] \in CallRows /\ card[c] \in CardRows
    BY DEF ToolInv, ToolTypeOK
<1>2. CASE c \in OpenCalls(t)
    <2>1. call'[c] = [call[c] EXCEPT !.status = "cancelled"] /\ call[c].turn = t
        BY <1>2 DEF CloseCalls, OpenCalls
    <2>2. call'[c].status = "cancelled" /\ call'[c].tok = call[c].tok /\ call'[c].turn = call[c].turn
        BY <2>1, <1>1 DEF CallRows
    <2>3. card'[c].state # "pending" /\ (card'[c].state # "none" => card[c].state # "none")
        BY <2>1, <1>1 DEF CloseCalls, Settled, CardRows
    <2> QED BY <2>2, <2>3 DEF Kept
<1>3. CASE c \notin OpenCalls(t)
    <2>1. call'[c] = call[c]
        BY <1>3 DEF CloseCalls
    <2>2. /\ card'[c].state = "pending" => card[c].state = "pending"
          /\ card'[c].state # "none" => card[c].state # "none"
        BY <1>1 DEF CloseCalls, Settled, CardRows
    <2> QED BY <2>1, <2>2 DEF Kept, Open
<1> QED BY <1>2, <1>3

LEMMA EndKeeps ==
    ASSUME ToolInv, NEW tok \in Tokens, EndDrive(tok), UNCHANGED <<call, card>>, NEW c \in Calls
    PROVE  Kept(c)
<1>1. work'[c] = work[c] \/ (work'[c] = "done" /\ call[c].tok \in halted')
    BY DEF EndDrive, Own
<1> QED BY <1>1 DEF Kept, Open

LEMMA CallStepKeeps ==
    ASSUME ToolInv, NEW d \in Calls, CallStep(d), NEW c \in Calls
    PROVE  Kept(c) /\ halted \subseteq halted'
<1> USE DEF Kept, Open
<1>t. call \in [Calls -> CallRows] /\ card \in [Calls -> CardRows] /\ work \in [Calls -> Stages]
    BY DEF ToolInv, ToolTypeOK
<1>1. CASE RefuseCall(d)
    BY <1>1, <1>t DEF RefuseCall, Begin
<1>2. ASSUME NEW judge \in {"none", "judging"}, RequestApproval(d, judge)
      PROVE  Kept(c) /\ halted \subseteq halted'
    BY <1>2, <1>t DEF RequestApproval, Requestable
<1>3. CASE RequestGranted(d)
    BY <1>3, <1>t DEF RequestGranted, CardRows
<1>4. CASE RequestConflict(d) \/ ReadDecision(d) \/ RunTool(d)
    BY <1>4, <1>t DEF RequestConflict, ReadDecision, RunTool, Advance
<1>5. ASSUME NEW at \in Stamps, StartCall(d, at) PROVE Kept(c) /\ halted \subseteq halted'
    BY <1>5, <1>t DEF StartCall, Begin
<1>6. ASSUME NEW at \in Stamps, ResolveLost(d, at) PROVE Kept(c) /\ halted \subseteq halted'
    <2>1. call[d].tok \in Tokens
        BY <1>6 DEF ToolInv, CallsAreOwned, ResolveLost
    <2> QED BY <2>1, <1>6, EndKeeps DEF ResolveLost, EndDrive
<1>7. ASSUME NEW at \in Stamps, NEW result \in {"completed", "failed"}, ResolveCall(d, result, at)
      PROVE  Kept(c) /\ halted \subseteq halted'
    BY <1>7, <1>t DEF ResolveCall, SettleCard, Settled, Advance, CallRows, CardRows
<1>8. ASSUME NEW state \in {"approved", "denied"}, NEW remember \in BOOLEAN, Decide(d, state, remember)
      PROVE  Kept(c) /\ halted \subseteq halted'
    BY <1>8, <1>t DEF Decide, Decidable
<1>9. CASE JudgeApproves(d) \/ JudgeDeclines(d)
    BY <1>9, <1>t DEF JudgeApproves, JudgeDeclines, JudgeOwns, Decidable, CardRows
<1> QED BY <1>1, <1>2, <1>3, <1>4, <1>5, <1>6, <1>7, <1>8, <1>9, CallStep(d) DEF CallStep

LEMMA DriveStepKeeps ==
    ASSUME ToolInv, NEW t \in Turns, NEW tok \in Tokens, DriveStep(t, tok), NEW c \in Calls
    PROVE  /\ halted \subseteq halted'
           /\ Kept(c) \/ \E at \in Stamps : AcceptCall(c, t, tok, at)
<1>t. call \in [Calls -> CallRows] /\ card \in [Calls -> CardRows] /\ work \in [Calls -> Stages]
    BY DEF ToolInv, ToolTypeOK
<1>1. CASE DriveAnswers(t, tok) \/ DriveRetries(t, tok) \/ RefuseRecovery(t, tok)
             \/ \E at \in Stamps : DriveDrained(t, tok, at)
    <2>1. EndDrive(tok) /\ UNCHANGED <<call, card>>
        BY <1>1 DEF DriveAnswers, DriveRetries, RefuseRecovery, DriveDrained
    <2> QED BY <2>1, EndKeeps DEF EndDrive
<1>2. CASE DriveStops(t, tok)
    <2>1. CloseCalls(t) /\ EndDrive(tok)
        BY <1>2 DEF DriveStops
    <2>2. work'[c] = work[c] \/ (work'[c] = "done" /\ call[c].tok \in halted')
        BY <2>1 DEF EndDrive, Own
    <2> QED BY <2>1, <2>2, CloseKeeps DEF EndDrive
<1>3. CASE \E at \in Stamps : DriveGenerates(t, tok, at) \/ NoticeLoss(t, tok, at)
    <2>1. UNCHANGED <<call, card, work>> /\ halted \subseteq halted'
        BY <1>3 DEF DriveGenerates, NoticeLoss, Halt, toolVars
    <2> QED BY <2>1, KeptRows
<1>4. ASSUME NEW at \in Stamps, NEW d \in Calls, AcceptCall(d, t, tok, at), c # d
      PROVE  Kept(c) /\ halted \subseteq halted'
    <2>1. call'[c] = call[c] /\ card'[c] = card[c] /\ work'[c] = work[c] /\ halted' = halted
        BY <1>4, <1>t DEF AcceptCall, Advance
    <2> QED BY <2>1 DEF Kept, Open
<1>5. ASSUME NEW at \in Stamps, NEW d \in Calls, AbandonInherited(d, t, tok, at)
      PROVE  Kept(c) /\ halted \subseteq halted'
    BY <1>5, <1>t DEF AbandonInherited, SettleCard, Settled, OpenCalls, Kept, Open, CallRows, CardRows
<1>6. ASSUME NEW at \in Stamps, AcceptCall(c, t, tok, at) PROVE halted \subseteq halted'
    BY <1>6 DEF AcceptCall
<1> QED BY <1>1, <1>2, <1>3, <1>4, <1>5, <1>6, DriveStep(t, tok) DEF DriveStep

LEMMA ToolStepKeeps ==
    ASSUME ToolInv, [ToolNext]_allVars, NEW c \in Calls
    PROVE  /\ halted \subseteq halted'
           /\ Kept(c) \/ \E t \in Turns, tok \in Tokens, at \in Stamps : AcceptCall(c, t, tok, at)
<1>1. ASSUME NEW t \in Turns, NEW at \in Stamps, UserCancels(t, at)
      PROVE  Kept(c) /\ halted \subseteq halted'
    <2>1. CASE CloseCalls(t) /\ UNCHANGED <<work, halted>>
        BY <2>1, CloseKeeps
    <2>2. CASE RevokeCards(t) /\ UNCHANGED <<call, work, halted>>
        <3>1. card[c] \in CardRows
            BY DEF ToolInv, ToolTypeOK
        <3>2. /\ card'[c].state = "pending" => card[c].state = "pending"
              /\ card'[c].state # "none" => card[c].state # "none"
            BY <2>2, <3>1 DEF RevokeCards, Settled, CardRows
        <3> QED BY <3>2, <2>2 DEF Kept, Open
    <2> QED BY <1>1, <2>1, <2>2 DEF UserCancels
<1>2. ASSUME NEW t \in Turns, LeaseSteps(t) PROVE Kept(c) /\ halted \subseteq halted'
    BY <1>2, KeptRows DEF LeaseSteps, toolVars
<1>3. CASE RevokeGrant \/ (Tick /\ UNCHANGED toolVars) \/ UNCHANGED allVars
    BY <1>3, KeptRows DEF RevokeGrant, toolVars, allVars
<1> QED BY <1>1, <1>2, <1>3, CallStepKeeps, DriveStepKeeps DEF ToolNext

\* A lease a token holds after a step it held before, unless the poll that has
\* just been granted it had no answer yet.
LEMMA LeaseMoves ==
    ASSUME TypeOK, LeaseInv, [Next]_vars, NEW u \in Turns, lease'[u] \in Tokens, lease'[u] # lease[u]
    PROVE  Unspent(lease'[u]) /\ seen' = seen
<1> USE LeaseConstants
<1>0. lease \in [Turns -> Tokens \cup {NoToken}]
    BY DEF TypeOK
<1>1. ASSUME NEW t \in Turns, NEW tok \in Tokens, NEW at, ClaimTurn(t, tok, at)
      PROVE  Unspent(lease'[u]) /\ seen' = seen
    BY <1>0, <1>1 DEF ClaimTurn
<1>2. ASSUME NEW t \in Turns, ClearLease(t) PROVE FALSE
    BY <1>0, <1>2 DEF ClearLease
<1>3. ASSUME lease' = lease PROVE FALSE
    BY <1>3
<1>4. ASSUME NEW t \in Turns, NEW tok \in Tokens, NEW at,
             \/ ScanCancelled(t, tok, at) \/ ScanExhausted(t, tok, at)
             \/ Heartbeat(t, tok, at) \/ ExpireLease(t, tok, at) \/ Generate(t, tok, at)
             \/ \E kind \in Batches : AppendTurnEvents(t, tok, kind, at)
             \/ ParkForClient(t, tok, at) \/ RetryLater(t, tok, at)
      PROVE  FALSE
    <2>1. ClearLease(t) \/ lease' = lease
        BY <1>4 DEF ScanCancelled, ScanExhausted, Heartbeat, ExpireLease, Generate, AppendTurnEvents,
            ParkForClient, RetryLater, Park, Settle, rowVars
    <2> QED BY <2>1, <1>2, <1>3
<1>5. ASSUME NEW t \in Turns, NEW tok \in Tokens,
             \/ CompleteTurn(t, tok) \/ FailTurn(t, tok) \/ FinishCancellation(t, tok)
             \/ ParkForAgentRuns(t, tok) \/ CheckpointSpawn(t, tok)
      PROVE  FALSE
    <2>1. ClearLease(t)
        BY <1>5 DEF CompleteTurn, FailTurn, FinishCancellation, ParkForAgentRuns, CheckpointSpawn,
            Park, Settle
    <2> QED BY <2>1, <1>2
<1>6. ASSUME NEW t \in Turns, WaitStep(t) \/ \E at \in Stamps : UserStep(t, at) PROVE FALSE
    <2>1. ClearLease(t) \/ lease' = lease
        BY <1>6 DEF WaitStep, UserStep, ClientResolved, ClientStopped, AgentRunsSettled, AcceptTurn,
            CancelRunning, CancelIdle, CancelUnclaimedClientWait, CancelClaimedClientWait,
            CancelAgentRunWait, Settle
    <2> QED BY <2>1, <1>2, <1>3
<1>7. ASSUME NEW s \in Steers, NEW t \in Turns, NEW at, SteerStep(s, t, at) PROVE FALSE
    BY <1>3, <1>7 DEF SteerStep, AcceptSteer, AcceptInterrupt, ApplySteer
<1>8. ASSUME Tick \/ UNCHANGED vars PROVE FALSE
    BY <1>3, <1>8 DEF Tick, vars, rowVars
<1> QED BY <1>1, <1>4, <1>5, <1>6, <1>7, <1>8 DEF Next, WorkerStep, ClaimScan

\* Only a drive that has recovered builds a model call.
LEMMA SeenMoves ==
    ASSUME [ToolNext]_allVars, TypeOK, NEW tok \in Tokens, seen'[tok] # seen[tok]
    PROVE  \E t \in Turns, at \in Stamps : DriveGenerates(t, tok, at)
<1>1. ASSUME NEW c \in Calls, CallStep(c) PROVE seen' = seen
    BY <1>1 DEF CallStep, RefuseCall, RequestApproval, RequestGranted, RequestConflict, ReadDecision,
        RunTool, StartCall, ResolveLost, ResolveCall, Decide, JudgeApproves, JudgeDeclines, vars
<1>2. ASSUME NEW t \in Turns, LeaseSteps(t) PROVE seen' = seen
    BY <1>2 DEF LeaseSteps, WaitStep, ClientResolved, ClientStopped, AgentRunsSettled, AcceptTurn,
        CancelClaimedClientWait, Heartbeat, AppendTurnEvents, ClaimScan, ClaimTurn, ScanCancelled,
        ScanExhausted, SteerStep, AcceptSteer, AcceptInterrupt, ApplySteer, Settle, rowVars
<1>3. ASSUME NEW t \in Turns, NEW at \in Stamps, UserCancels(t, at) PROVE seen' = seen
    BY <1>3 DEF UserCancels, CancelRunning, CancelIdle, CancelUnclaimedClientWait,
        CancelAgentRunWait, Settle
<1>4. ASSUME NEW t \in Turns, NEW k \in Tokens, DriveStep(t, k)
      PROVE  seen' = seen \/ \E at \in Stamps : DriveGenerates(t, k, at)
    BY <1>4 DEF DriveStep, DriveAnswers, DriveRetries, DriveStops, RefuseRecovery, DriveDrained,
        NoticeLoss, AcceptCall, AbandonInherited, CompleteTurn, ParkForAgentRuns, CheckpointSpawn,
        ParkForClient, Park, RetryLater, FailTurn, FinishCancellation, ExpireLease, Settle, vars
<1>5. ASSUME RevokeGrant \/ (Tick /\ UNCHANGED toolVars) \/ UNCHANGED allVars PROVE seen' = seen
    BY <1>5 DEF RevokeGrant, Tick, allVars, vars
<1>6. ASSUME NEW t \in Turns, NEW k \in Tokens, NEW at \in Stamps, DriveGenerates(t, k, at)
      PROVE  k = tok
    BY <1>6 DEF DriveGenerates, Generate, TypeOK
<1> QED BY <1>1, <1>2, <1>3, <1>4, <1>5, <1>6 DEF ToolNext

\* A completion is the answer of a drive that finished its step.
LEMMA CompletionIsAnswer ==
    ASSUME TypeOK, LeaseInv, ToolInv, [ToolNext]_allVars, [Next]_vars,
           NEW u \in Turns, status'[u] = "completed", status[u] # "completed"
    PROVE  \E tok \in Tokens : DriveAnswers(u, tok) /\ CompleteTurn(u, tok)
<1>0. status \in [Turns -> Statuses]
    BY DEF TypeOK
<1>1. ASSUME NEW c \in Calls, CallStep(c) PROVE FALSE
    BY <1>1 DEF CallStep, RefuseCall, RequestApproval, RequestGranted, RequestConflict, ReadDecision,
        RunTool, StartCall, ResolveLost, ResolveCall, Decide, JudgeApproves, JudgeDeclines, vars,
        rowVars
<1>2. ASSUME NEW t \in Turns, LeaseSteps(t) PROVE FALSE
    BY <1>0, <1>2 DEF LeaseSteps, WaitStep, ClientResolved, ClientStopped, AgentRunsSettled, AcceptTurn,
        CancelClaimedClientWait, Heartbeat, AppendTurnEvents, ClaimScan, ClaimTurn, ScanCancelled,
        ScanExhausted, SteerStep, AcceptSteer, AcceptInterrupt, ApplySteer, Settle, Resume, rowVars
<1>3. ASSUME NEW t \in Turns, NEW at \in Stamps, UserCancels(t, at) PROVE FALSE
    BY <1>0, <1>3 DEF UserCancels, CancelRunning, CancelIdle, CancelUnclaimedClientWait,
        CancelAgentRunWait, Settle
<1>4. ASSUME NEW t \in Turns, NEW k \in Tokens, DriveStep(t, k)
      PROVE  DriveAnswers(u, k) /\ CompleteTurn(u, k)
    <2>1. CASE DriveAnswers(t, k) /\ CompleteTurn(t, k)
        BY <1>0, <2>1 DEF CompleteTurn, Settle
    <2>2. CASE ~(DriveAnswers(t, k) /\ CompleteTurn(t, k))
        BY <1>0, <1>4, <2>2 DEF DriveStep, DriveAnswers, DriveRetries, DriveStops, RefuseRecovery,
            DriveGenerates, Generate, DriveDrained,
            NoticeLoss, AcceptCall, AbandonInherited, ParkForAgentRuns, CheckpointSpawn, Resume,
            ParkForClient, Park, RetryLater, FailTurn, FinishCancellation, ExpireLease, Settle, vars, rowVars
    <2> QED BY <2>1, <2>2
<1>5. ASSUME RevokeGrant \/ (Tick /\ UNCHANGED toolVars) \/ UNCHANGED allVars PROVE FALSE
    BY <1>5 DEF RevokeGrant, Tick, allVars, vars, rowVars
<1> QED BY <1>1, <1>2, <1>3, <1>4, <1>5 DEF ToolNext

\* A token leases one turn.
LEMMA OneTurnPerToken ==
    ASSUME LeaseInv, NEW t \in Turns, NEW u \in Turns, lease[t] \in Tokens, lease[u] = lease[t]
    PROVE  t = u /\ receipt[lease[t]].turn = t
<1>1. receipt[lease[t]] = [turn |-> t, attempt |-> attempt[t], claim |-> claimCount[t]]
    BY DEF LeaseInv, LeaseAgreement
<1>2. receipt[lease[u]] = [turn |-> u, attempt |-> attempt[u], claim |-> claimCount[u]]
    BY DEF LeaseInv, LeaseAgreement
<1>3. receipt[lease[t]].turn = t /\ receipt[lease[t]].turn = u
    BY <1>1, <1>2
<1> QED BY <1>3

\* What the rows are after the admission of a call.
LEMMA AcceptedRow ==
    ASSUME ToolInv, NEW c \in Calls, NEW t \in Turns, NEW tok \in Tokens, NEW at, AcceptCall(c, t, tok, at)
    PROVE  /\ call'[c].turn = t /\ call'[c].tok = tok /\ call'[c].status = "pending"
           /\ call[c].status = "none" /\ card' = card /\ card[c].state = "none"
           /\ work'[c] = IF c \in Sensitive THEN "next" ELSE "admitted"
           /\ lease[t] = tok /\ status[t] \in {"running", "cancelling"}
           /\ seen[tok] # NotSeen /\ tok \notin halted /\ vars' = vars
BY DEF AcceptCall, Advance, Fenced, ToolInv, ToolTypeOK, CallsAreOwned

LEMMA QuietNext ==
    ASSUME TypeOK, LeaseInv, ToolInv, QuietInv, [ToolNext]_allVars, [Next]_vars
    PROVE  QuietInv'
<1> USE LeaseConstants
<1>a. RecoveredFirst'
    <2> SUFFICES ASSUME NEW t \in Turns, lease'[t] \in Tokens, seen'[lease'[t]] # NotSeen,
                        NEW c \in Calls, call'[c].status = "pending", call'[c].turn = t
                 PROVE  call'[c].tok = lease'[t]
        BY DEF RecoveredFirst, OpenCalls, Open
    <2>1. CASE lease'[t] # lease[t]
        <3>1. receipt[lease'[t]].turn = NoTurn /\ seen' = seen
            BY <2>1, LeaseMoves DEF Unspent
        <3> QED BY <3>1 DEF QuietInv, SeenIsClaimed
    <2>2. CASE lease'[t] = lease[t] /\ seen[lease[t]] = NotSeen
        <3>1. PICK u \in Turns, at \in Stamps : DriveGenerates(u, lease[t], at)
            BY <2>2, SeenMoves
        <3>2. lease[u] = lease[t] /\ ~Recovering(u, lease[t]) /\ call' = call
            BY <3>1 DEF DriveGenerates, Generate, toolVars
        <3>3. u = t
            BY <3>2, <2>2, OneTurnPerToken
        <3>4. OpenCalls(t) = {}
            BY <3>2, <3>3, <2>2 DEF Recovering
        <3> QED BY <3>2, <3>4 DEF OpenCalls, Open
    <2>3. CASE lease'[t] = lease[t] /\ seen[lease[t]] # NotSeen
        <3>1. CASE Kept(c)
            <4>1. c \in OpenCalls(t) /\ call'[c].tok = call[c].tok
                BY <3>1 DEF Kept, OpenCalls, Open
            <4> QED BY <4>1, <2>3 DEF QuietInv, RecoveredFirst
        <3>2. ASSUME NEW u \in Turns, NEW tok \in Tokens, NEW at \in Stamps, AcceptCall(c, u, tok, at)
              PROVE  call'[c].tok = lease'[t]
            BY <3>2, <2>3, AcceptedRow
        <3> QED BY <3>1, <3>2, ToolStepKeeps
    <2> QED BY <2>1, <2>2, <2>3
<1>b. SeenIsClaimed'
    <2> SUFFICES ASSUME NEW tok \in Tokens, seen'[tok] # NotSeen PROVE receipt'[tok].turn \in Turns
        BY DEF SeenIsClaimed
    <2>1. receipt[tok].turn \in Turns
        <3>1. CASE seen'[tok] = seen[tok]
            BY <3>1 DEF QuietInv, SeenIsClaimed
        <3>2. CASE seen'[tok] # seen[tok]
            <4>1. PICK t \in Turns : lease[t] = tok
                BY <3>2, SeenMoves DEF DriveGenerates, Generate
            <4> QED BY <4>1, OneTurnPerToken
        <3> QED BY <3>1, <3>2
    <2> QED BY <2>1, EvidenceKept
<1>c. DoneIsClosed'
    <2> SUFFICES ASSUME NEW c \in Calls, work'[c] = "done", call'[c].status = "pending"
                 PROVE  call'[c].tok \in halted'
        BY DEF DoneIsClosed, Open
    <2>1. Kept(c) /\ halted \subseteq halted'
        BY ToolStepKeeps, AcceptedRow
    <2> QED BY <2>1 DEF Kept, QuietInv, DoneIsClosed, Open
<1>d. PendingCardIsOpen'
    <2> SUFFICES ASSUME NEW c \in Calls, card'[c].state = "pending" PROVE call'[c].status = "pending"
        BY DEF PendingCardIsOpen, Open
    <2>1. Kept(c)
        BY ToolStepKeeps, AcceptedRow
    <2> QED BY <2>1 DEF Kept, QuietInv, PendingCardIsOpen, Open
<1>e. CompletedTurnIsQuiet'
    <2> SUFFICES ASSUME NEW t \in Turns, status'[t] = "completed", NEW c \in Calls, call'[c].turn = t
                 PROVE  call'[c].status # "pending"
        BY <1>d DEF CompletedTurnIsQuiet, PendingCardIsOpen, Open
    <2>1. CASE status[t] = "completed"
        <3>1. CASE Kept(c)
            BY <3>1, <2>1 DEF Kept, QuietInv, CompletedTurnIsQuiet, Open
        <3>2. ASSUME NEW u \in Turns, NEW tok \in Tokens, NEW at \in Stamps, AcceptCall(c, u, tok, at)
              PROVE  FALSE
            BY <3>2, <2>1, AcceptedRow
        <3> QED BY <3>1, <3>2, ToolStepKeeps
    <2>2. CASE status[t] # "completed"
        <3>1. PICK tok \in Tokens : DriveAnswers(t, tok) /\ CompleteTurn(t, tok)
            BY <2>2, CompletionIsAnswer
        <3>2. lease[t] = tok /\ revision[t] = seen[tok]
            BY <3>1 DEF CompleteTurn, Held, Leased, OutputCurrent
        <3>3. seen[tok] # NotSeen
            BY <3>2 DEF TypeOK, NotSeen
        <3>4. call' = call /\ tok \notin halted /\ \A d \in Own(tok) : work[d] = "done"
            BY <3>1 DEF DriveAnswers, StepFinished
        <3>5. ASSUME call[c].status = "pending" PROVE FALSE
            <4>1. c \in OpenCalls(t)
                BY <3>4, <3>5 DEF OpenCalls, Open
            <4>2. call[c].tok = tok
                BY <4>1, <3>2, <3>3 DEF QuietInv, RecoveredFirst
            <4>3. work[c] = "done"
                BY <4>2, <3>4 DEF Own
            <4> QED BY <4>2, <4>3, <3>4, <3>5 DEF QuietInv, DoneIsClosed, Open
        <3> QED BY <3>4, <3>5
    <2> QED BY <2>1, <2>2
<1> QED BY <1>a, <1>b, <1>c, <1>d, <1>e DEF QuietInv

LEMMA QuietInvariant == ToolSpec => [](TypeOK /\ LeaseInv /\ ToolInv /\ QuietInv)
<1>1. ToolInit => QuietInv
    BY LeaseConstants DEF ToolInit, Init, QuietInv, RecoveredFirst, SeenIsClaimed, DoneIsClosed, PendingCardIsOpen,
        CompletedTurnIsQuiet, OpenCalls, Open
<1>2. TypeOK /\ Stamped /\ LeaseInv /\ ToolInv /\ QuietInv /\ [ToolNext]_allVars => QuietInv'
    BY QuietNext, ToolNextLease
<1>3. ToolSpec => [](TypeOK /\ LeaseInv)
    BY ToolsRefineLease, LeaseInvariant, PTL
<1> QED BY <1>1, <1>2, <1>3, ToolsAreTyped, PTL DEF ToolSpec

\* No turn completes over an open call or an open card: the worker that
\* completes it closed what its predecessors left and finished its own, although
\* complete_turn looks at neither.
THEOREM CompletedTurnsAreQuiet == ToolSpec => []CompletedTurnIsQuiet
BY QuietInvariant, PTL DEF QuietInv

LEMMA AloneNext ==
    ASSUME TypeOK, LeaseInv, ToolInv, QuietInv, AloneInv, [ToolNext]_allVars
    PROVE  AloneInv'
<1> USE ToolConstants
<1>1. CardIsGated'
    <2> SUFFICES ASSUME NEW c \in Calls, work'[c] = "asking" \/ card'[c].state # "none"
                 PROVE  c \in Gated
        BY DEF CardIsGated, Gated
    <2>1. Kept(c)
        BY ToolStepKeeps, AcceptedRow
    <2> QED BY <2>1 DEF Kept, AloneInv, CardIsGated
<1>2. ASSUME NEW c \in Sensitive PROVE work'[c] # "admitted"
    <2>1. c \in Calls /\ work[c] # "admitted"
        BY DEF AloneInv, SensitiveIsAlone
    <2> QED BY <2>1, ToolStepKeeps, AcceptedRow DEF Kept
<1>o. ASSUME NEW c \in Calls, NEW t \in Turns, NEW tok \in Tokens, NEW at, AcceptCall(c, t, tok, at),
             NEW d \in Calls, Open(d), call[d].turn = t
      PROVE  call[d].tok = tok /\ work[d] # "done"
    <2>1. lease[t] = tok /\ seen[tok] # NotSeen /\ tok \notin halted
        BY <1>o, AcceptedRow
    <2>2. d \in OpenCalls(t)
        BY <1>o DEF OpenCalls
    <2>3. call[d].tok = tok
        BY <2>1, <2>2 DEF QuietInv, RecoveredFirst
    <2> QED BY <2>1, <2>3, <1>o DEF QuietInv, DoneIsClosed
<1>3. ASSUME NEW c \in Sensitive, NEW d \in Calls \ {c},
             call'[c].status = "pending", call'[d].status = "pending", call'[c].turn = call'[d].turn
      PROVE  FALSE
    <2>0. c \in Calls
        OBVIOUS
    <2>1. CASE Kept(c) /\ Kept(d)
        BY <2>1, <1>3 DEF Kept, AloneInv, SensitiveIsAlone, Open
    <2>2. ASSUME NEW t \in Turns, NEW tok \in Tokens, NEW at \in Stamps, AcceptCall(c, t, tok, at)
          PROVE  FALSE
        <3>1. call'[d] = call[d] /\ call'[c].turn = t
            BY <2>2, <1>3, <2>0 DEF AcceptCall, ToolInv, ToolTypeOK
        <3>2. call[d].tok = tok /\ work[d] # "done"
            BY <3>1, <2>2, <1>3, <1>o, <2>0 DEF Open
        <3> QED BY <3>2, <2>2 DEF AcceptCall, MayAdmit, StepFinished, Own
    <2>3. ASSUME NEW t \in Turns, NEW tok \in Tokens, NEW at \in Stamps, AcceptCall(d, t, tok, at)
          PROVE  FALSE
        <3>1. call'[c] = call[c] /\ call'[d].turn = t
            BY <2>3, <1>3, <2>0 DEF AcceptCall, ToolInv, ToolTypeOK
        <3>2. call[c].tok = tok /\ work[c] # "done"
            BY <3>1, <2>3, <1>3, <1>o, <2>0 DEF Open
        <3>3. work[c] # "admitted"
            BY DEF AloneInv, SensitiveIsAlone
        <3> QED BY <3>2, <3>3, <2>3, <2>0 DEF AcceptCall, MayAdmit, StepFinished, StillAdmitting, Own
    <2> QED BY <2>0, <2>1, <2>2, <2>3, ToolStepKeeps
<1> QED BY <1>1, <1>2, <1>3 DEF AloneInv, SensitiveIsAlone, Open

\* Where the permission mode gates sensitive calls only (Auto and Allow, or Ask
\* without workspace tools), the assumption resume_pending_server_calls states is
\* true: an approval-bearing call is never one of several open calls, so no claim
\* finds a batch it must refuse.  MCTurnTools_batch shows the other case.
THEOREM SensitiveRecoveryIsUnambiguous ==
    ASSUME Gated \subseteq Sensitive
    PROVE  ToolSpec => []RecoveryIsUnambiguous
<1>1. ToolInit => AloneInv
    BY ToolConstants DEF ToolInit, AloneInv, CardIsGated, SensitiveIsAlone, Open
<1>2. TypeOK /\ LeaseInv /\ ToolInv /\ QuietInv /\ AloneInv /\ [ToolNext]_allVars => AloneInv'
    BY AloneNext
<1>3. AloneInv => RecoveryIsUnambiguous
    <2> SUFFICES ASSUME AloneInv, NEW t \in Turns, Ambiguous(t) PROVE FALSE
        BY DEF RecoveryIsUnambiguous
    <2>1. PICK c \in OpenCalls(t) : Bears(c)
        BY DEF Ambiguous
    <2>2. c \in Sensitive
        BY <2>1 DEF Bears, AloneInv, CardIsGated, OpenCalls
    <2>3. OpenCalls(t) = {c}
        BY <2>1, <2>2 DEF AloneInv, SensitiveIsAlone, OpenCalls
    <2> QED BY <2>3, FS_Singleton DEF Ambiguous
<1> QED BY <1>1, <1>2, <1>3, QuietInvariant, PTL DEF ToolSpec

=============================================================================
