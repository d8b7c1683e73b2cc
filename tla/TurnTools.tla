------------------------------ MODULE TurnTools ------------------------------
(***************************************************************************)
(* The tool calls of a durable turn and the consent they wait for, on top  *)
(* of TurnLease: the worker that holds the lease admits each call its      *)
(* model makes, asks for approval where the chat's permission mode gates   *)
(* the tool, runs it, and records the result; the user and the Auto-mode   *)
(* judge decide the cards; cancelling, failing and reclaiming the turn     *)
(* close what is open.                                                     *)
(*                                                                         *)
(* Source: crates/tidebreak-core/src/agent/dispatch.rs and turn.rs (the    *)
(* worker), db/ops/client_execution.rs and db/ops/approval.rs (the rows),  *)
(* crates/tidebreak-server/src/approvals.rs (the broker a worker waits on).*)
(*                                                                         *)
(* `call' and `card' are rows.  `work', `halted' and `effects' are not:    *)
(* they are how far a worker process is with a call it admitted, whether   *)
(* its cancel token is tripped, and how often the tool really ran.  A      *)
(* worker whose lease was taken keeps its `work' and may still move.       *)
(***************************************************************************)
EXTENDS TurnLease

CONSTANTS
    Mode,       \* the chat's PermissionMode
    Calls,      \* tool call ids, fresh for every call a model makes
    Sensitive,  \* calls of ApprovalClass::Sensitive, admitted one at a time
    ReadOnly    \* calls of ApprovalClass::ReadOnly, which may overlap

ASSUME ToolConstants ==
    /\ Mode \in {"ask", "auto", "allow"}
    /\ Sensitive \subseteq Calls
    /\ ReadOnly \subseteq Calls \ Sensitive
    /\ "approval" \in Batches

VARIABLES
    call,     \* tool_call by id: status, turn and turn_lease_token
    card,     \* approval by call id: state and auto_judge_status
    granted,  \* a standing grant covers the gated calls
    work,     \* by call: where the worker that admitted it stands
    halted,   \* workers whose cancel token is tripped or whose drive is over
    effects   \* by call: how many times the tool ran

toolVars == <<call, card, granted, work, halted, effects>>
allVars == <<vars, toolVars>>

CallRows == [status : {"none", "pending", "completed", "failed", "cancelled"},
             turn : Turns \cup {NoTurn}, tok : Tokens \cup {NoToken}]
CardRows == [state : {"none", "pending", "approved", "denied", "abandoned"},
             judge : {"none", "judging", "declined", "approved"}]
\* "asking" covers the registration of the request and the wait for its decision:
\* both read the row, and a registration whose answer was lost is repeated.
\* "admitted" turns "next" when its step stops admitting calls and starts one.
Stages == {"none", "admitted", "next", "asking", "cleared", "ran", "refused", "done"}

-----------------------------------------------------------------------------
(* Reading the rows.                                                       *)

\* The calls the permission mode parks on a card: neither read-only nor
\* sensitive is ApprovalClass::Workspace.
Gated == CASE Mode = "ask" -> Calls \ ReadOnly
           [] Mode = "auto" -> Sensitive
           [] OTHER -> {}

Open(c) == call[c].status = "pending"
OpenCalls(t) == {c \in Calls : Open(c) /\ call[c].turn = t}
Own(tok) == {c \in Calls : call[c].tok = tok}

\* Between two tools: what the drive has admitted it has not started.
BetweenTools(tok) == \A c \in Own(tok) : work[c] \in {"admitted", "next", "done"}
\* The drive has finished every call it admitted, and is still in charge.
StepFinished(tok) == tok \notin halted /\ \A c \in Own(tok) : work[c] = "done"

-----------------------------------------------------------------------------
(* Effects shared by the operations.                                       *)

Settled(c, state) == [card[c] EXCEPT !.state = state]
SettleCard(c, state) ==
    card' = [card EXCEPT ![c] = IF @.state = "pending" THEN Settled(c, state) ELSE @]

\* Mutant of RevokeCards: the cards stay open while the worker winds down.
RevokeCards_None(t) == UNCHANGED card

\* reject_pending_for_cancelling_turn_on: unresolved consent is denied, the
\* calls are left to the worker.
RevokeCards(t) ==
    card' = [c \in Calls |-> IF call[c].turn = t /\ card[c].state = "pending"
                               THEN Settled(c, "denied") ELSE card[c]]

\* close_pending_for_terminal_turn_on.
CloseCalls(t) ==
    /\ call' = [c \in Calls |-> IF c \in OpenCalls(t)
                                  THEN [call[c] EXCEPT !.status = "cancelled"] ELSE call[c]]
    /\ card' = [c \in Calls |-> IF call[c].turn = t /\ card[c].state = "pending"
                                  THEN Settled(c, "abandoned") ELSE card[c]]

\* The worker's drive is over: it works on nothing any more.
EndDrive(tok) ==
    /\ halted' = halted \cup {tok}
    /\ work' = [c \in Calls |-> IF c \in Own(tok) THEN "done" ELSE work[c]]

Advance(c, stage) == work' = [work EXCEPT ![c] = stage]
Halt(tok) == halted' = halted \cup {tok}

-----------------------------------------------------------------------------
(* The worker: admitting calls.                                            *)

StillAdmitting(tok) == \A c \in Own(tok) : work[c] \in {"admitted", "done"}

\* Mutant of MayAdmit: sensitive calls are admitted with their siblings.
MayAdmit_Batched(c, tok) == StillAdmitting(tok)

\* A step's plain calls are all admitted before the first of them runs; a
\* sensitive call is admitted once the others are over.
MayAdmit(c, tok) == IF c \in Sensitive THEN StepFinished(tok) ELSE StillAdmitting(tok)

\* accept_claimed_tool_call.  A worker whose token is already tripped may get here
\* too: the step reads nothing the trip writes, so it is modelled before it.
AcceptCall(c, t, tok, at) ==
    /\ call[c].status = "none"
    /\ seen[tok] # NotSeen
    /\ tok \notin halted
    /\ MayAdmit(c, tok)
    /\ Fenced(t, tok, at)
    /\ call' = [call EXCEPT ![c] = [status |-> "pending", turn |-> t, tok |-> tok]]
    /\ Advance(c, IF c \in Sensitive THEN "next" ELSE "admitted")
    /\ UNCHANGED <<vars, card, granted, halted, effects>>

\* Only read-only calls overlap.
MayStart(c) ==
    /\ work[c] \in {"admitted", "next"}
    /\ \A d \in Own(call[c].tok) \ {c} :
         work[d] \in {"admitted", "next", "done"} \/ {c, d} \subseteq ReadOnly

\* The step takes up `c' and admits no further plain call.
Begin(c, stage) ==
    work' = [d \in Calls |->
               IF d = c THEN stage
               ELSE IF d \in Own(call[c].tok) /\ work[d] = "admitted" THEN "next"
               ELSE work[d]]

\* execute_server_call past its lease fence, and run_tool up to the gate.  The
\* worker's in-memory grants are never filled, so every gated call reaches it.
StartCall(c, at) ==
    /\ MayStart(c)
    /\ call[c].tok \notin halted
    /\ Fenced(call[c].turn, call[c].tok, at)
    /\ Begin(c, IF c \in Gated THEN "asking" ELSE "cleared")
    /\ UNCHANGED <<vars, call, card, granted, halted, effects>>

\* execute_server_call and run_tool answering without running: the call repeats
\* itself, its tool or arguments are not valid, the event journal the request
\* must be announced in is gone, or the cancel token is tripped.
RefuseCall(c) ==
    /\ \/ MayStart(c)
       \/ work[c] = "asking"
       \/ work[c] = "cleared" /\ call[c].tok \in halted
    /\ Begin(c, "refused")
    /\ UNCHANGED <<vars, call, card, granted, halted, effects>>

-----------------------------------------------------------------------------
(* The worker: consent.                                                    *)

\* The request is still the business of a running turn's own worker.
Requestable(c) ==
    /\ Open(c)
    /\ status[call[c].turn] = "running"
    /\ Fenced(call[c].turn, call[c].tok, now)

\* request_and_append_event, where no standing grant covers the call: the card
\* and the event that announces it are one transaction.  Auto mode may offer the
\* card to the judge.
RequestApproval(c, judge) ==
    /\ work[c] = "asking"
    /\ judge = "judging" => Mode = "auto"
    /\ card[c].state = "none"
    /\ Requestable(c)
    /\ ~granted
    /\ Journaled(call[c].turn, call[c].tok, "approval") < MaxRows
    /\ card' = [card EXCEPT ![c] = [state |-> "pending", judge |-> judge]]
    /\ Record(call[c].turn, "approval", call[c].tok)
    /\ UNCHANGED <<now, rowVars, receipt, scanned, failure, openWait, steer, seen,
                   call, granted, work, halted, effects>>

\* The same, where one does: the card is born approved and nothing is announced.
RequestGranted(c) ==
    /\ work[c] = "asking"
    /\ card[c].state = "none"
    /\ Requestable(c)
    /\ granted
    /\ card' = [card EXCEPT ![c].state = "approved"]
    /\ UNCHANGED <<vars, call, granted, work, halted, effects>>

\* The same, refused: the broker answers with a rejection.
RequestConflict(c) ==
    /\ work[c] = "asking"
    /\ card[c].state = "none"
    /\ ~Requestable(c)
    /\ Advance(c, "refused")
    /\ UNCHANGED <<vars, call, card, granted, halted, effects>>

\* Mutant of Consents: any settlement wakes the waiter.
Consents_Settled(c) == card[c].state \notin {"none", "pending"}

Consents(c) == card[c].state = "approved"

\* The broker's waiter reads a settled card; cancellation wins a tie.
ReadDecision(c) ==
    /\ work[c] = "asking"
    /\ card[c].state \notin {"none", "pending"}
    /\ call[c].tok \notin halted
    /\ Advance(c, IF Consents(c) THEN "cleared" ELSE "refused")
    /\ UNCHANGED <<vars, call, card, granted, halted, effects>>

-----------------------------------------------------------------------------
(* The worker: running the tool and recording its result.                  *)

\* run_tool past its last cancellation check.
RunTool(c) ==
    /\ work[c] = "cleared"
    /\ call[c].tok \notin halted
    /\ effects' = [effects EXCEPT ![c] = @ + 1]
    /\ Advance(c, "ran")
    /\ UNCHANGED <<vars, call, card, granted, halted>>

\* resolve_tool_call under the admitting lease.
ResolveCall(c, result, at) ==
    /\ \/ work[c] = "ran"
       \/ work[c] = "refused" /\ result = "failed"
    /\ Open(c)
    /\ Fenced(call[c].turn, call[c].tok, at)
    /\ call' = [call EXCEPT ![c].status = result]
    /\ SettleCard(c, "abandoned")
    /\ Advance(c, "done")
    /\ UNCHANGED <<vars, granted, halted, effects>>

\* The same, refused: the lease is lost or somebody closed the call, and the
\* drive ends in an error.
ResolveLost(c, at) ==
    /\ work[c] \in {"ran", "refused"}
    /\ ~Open(c) \/ ~Fenced(call[c].turn, call[c].tok, at)
    /\ EndDrive(call[c].tok)
    /\ UNCHANGED <<vars, call, card, granted, effects>>

\* heartbeat_lease: the worker learns that its turn is cancelled or its lease
\* is gone, and trips its cancel token.
NoticeLoss(t, tok, at) ==
    /\ receipt[tok].turn = t
    /\ tok \notin halted
    /\ ~(status[t] = "running" /\ lease[t] = tok /\ expires[t] > at)
    /\ Halt(tok)
    /\ UNCHANGED <<vars, call, card, granted, work, effects>>

-----------------------------------------------------------------------------
(* The worker: what an earlier claim left behind.                          *)

Bears(c) == card[c].state # "none" \/ c \in Sensitive

\* resume_pending_server_calls refuses to choose among several open calls when
\* one of them bears an approval.
Ambiguous(t) == /\ \E c \in OpenCalls(t) : Bears(c)
                /\ Cardinality(OpenCalls(t)) # 1

\* Mutant of Recovering: the first model call does not wait for it.
Recovering_Never(t, tok) == FALSE

Recovering(t, tok) == seen[tok] = NotSeen /\ OpenCalls(t) # {}

\* Mutant of AbandonInherited: the next worker takes the call over and runs it.
AbandonInherited_Replays(c, t, tok, at) ==
    /\ c \in OpenCalls(t)
    /\ Recovering(t, tok)
    /\ tok \notin halted
    /\ ~Ambiguous(t)
    /\ Fenced(t, tok, at)
    /\ call' = [call EXCEPT ![c].tok = tok]
    /\ Advance(c, "admitted")
    /\ UNCHANGED <<vars, card, granted, halted, effects>>

\* resume_pending_server_calls: an inherited call is never run again.
AbandonInherited(c, t, tok, at) ==
    /\ c \in OpenCalls(t)
    /\ Recovering(t, tok)
    /\ tok \notin halted
    /\ ~Ambiguous(t)
    /\ Fenced(t, tok, at)
    /\ call' = [call EXCEPT ![c].status = "failed"]
    /\ SettleCard(c, "abandoned")
    /\ UNCHANGED <<vars, granted, work, halted, effects>>

\* resume_pending_server_calls giving up.
RefuseRecovery(t, tok) ==
    /\ receipt[tok].turn = t
    /\ tok \notin halted
    /\ Recovering(t, tok)
    /\ Ambiguous(t)
    /\ EndDrive(tok)
    /\ UNCHANGED <<vars, call, card, granted, effects>>

-----------------------------------------------------------------------------
(* The user and the judge.                                                 *)

Decidable(c) == card[c].state = "pending" /\ Open(c)

\* decide and, with `remember', decide_with_grant.  A judge that has not
\* answered is released.
Decide(c, state, remember) ==
    /\ Decidable(c)
    /\ remember => state = "approved"
    /\ card' = [card EXCEPT ![c] =
                  [state |-> state, judge |-> IF @.judge = "judging" THEN "none" ELSE @.judge]]
    /\ granted' = (granted \/ remember)
    /\ UNCHANGED <<vars, call, work, halted, effects>>

\* Mutant of JudgeOwns: the marker alone.
JudgeOwns_Marker(c) == card[c].judge = "judging" /\ Open(c)

JudgeOwns(c) == Decidable(c) /\ card[c].judge = "judging"

\* resolve_from_judge: a decline only moves the marker.
JudgeApproves(c) ==
    /\ JudgeOwns(c)
    /\ card' = [card EXCEPT ![c] = [state |-> "approved", judge |-> "approved"]]
    /\ UNCHANGED <<vars, call, granted, work, halted, effects>>
JudgeDeclines(c) ==
    /\ JudgeOwns(c)
    /\ card' = [card EXCEPT ![c].judge = "declined"]
    /\ UNCHANGED <<vars, call, granted, work, halted, effects>>

\* revoke_standing_grant.
RevokeGrant ==
    /\ granted
    /\ granted' = FALSE
    /\ UNCHANGED <<vars, call, card, work, halted, effects>>

-----------------------------------------------------------------------------
(* The operations of TurnLease, with what they do to calls and cards.      *)

\* Operations that touch no call and end no drive.
LeaseSteps(t) ==
    /\ \/ WaitStep(t)
       \/ \E at \in Stamps : \/ AcceptTurn(t, at)
                             \/ CancelClaimedClientWait(t, at)
                             \/ \E tok \in Tokens :
                                  \/ Heartbeat(t, tok, at)
                                  \/ "progress" \in Batches /\ AppendTurnEvents(t, tok, "progress", at)
                                  \/ ClaimScan(t, tok, at)
                             \/ \E s \in Steers : SteerStep(s, t, at)
    /\ UNCHANGED toolVars

\* A model call is built once recovery is over and no tool is running.
DriveGenerates(t, tok, at) ==
    /\ Generate(t, tok, at)
    /\ ~Recovering(t, tok)
    /\ StepFinished(tok)
    /\ UNCHANGED toolVars

\* The drive's answer ends the segment: completion, a park or a spawn.
DriveAnswers(t, tok) ==
    /\ StepFinished(tok)
    /\ \/ CompleteTurn(t, tok)
       \/ ParkForAgentRuns(t, tok)
       \/ CheckpointSpawn(t, tok)
       \/ \E at \in Stamps : ParkForClient(t, tok, at)
    /\ EndDrive(tok)
    /\ UNCHANGED <<call, card, granted, effects>>

\* The drive failed and the turn will be retried: its calls stay open.
DriveRetries(t, tok) ==
    /\ BetweenTools(tok)
    /\ \E retryAt \in (now + 1)..(now + RetryDelay) : RetryLater(t, tok, retryAt)
    /\ EndDrive(tok)
    /\ UNCHANGED <<call, card, granted, effects>>

\* The drive failed for good, or stopped because the turn is cancelled.
DriveStops(t, tok) ==
    /\ BetweenTools(tok)
    /\ FailTurn(t, tok) \/ FinishCancellation(t, tok)
    /\ CloseCalls(t)
    /\ EndDrive(tok)
    /\ UNCHANGED <<granted, effects>>

\* drain_for_update aborts the drives, then hands the leases back.
DriveDrained(t, tok, at) ==
    /\ ExpireLease(t, tok, at)
    /\ EndDrive(tok)
    /\ UNCHANGED <<call, card, granted, effects>>

\* request_turn_cancellation, of a turn a worker is driving and of one it is not.
UserCancels(t, at) ==
    \/ /\ CancelRunning(t, at)
       /\ RevokeCards(t)
       /\ UNCHANGED <<call, granted, work, halted, effects>>
    \/ /\ CancelIdle(t, at) \/ CancelUnclaimedClientWait(t, at) \/ CancelAgentRunWait(t, at)
       /\ CloseCalls(t)
       /\ UNCHANGED <<granted, work, halted, effects>>

ToolInit ==
    /\ Init
    /\ call = [c \in Calls |-> [status |-> "none", turn |-> NoTurn, tok |-> NoToken]]
    /\ card = [c \in Calls |-> [state |-> "none", judge |-> "none"]]
    /\ granted = FALSE
    /\ work = [c \in Calls |-> "none"]
    /\ halted = {}
    /\ effects = [c \in Calls |-> 0]

\* The worker that admitted `c', and whoever decides its card.
CallStep(c) ==
    \/ RefuseCall(c)
    \/ \E judge \in {"none", "judging"} : RequestApproval(c, judge)
    \/ RequestGranted(c)
    \/ RequestConflict(c)
    \/ ReadDecision(c)
    \/ RunTool(c)
    \/ \E at \in Stamps : \/ StartCall(c, at)
                          \/ ResolveLost(c, at)
                          \/ \E result \in {"completed", "failed"} : ResolveCall(c, result, at)
    \/ \E state \in {"approved", "denied"}, remember \in BOOLEAN : Decide(c, state, remember)
    \/ JudgeApproves(c)
    \/ JudgeDeclines(c)

DriveStep(t, tok) ==
    \/ DriveAnswers(t, tok)
    \/ DriveRetries(t, tok)
    \/ DriveStops(t, tok)
    \/ RefuseRecovery(t, tok)
    \/ \E at \in Stamps : \/ DriveGenerates(t, tok, at)
                          \/ DriveDrained(t, tok, at)
                          \/ NoticeLoss(t, tok, at)
                          \/ \E c \in Calls : \/ AcceptCall(c, t, tok, at)
                                              \/ AbandonInherited(c, t, tok, at)

ToolNext ==
    \/ Tick /\ UNCHANGED toolVars
    \/ RevokeGrant
    \/ \E c \in Calls : CallStep(c)
    \/ \E t \in Turns : \/ LeaseSteps(t)
                        \/ \E at \in Stamps : UserCancels(t, at)
                        \/ \E tok \in Tokens : DriveStep(t, tok)

ToolSpec == ToolInit /\ [][ToolNext]_allVars

-----------------------------------------------------------------------------
(* Properties.                                                             *)

\* Every row and every worker's local state holds a value of its domain.
ToolTypeOK ==
    /\ call \in [Calls -> CallRows]
    /\ card \in [Calls -> CardRows]
    /\ granted \in BOOLEAN
    /\ work \in [Calls -> Stages]
    /\ halted \subseteq Tokens
    /\ effects \in [Calls -> Nat]

\* A tool that needs consent runs only on a card that says yes, and that card
\* says so for good: not on a denial, not on the settlement a cancellation, a
\* failure or the next worker gave it, whichever of them the waiting worker
\* read and however late it woke (run_tool).
ConsentBeforeEffect ==
    \A c \in Gated : effects[c] > 0 => card[c].state = "approved"

\* A tool runs at most once per call, whatever crashed, was reclaimed or was
\* retried: a successor cannot know whether the tool ran and never runs it
\* again (resume_pending_server_calls).
EffectAtMostOnce == \A c \in Calls : effects[c] <= 1

\* Once a cancellation is accepted, no card of the turn is open: the consent
\* was revoked with it and the worker cannot ask again while it winds down.
NoCardWhileCancelling ==
    \A c \in Calls, t \in Turns :
        status[t] = "cancelling" /\ call[c].turn = t => card[c].state # "pending"

\* A turn is completed only when all its calls have results: the completing
\* worker closed what its predecessors left and finished its own, although
\* complete_turn itself looks at neither.
CompletedTurnIsQuiet ==
    \A t \in Turns : status[t] = "completed" =>
        \A c \in Calls : call[c].turn = t => ~Open(c) /\ card[c].state # "pending"

\* A card is decided once.  No verdict of the judge, no user and no sweep
\* changes what another already settled.
DecisionIsFinal ==
    [][\A c \in Calls : card[c].state \notin {"none", "pending"} =>
          card'[c].state = card[c].state]_allVars

\* The inductive invariant behind the properties of the effects: a call a worker
\* is at belongs to it and has a row, nothing ran before the stage "ran", and
\* what is cleared to run has its consent.
CallsAreOwned ==
    \A c \in Calls :
        /\ work[c] # "none" <=> call[c].tok \in Tokens
        /\ call[c].tok \in Tokens => call[c].turn \in Turns
        /\ call[c].status = "none" => work[c] = "none" /\ card[c].state = "none"
NothingRanYet ==
    \A c \in Calls : work[c] \notin {"ran", "done"} => effects[c] = 0
ClearedHasConsent ==
    \A c \in Gated : work[c] = "cleared" => card[c].state = "approved"
ToolInv ==
    /\ ToolTypeOK
    /\ CallsAreOwned
    /\ NothingRanYet
    /\ ClearedHasConsent
    /\ EffectAtMostOnce
    /\ ConsentBeforeEffect

\* The inductive invariant behind CompletedTurnIsQuiet: a worker that has built a
\* model call has closed what its predecessors left open, the calls a live drive
\* is done with are closed, and so is every call whose card is.
RecoveredFirst ==
    \A t \in Turns : lease[t] \in Tokens /\ seen[lease[t]] # NotSeen =>
        \A c \in OpenCalls(t) : call[c].tok = lease[t]
SeenIsClaimed == \A tok \in Tokens : seen[tok] # NotSeen => receipt[tok].turn \in Turns
DoneIsClosed == \A c \in Calls : work[c] = "done" /\ Open(c) => call[c].tok \in halted
PendingCardIsOpen == \A c \in Calls : card[c].state = "pending" => Open(c)
QuietInv ==
    /\ RecoveredFirst
    /\ SeenIsClaimed
    /\ DoneIsClosed
    /\ PendingCardIsOpen
    /\ CompletedTurnIsQuiet

\* What resume_pending_server_calls takes for granted: "An approval-bearing call
\* is admitted only once every sibling in its step is terminal", so a worker
\* that claims a turn finds no batch it must refuse.
RecoveryIsUnambiguous ==
    \A t \in Turns, tok \in Tokens :
        status[t] = "running" /\ lease[t] = tok /\ Recovering(t, tok) => ~Ambiguous(t)

\* The inductive invariant behind it: cards are for gated calls, and a sensitive
\* call is never in a batch.
CardIsGated ==
    \A c \in Calls : work[c] = "asking" \/ card[c].state # "none" => c \in Gated
SensitiveIsAlone ==
    \A c \in Sensitive :
        /\ work[c] # "admitted"
        /\ \A d \in Calls \ {c} : Open(c) /\ Open(d) => call[c].turn # call[d].turn
AloneInv == CardIsGated /\ SensitiveIsAlone
=============================================================================
