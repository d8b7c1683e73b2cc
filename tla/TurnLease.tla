------------------------------ MODULE TurnLease ------------------------------
(***************************************************************************)
(* The durable turn of tidebreak's chat lane: one row per accepted turn,   *)
(* leased by one poll of a turn worker at a time, recovered from crashed   *)
(* workers by the claim scan, cancelled and steered by the user while it   *)
(* runs, and settled exactly once.                                         *)
(*                                                                         *)
(* Source: crates/tidebreak-core/src/db/ops/turn.rs and turn/*.rs.  Every  *)
(* operation there is one database transaction under the chat and turn     *)
(* write locks, so every operation is one action here.  What is not atomic *)
(* is the caller: a worker reads the clock, is descheduled, and runs its   *)
(* transaction later, so an operation that trusts its caller's clock is    *)
(* stamped with any recent time (Stamps).  Operations that read the        *)
(* database clock after taking their locks are stamped `now'.              *)
(*                                                                         *)
(* A worker is identified by the poll token it claimed with.  It has no    *)
(* state of its own beyond `seen': a worker that crashed is a token that   *)
(* never acts again, and a worker that lost its lease is a token that      *)
(* keeps acting.                                                           *)
(***************************************************************************)
EXTENDS Integers, Sequences, FiniteSets

CONSTANTS
    Turns,       \* turn ids
    Chats,       \* conversations
    ChatOf,      \* the conversation each turn is submitted to
    Tokens,      \* poll tokens: one fresh UUID per poll of a turn worker
    Steers,      \* steer ids, naturals so that equal timestamps tie-break by id
    NoToken,     \* the NULL lease token
    NoTurn,      \* the NULL turn id
    Batches,     \* kinds of rows a worker journals before the turn settles
    MaxAttempts, \* TurnRun::DEFAULT_MAX_ATTEMPTS
    LeaseTime,   \* how far ahead of its caller's clock a lease expires
    RetryDelay,  \* the longest back-off a failed attempt asks for
    MaxLag,      \* bound: how stale a caller's clock may be
    MaxTime,     \* bound: the clock stops here, and no lease outlives it
    MaxClaims,   \* bound: a turn with this many claims does not park again
    MaxRows      \* bound: batches of one kind a claim journals

ASSUME LeaseConstants ==
    /\ ChatOf \in [Turns -> Chats]
    /\ Steers \subseteq Nat
    /\ NoToken \notin Tokens
    /\ NoTurn \notin Turns
    /\ Batches \subseteq {"progress", "approval"}
    /\ MaxAttempts \in Nat \ {0}
    /\ LeaseTime \in Nat \ {0}
    /\ RetryDelay \in Nat \ {0}
    /\ MaxLag \in Nat
    /\ MaxTime \in Nat
    /\ MaxClaims \in Nat
    /\ MaxRows \in Nat

VARIABLES
    now,        \* the wall clock
    status,     \* turn.status, "absent" before the turn is accepted
    attempt,    \* turn.attempt_count
    claimCount, \* turn.claim_count
    lease,      \* turn.lease_token
    expires,    \* turn.lease_expires_at, 0 for NULL
    available,  \* turn.available_at
    updated,    \* turn.updated_at
    revision,   \* turn.steer_revision
    receipt,    \* code_turn_claim by token: the claim the token was granted
    scanned,    \* by token: the turn its poll terminalized (event.scan_token)
    failure,    \* code_turn_failure by token: the result status it recorded
    openWait,   \* park_lease_token of the turn's open wait, if it has one
    steer,      \* code_turn_steer by id: status, turn and creation time
    seen,       \* by token: the steer revision its last model call was built on
    journal     \* by turn: its events in sequence order

rowVars == <<status, attempt, claimCount, lease, expires, available, updated, revision>>
vars == <<now, rowVars, receipt, scanned, failure, openWait, steer, seen, journal>>

TerminalStatuses == {"completed", "failed", "cancelled"}
ParkedStatuses == {"waiting_for_client", "waiting_for_agent_run", "cancelling_client"}
Statuses == {"absent", "queued", "running", "resuming", "retry_wait", "cancelling"}
                \cup ParkedStatuses \cup TerminalStatuses

\* Nothing generated yet under a token.
NotSeen == -1
NoReceipt == [turn |-> NoTurn, attempt |-> 0, claim |-> 0]
Receipts == [turn : Turns \cup {NoTurn}, attempt : Nat, claim : Nat]
SteerRows == [status : {"none", "pending", "applied", "rejected"},
              turn : Turns \cup {NoTurn}, at : Nat]
Kinds == {"progress", "approval", "tool", "steered", "retrying"} \cup TerminalStatuses
\* A journal row: what it says, and the claim of the worker it is attributed to
\* (0 for a row no worker's lease stands behind).
Events == [kind : Kinds, claim : Nat]

-----------------------------------------------------------------------------
(* Reading the clock and the rows.                                         *)

\* What a caller's clock may have said by the time its transaction runs.
Stamps == {at \in 0..now : now - at <= MaxLag}

Active(t) == status[t] \notin TerminalStatuses \cup {"absent"}

\* The row is leased to `tok' and the lease is live at `at'.
Leased(t, tok, at) ==
    /\ status[t] = "running"
    /\ lease[t] = tok
    /\ expires[t] > at
    /\ updated[t] <= at

\* The check a worker's write to the turn makes: a live lease on a running turn
\* whose receipt names this very attempt and claim.
Held(t, tok, at) ==
    /\ Leased(t, tok, at)
    /\ receipt[tok].turn = t
    /\ receipt[tok].attempt = attempt[t]
    /\ receipt[tok].claim = claimCount[t]

\* turn_lease_is_current_on, the fence of a worker's effects beside the turn row
\* (tool calls): it also accepts the lease of a turn being cancelled, and does
\* not compare updated_at.
Fenced(t, tok, at) ==
    /\ receipt[tok] = [turn |-> t, attempt |-> attempt[t], claim |-> claimCount[t]]
    /\ status[t] \in {"running", "cancelling"}
    /\ lease[t] = tok
    /\ expires[t] > at

Pending(s, t) == steer[s].status = "pending" /\ steer[s].turn = t
SteerPending(t) == \E s \in Steers : Pending(s, t)

\* Mutant of OutputCurrent: forgets that a steer may already be applied.
OutputCurrent_AnyRevision(t, tok) == ~SteerPending(t)

\* The generation `tok' wants to commit has seen every steer of the turn.
OutputCurrent(t, tok) == ~SteerPending(t) /\ revision[t] = seen[tok]

\* created_at, then id.
Before(r, s) == \/ steer[r].at < steer[s].at
                \/ steer[r].at = steer[s].at /\ r < s
EarliestPending(s, t) ==
    /\ Pending(s, t)
    /\ \A r \in Steers \ {s} : Pending(r, t) => Before(s, r)

-----------------------------------------------------------------------------
(* Effects shared by the operations.                                       *)

Row(t, kind, tok) ==
    [kind |-> kind, claim |-> IF tok = NoToken THEN 0 ELSE receipt[tok].claim]
Record(t, kind, tok) == journal' = [journal EXCEPT ![t] = Append(@, Row(t, kind, tok))]

RejectPendingSteers(t) ==
    steer' = [s \in Steers |->
                IF Pending(s, t) THEN [steer[s] EXCEPT !.status = "rejected"] ELSE steer[s]]

\* Mutant of ClearLease: the token outlives its expiry.
ClearLease_KeepsToken(t) == expires' = [expires EXCEPT ![t] = 0] /\ UNCHANGED lease

ClearLease(t) == /\ lease' = [lease EXCEPT ![t] = NoToken]
                 /\ expires' = [expires EXCEPT ![t] = 0]

Touch(t, at) == updated' = [updated EXCEPT ![t] = at]

\* Every terminal transition: the lease is gone, no steer stays pending, and
\* the terminal event is journaled in the same transaction.
Settle(t, outcome, tok, at) ==
    /\ status' = [status EXCEPT ![t] = outcome]
    /\ ClearLease(t)
    /\ Touch(t, at)
    /\ RejectPendingSteers(t)
    /\ Record(t, outcome, tok)
    /\ UNCHANGED <<attempt, claimCount, revision, receipt, seen>>

\* Mutant of Resume: writes a status turn_run_status_from_db cannot decode.
Resume_UnknownStatus(t, at) ==
    /\ status' = [status EXCEPT ![t] = "resumed"]
    /\ available' = [available EXCEPT ![t] = at]
    /\ Touch(t, at)

\* The turn becomes claimable again at `at' without costing an attempt.
Resume(t, at) ==
    /\ status' = [status EXCEPT ![t] = "resuming"]
    /\ available' = [available EXCEPT ![t] = at]
    /\ Touch(t, at)

-----------------------------------------------------------------------------
(* Admission.                                                              *)

\* accept_turn: one live turn per conversation.
AcceptTurn(t, at) ==
    /\ status[t] = "absent"
    /\ \A u \in Turns : ChatOf[u] = ChatOf[t] => ~Active(u)
    /\ status' = [status EXCEPT ![t] = "queued"]
    /\ available' = [available EXCEPT ![t] = at]
    /\ Touch(t, at)
    /\ UNCHANGED <<now, attempt, claimCount, lease, expires, revision, receipt, scanned,
                   failure, openWait, steer, seen, journal>>

-----------------------------------------------------------------------------
(* The claim scan.                                                         *)

Due(t, at) ==
    /\ \/ status[t] = "resuming"
       \/ status[t] \in {"queued", "retry_wait"} /\ attempt[t] < MaxAttempts
    /\ available[t] <= at
    /\ updated[t] <= at

\* Mutants of Expired: a live lease counts; a cancelling turn does not.
Expired_LiveToo(t, at) == status[t] \in {"running", "cancelling"} /\ updated[t] <= at
Expired_RunningOnly(t, at) ==
    status[t] = "running" /\ expires[t] <= at /\ updated[t] <= at

Expired(t, at) ==
    /\ status[t] \in {"running", "cancelling"}
    /\ expires[t] <= at
    /\ updated[t] <= at

DueAt(t) == IF status[t] \in {"running", "cancelling"} THEN expires[t] ELSE available[t]

\* The earliest claimable row; equal times are broken by start time and id in
\* the code and by a free choice here.
Candidate(t, at) ==
    /\ Due(t, at) \/ Expired(t, at)
    /\ \A u \in Turns : Due(u, at) \/ Expired(u, at) => DueAt(t) <= DueAt(u)

\* Mutants of Unspent: a retried poll is recognised by one of its two answers.
Unspent_IgnoresReceipt(tok) == scanned[tok] = NoTurn
Unspent_IgnoresScan(tok) == receipt[tok].turn = NoTurn

\* A token that already claimed or terminalized a turn gets that answer again.
Unspent(tok) == receipt[tok].turn = NoTurn /\ scanned[tok] = NoTurn

\* A resumed turn continues its attempt; any other claim starts a new one.
NextAttempt(t) == IF status[t] = "resuming" THEN attempt[t] ELSE attempt[t] + 1

\* Every claim is numbered, resumed or not.
NextClaim(t) == claimCount[t] + 1

\* claim_turn, when the scan grants a lease.
ClaimTurn(t, tok, at) ==
    /\ Unspent(tok)
    /\ Candidate(t, at)
    /\ status[t] # "cancelling"
    /\ status[t] = "running" => attempt[t] < MaxAttempts
    /\ at + LeaseTime <= MaxTime
    /\ receipt' = [receipt EXCEPT ![tok] = [turn |-> t, attempt |-> NextAttempt(t),
                                            claim |-> NextClaim(t)]]
    /\ status' = [status EXCEPT ![t] = "running"]
    /\ attempt' = [attempt EXCEPT ![t] = NextAttempt(t)]
    /\ claimCount' = [claimCount EXCEPT ![t] = NextClaim(t)]
    /\ lease' = [lease EXCEPT ![t] = tok]
    /\ expires' = [expires EXCEPT ![t] = at + LeaseTime]
    /\ Touch(t, at)
    /\ UNCHANGED <<now, available, revision, scanned, failure, openWait, steer, seen, journal>>

\* claim_turn, when the scan meets a cancelling turn whose worker is gone.
ScanCancelled(t, tok, at) ==
    /\ Unspent(tok)
    /\ Candidate(t, at)
    /\ status[t] = "cancelling"
    /\ Settle(t, "cancelled", lease[t], at)
    /\ scanned' = [scanned EXCEPT ![tok] = t]
    /\ UNCHANGED <<now, available, failure, openWait>>

\* Mutant of ScanExhausted: off by one in the attempt budget.
ScanExhausted_OffByOne(t, tok, at) ==
    /\ Unspent(tok)
    /\ Candidate(t, at)
    /\ status[t] = "running"
    /\ attempt[t] > MaxAttempts
    /\ Settle(t, "failed", lease[t], now)
    /\ failure' = [failure EXCEPT ![lease[t]] = "failed"]
    /\ scanned' = [scanned EXCEPT ![tok] = t]
    /\ UNCHANGED <<now, available, openWait>>

\* claim_turn, when the last attempt's lease expired: the turn fails under the
\* dead worker's token and the database clock.
ScanExhausted(t, tok, at) ==
    /\ Unspent(tok)
    /\ Candidate(t, at)
    /\ status[t] = "running"
    /\ attempt[t] >= MaxAttempts
    /\ Settle(t, "failed", lease[t], now)
    /\ failure' = [failure EXCEPT ![lease[t]] = "failed"]
    /\ scanned' = [scanned EXCEPT ![tok] = t]
    /\ UNCHANGED <<now, available, openWait>>

-----------------------------------------------------------------------------
(* The worker that holds the lease.                                        *)

\* heartbeat_turn: extends a live lease, never shortens it.
Heartbeat(t, tok, at) ==
    /\ Leased(t, tok, at)
    /\ expires[t] < at + LeaseTime
    /\ at + LeaseTime <= MaxTime
    /\ expires' = [expires EXCEPT ![t] = at + LeaseTime]
    /\ Touch(t, at)
    /\ UNCHANGED <<now, status, attempt, claimCount, lease, available, revision, receipt,
                   scanned, failure, openWait, steer, seen, journal>>

\* expire_turn_lease: an update drain hands the lease back.
ExpireLease(t, tok, at) ==
    /\ status[t] \in {"running", "cancelling"}
    /\ lease[t] = tok
    /\ expires[t] > at
    /\ expires' = [expires EXCEPT ![t] = at]
    /\ Touch(t, at)
    /\ UNCHANGED <<now, status, attempt, claimCount, lease, available, revision, receipt,
                   scanned, failure, openWait, steer, seen, journal>>

\* durable_turn_revision_retry: the revision the next model call is built on.
Generate(t, tok, at) ==
    /\ status[t] = "running"
    /\ lease[t] = tok
    /\ expires[t] > at
    /\ seen[tok] # revision[t]
    /\ seen' = [seen EXCEPT ![tok] = revision[t]]
    /\ UNCHANGED <<now, rowVars, receipt, scanned, failure, openWait, steer, journal>>

Journaled(t, tok, kind) ==
    Cardinality({i \in 1..Len(journal[t]) : journal[t][i] = Row(t, kind, tok)})

\* Mutants of AppendTurnEvents: the fence trusts the claim receipt alone; it
\* asks only whether the turn runs.
AppendTurnEvents_ReceiptOnly(t, tok, kind, at) ==
    /\ receipt[tok] = [turn |-> t, attempt |-> attempt[t], claim |-> claimCount[t]]
    /\ Journaled(t, tok, kind) < MaxRows
    /\ Record(t, kind, tok)
    /\ UNCHANGED <<now, rowVars, receipt, scanned, failure, openWait, steer, seen>>
AppendTurnEvents_AnyClaim(t, tok, kind, at) ==
    /\ receipt[tok].turn = t /\ status[t] = "running"
    /\ Journaled(t, tok, kind) < MaxRows
    /\ Record(t, kind, tok)
    /\ UNCHANGED <<now, rowVars, receipt, scanned, failure, openWait, steer, seen>>

\* append_turn_events.
AppendTurnEvents(t, tok, kind, at) ==
    /\ Held(t, tok, at)
    /\ Journaled(t, tok, kind) < MaxRows
    /\ Record(t, kind, tok)
    /\ UNCHANGED <<now, rowVars, receipt, scanned, failure, openWait, steer, seen>>

\* complete_turn: refused while a steer is pending or was applied after the
\* generation being committed.  The code also refuses while a sandbox sub-agent
\* the turn started is unsettled; sub-agents are not part of this module, so it
\* allows completion more often than the code.
CompleteTurn(t, tok) ==
    /\ Held(t, tok, now)
    /\ OutputCurrent(t, tok)
    /\ Settle(t, "completed", tok, now)
    /\ UNCHANGED <<now, available, scanned, failure, openWait>>

\* Mutant of RetryLater: forgets the attempt budget.
RetryLater_Unbounded(t, tok, retryAt) ==
    /\ Held(t, tok, now)
    /\ retryAt > now
    /\ status' = [status EXCEPT ![t] = "retry_wait"]
    /\ ClearLease(t)
    /\ available' = [available EXCEPT ![t] = retryAt]
    /\ Touch(t, now)
    /\ failure' = [failure EXCEPT ![tok] = "retry_wait"]
    /\ Record(t, "retrying", tok)
    /\ UNCHANGED <<now, attempt, claimCount, revision, receipt, scanned, openWait, steer, seen>>

\* record_turn_failure with a retry time, inside the attempt budget.
RetryLater(t, tok, retryAt) ==
    /\ Held(t, tok, now)
    /\ retryAt > now
    /\ attempt[t] < MaxAttempts
    /\ status' = [status EXCEPT ![t] = "retry_wait"]
    /\ ClearLease(t)
    /\ available' = [available EXCEPT ![t] = retryAt]
    /\ Touch(t, now)
    /\ failure' = [failure EXCEPT ![tok] = "retry_wait"]
    /\ Record(t, "retrying", tok)
    /\ UNCHANGED <<now, attempt, claimCount, revision, receipt, scanned, openWait, steer, seen>>

\* record_turn_failure, permanent or with the attempt budget spent.
FailTurn(t, tok) ==
    /\ Held(t, tok, now)
    /\ Settle(t, "failed", tok, now)
    /\ failure' = [failure EXCEPT ![tok] = "failed"]
    /\ UNCHANGED <<now, available, scanned, openWait>>

\* finish_turn_cancellation: the owning worker acknowledges; its lease may
\* have expired meanwhile.
FinishCancellation(t, tok) ==
    /\ status[t] = "cancelling"
    /\ lease[t] = tok
    /\ receipt[tok] = [turn |-> t, attempt |-> attempt[t], claim |-> claimCount[t]]
    /\ updated[t] <= now
    /\ Settle(t, "cancelled", tok, now)
    /\ UNCHANGED <<now, available, scanned, failure, openWait>>

-----------------------------------------------------------------------------
(* Parking and resuming.                                                   *)

\* The turn gives up its lease with an open wait for someone else's result.
Park(t, tok, waiting, at) ==
    /\ claimCount[t] < MaxClaims
    /\ OutputCurrent(t, tok)
    /\ status' = [status EXCEPT ![t] = waiting]
    /\ ClearLease(t)
    /\ Touch(t, at)
    /\ openWait' = [openWait EXCEPT ![t] = tok]
    /\ UNCHANGED <<now, attempt, claimCount, available, revision, receipt, scanned, failure,
                   steer, seen, journal>>

\* park_turn_for_client_tool_call.
ParkForClient(t, tok, at) ==
    /\ Leased(t, tok, at)
    /\ Park(t, tok, "waiting_for_client", at)

\* The claim has journaled something, so its next ordinal is known.
HasJournaled(t, tok) == \E i \in 1..Len(journal[t]) : journal[t][i].claim = receipt[tok].claim

\* park_turn_for_agent_run_wait_set.
ParkForAgentRuns(t, tok) ==
    /\ Leased(t, tok, now)
    /\ HasJournaled(t, tok)
    /\ Park(t, tok, "waiting_for_agent_run", now)

\* checkpoint_sandbox_spawn: the spawn commits and the turn resumes at once.
CheckpointSpawn(t, tok) ==
    /\ Held(t, tok, now)
    /\ claimCount[t] < MaxClaims
    /\ OutputCurrent(t, tok)
    /\ HasJournaled(t, tok)
    /\ Record(t, "tool", tok)
    /\ Resume(t, now)
    /\ ClearLease(t)
    /\ UNCHANGED <<now, attempt, claimCount, revision, receipt, scanned, failure, openWait,
                   steer, seen>>

\* The wait row was written for the attempt and claim the turn still has.
WaitMatches(t) ==
    /\ openWait[t] \in Tokens
    /\ receipt[openWait[t]] = [turn |-> t, attempt |-> attempt[t], claim |-> claimCount[t]]
    /\ lease[t] = NoToken

CloseWait(t) == openWait' = [openWait EXCEPT ![t] = NoToken]

\* advance_turn_after_client_resolution_on, for a turn still waiting.
ClientResolved(t, at) ==
    /\ status[t] = "waiting_for_client"
    /\ WaitMatches(t)
    /\ updated[t] <= at
    /\ Resume(t, at)
    /\ CloseWait(t)
    /\ UNCHANGED <<now, attempt, claimCount, lease, expires, revision, receipt, scanned,
                   failure, steer, seen, journal>>

\* The same, for a turn whose cancellation waited for the client to stop.
ClientStopped(t, at) ==
    /\ status[t] = "cancelling_client"
    /\ WaitMatches(t)
    /\ updated[t] <= at
    /\ Settle(t, "cancelled", NoToken, at)
    /\ available' = [available EXCEPT ![t] = at]
    /\ CloseWait(t)
    /\ UNCHANGED <<now, scanned, failure>>

\* resume_turn_for_agent_run_wait_set: the results are journaled under the
\* worker that parked, whose claim is still the turn's latest.
AgentRunsSettled(t) ==
    /\ status[t] = "waiting_for_agent_run"
    /\ WaitMatches(t)
    /\ Record(t, "tool", openWait[t])
    /\ Resume(t, now)
    /\ CloseWait(t)
    /\ UNCHANGED <<now, attempt, claimCount, lease, expires, revision, receipt, scanned,
                   failure, steer, seen>>

-----------------------------------------------------------------------------
(* The user: steering and cancelling.                                      *)

\* Mutant of AcceptsSteer: any turn that has not settled.
AcceptsSteer_AnyLive(t, at) == updated[t] <= at /\ Active(t)

AcceptsSteer(t, at) ==
    /\ updated[t] <= at
    /\ \/ status[t] \in {"queued", "waiting_for_client", "waiting_for_agent_run",
                         "resuming", "retry_wait"}
       \/ status[t] = "running" /\ expires[t] > at

NewSteer(s, t, at) ==
    /\ steer[s].status = "none"
    /\ AcceptsSteer(t, at)
    /\ steer' = [steer EXCEPT ![s] = [status |-> "pending", turn |-> t, at |-> at]]

\* accept_turn_steer.
AcceptSteer(s, t, at) ==
    /\ NewSteer(s, t, at)
    /\ Touch(t, at)
    /\ UNCHANGED <<now, status, attempt, claimCount, lease, expires, available, revision,
                   receipt, scanned, failure, openWait, seen, journal>>

\* accept_turn_steer with `interrupt', which closes an agent-run wait.
AcceptInterrupt(s, t, at) ==
    /\ NewSteer(s, t, at)
    /\ status[t] = "waiting_for_agent_run"
    /\ WaitMatches(t)
    /\ Record(t, "tool", openWait[t])
    /\ Resume(t, at)
    /\ CloseWait(t)
    /\ UNCHANGED <<now, attempt, claimCount, lease, expires, revision, receipt, scanned,
                   failure, seen>>

\* apply_turn_steer: steers reach the transcript oldest first.
ApplySteer(s, t, tok, at) ==
    /\ EarliestPending(s, t)
    /\ Held(t, tok, at)
    /\ steer' = [steer EXCEPT ![s].status = "applied"]
    /\ revision' = [revision EXCEPT ![t] = @ + 1]
    /\ Touch(t, at)
    /\ Record(t, "steered", tok)
    /\ UNCHANGED <<now, status, attempt, claimCount, lease, expires, available, receipt,
                   scanned, failure, openWait, seen>>

\* request_turn_cancellation of a running turn: its worker must stop first.
CancelRunning(t, at) ==
    /\ status[t] = "running"
    /\ updated[t] <= at
    /\ status' = [status EXCEPT ![t] = "cancelling"]
    /\ Touch(t, now)
    /\ RejectPendingSteers(t)
    /\ UNCHANGED <<now, attempt, claimCount, lease, expires, available, revision, receipt,
                   scanned, failure, openWait, seen, journal>>

\* request_turn_cancellation of a turn no worker holds.
CancelIdle(t, at) ==
    /\ status[t] \in {"queued", "resuming", "retry_wait"}
    /\ updated[t] <= at
    /\ Settle(t, "cancelled", NoToken, now)
    /\ UNCHANGED <<now, available, scanned, failure, openWait>>

\* request_turn_cancellation while a client call no live executor holds is open.
CancelUnclaimedClientWait(t, at) ==
    /\ status[t] = "waiting_for_client"
    /\ WaitMatches(t)
    /\ updated[t] <= at
    /\ Settle(t, "cancelled", NoToken, now)
    /\ CloseWait(t)
    /\ UNCHANGED <<now, available, scanned, failure>>

\* request_turn_cancellation while a client is executing the call.
CancelClaimedClientWait(t, at) ==
    /\ status[t] = "waiting_for_client"
    /\ WaitMatches(t)
    /\ updated[t] <= at
    /\ status' = [status EXCEPT ![t] = "cancelling_client"]
    /\ Touch(t, now)
    /\ RejectPendingSteers(t)
    /\ UNCHANGED <<now, attempt, claimCount, lease, expires, available, revision, receipt,
                   scanned, failure, openWait, seen, journal>>

\* Mutant of CancelAgentRunWait: the wait's event is taken for the turn's.
CancelAgentRunWait_NoTerminal(t, at) ==
    /\ status[t] = "waiting_for_agent_run"
    /\ WaitMatches(t)
    /\ updated[t] <= at
    /\ status' = [status EXCEPT ![t] = "cancelled"]
    /\ Touch(t, now)
    /\ RejectPendingSteers(t)
    /\ CloseWait(t)
    /\ Record(t, "tool", openWait[t])
    /\ UNCHANGED <<now, attempt, claimCount, lease, expires, available, revision, receipt,
                   scanned, failure, seen>>

\* request_turn_cancellation while sub-agents are awaited: the wait's own event
\* is journaled before the terminal one.
CancelAgentRunWait(t, at) ==
    /\ status[t] = "waiting_for_agent_run"
    /\ WaitMatches(t)
    /\ updated[t] <= at
    /\ status' = [status EXCEPT ![t] = "cancelled"]
    /\ Touch(t, now)
    /\ RejectPendingSteers(t)
    /\ CloseWait(t)
    /\ journal' = [journal EXCEPT ![t] =
                     Append(Append(@, Row(t, "tool", openWait[t])), Row(t, "cancelled", NoToken))]
    /\ UNCHANGED <<now, attempt, claimCount, lease, expires, available, revision, receipt,
                   scanned, failure, seen>>

Tick == /\ now < MaxTime
        /\ now' = now + 1
        /\ UNCHANGED <<rowVars, receipt, scanned, failure, openWait, steer, seen, journal>>

-----------------------------------------------------------------------------
Init ==
    /\ now = 0
    /\ status = [t \in Turns |-> "absent"]
    /\ attempt = [t \in Turns |-> 0]
    /\ claimCount = [t \in Turns |-> 0]
    /\ lease = [t \in Turns |-> NoToken]
    /\ expires = [t \in Turns |-> 0]
    /\ available = [t \in Turns |-> 0]
    /\ updated = [t \in Turns |-> 0]
    /\ revision = [t \in Turns |-> 0]
    /\ receipt = [tok \in Tokens |-> NoReceipt]
    /\ scanned = [tok \in Tokens |-> NoTurn]
    /\ failure = [tok \in Tokens |-> "none"]
    /\ openWait = [t \in Turns |-> NoToken]
    /\ steer = [s \in Steers |-> [status |-> "none", turn |-> NoTurn, at |-> 0]]
    /\ seen = [tok \in Tokens |-> NotSeen]
    /\ journal = [t \in Turns |-> <<>>]

\* One poll of a turn worker that finds work.
ClaimScan(t, tok, at) ==
    ClaimTurn(t, tok, at) \/ ScanCancelled(t, tok, at) \/ ScanExhausted(t, tok, at)

WorkerStep(t, tok) ==
    \/ \E at \in Stamps : \/ Heartbeat(t, tok, at)
                          \/ ExpireLease(t, tok, at)
                          \/ Generate(t, tok, at)
                          \/ \E kind \in Batches : AppendTurnEvents(t, tok, kind, at)
                          \/ ParkForClient(t, tok, at)
    \/ \E retryAt \in (now + 1)..(now + RetryDelay) : RetryLater(t, tok, retryAt)
    \/ CompleteTurn(t, tok)
    \/ FailTurn(t, tok)
    \/ FinishCancellation(t, tok)
    \/ ParkForAgentRuns(t, tok)
    \/ CheckpointSpawn(t, tok)

UserStep(t, at) ==
    \/ AcceptTurn(t, at)
    \/ CancelRunning(t, at)
    \/ CancelIdle(t, at)
    \/ CancelUnclaimedClientWait(t, at)
    \/ CancelClaimedClientWait(t, at)
    \/ CancelAgentRunWait(t, at)

SteerStep(s, t, at) ==
    \/ AcceptSteer(s, t, at)
    \/ AcceptInterrupt(s, t, at)
    \/ \E tok \in Tokens : ApplySteer(s, t, tok, at)

WaitStep(t) ==
    \/ \E at \in Stamps : ClientResolved(t, at) \/ ClientStopped(t, at)
    \/ AgentRunsSettled(t)

Next ==
    \/ Tick
    \/ \E t \in Turns :
         \/ WaitStep(t)
         \/ \E tok \in Tokens : WorkerStep(t, tok)
         \/ \E at \in Stamps : \/ UserStep(t, at)
                               \/ \E tok \in Tokens : ClaimScan(t, tok, at)
                               \/ \E s \in Steers : SteerStep(s, t, at)

Spec == Init /\ [][Next]_vars

-----------------------------------------------------------------------------
(* Properties.                                                             *)

\* Every column holds a value of its domain.
TypeOK ==
    /\ now \in 0..MaxTime
    /\ status \in [Turns -> Statuses]
    /\ attempt \in [Turns -> Nat]
    /\ claimCount \in [Turns -> Nat]
    /\ lease \in [Turns -> Tokens \cup {NoToken}]
    /\ expires \in [Turns -> Nat]
    /\ available \in [Turns -> Nat]
    /\ updated \in [Turns -> Nat]
    /\ revision \in [Turns -> Nat]
    /\ receipt \in [Tokens -> Receipts]
    /\ scanned \in [Tokens -> Turns \cup {NoTurn}]
    /\ failure \in [Tokens -> {"none", "retry_wait", "failed"}]
    /\ openWait \in [Turns -> Tokens \cup {NoToken}]
    /\ steer \in [Steers -> SteerRows]
    /\ seen \in [Tokens -> Nat \cup {NotSeen}]
    /\ journal \in [Turns -> Seq(Events)]

\* A turn is leased exactly while it runs or is being cancelled, and then to a
\* token whose claim receipt names the turn's present attempt and claim: the
\* check of every worker write never refuses the rightful owner for its receipt,
\* and a cancellation can always be acknowledged by the worker it stops.
LeaseAgreement ==
    \A t \in Turns :
        /\ lease[t] \in Tokens <=> status[t] \in {"running", "cancelling"}
        /\ lease[t] \in Tokens => receipt[lease[t]] =
              [turn |-> t, attempt |-> attempt[t], claim |-> claimCount[t]]

\* Claim numbers identify claims: no receipt of a turn is ahead of its row
\* (claim_turn's "exists before the turn advanced" error cannot happen) and no
\* two polls were granted the same claim.
ClaimNumbersAreFresh ==
    \A t \in Turns, j \in Tokens : receipt[j].turn = t =>
        /\ receipt[j].claim \in 1..claimCount[t]
        /\ \A k \in Tokens \ {j} : receipt[k].turn = t => receipt[k].claim # receipt[j].claim

\* The claim scan writes a failure receipt under the dead worker's token; no
\* token that still holds a lease has one, so that insert cannot conflict and
\* abort the poll forever.
LeasedTokenHasNoFailure ==
    \A t \in Turns : lease[t] \in Tokens => failure[lease[t]] = "none"

\* No live turn is stranded: a turn that waits to be claimed is still inside its
\* attempt budget, so the scan's Due filter will let it through, and a parked
\* turn has exactly the open wait that its resolution looks for ("mismatched
\* receipt" is never returned to the client that answers).
NeverStranded ==
    \A t \in Turns :
        /\ status[t] \in {"absent", "queued", "retry_wait"} => attempt[t] < MaxAttempts
        /\ attempt[t] <= MaxAttempts
        /\ status[t] \in ParkedStatuses => WaitMatches(t)
        /\ status[t] \notin ParkedStatuses => openWait[t] = NoToken

\* The journal agrees with the row: a terminal event is in the journal exactly
\* when the turn is settled, it says how, it is the only one, and nothing
\* follows it.
TerminalEventIsLast ==
    \A t \in Turns :
        /\ \A i \in 1..Len(journal[t]) : journal[t][i].kind \in TerminalStatuses =>
               i = Len(journal[t]) /\ journal[t][i].kind = status[t]
        /\ status[t] \in TerminalStatuses =>
               journal[t] # <<>> /\ journal[t][Len(journal[t])].kind = status[t]

\* A worker that lost its lease never writes behind its successor's back: in
\* the journal, the rows of one claim never follow the rows of a later one.
ClaimsNeverInterleave ==
    \A t \in Turns : \A i, j \in 1..Len(journal[t]) :
        i < j /\ journal[t][j].claim # 0 => journal[t][i].claim <= journal[t][j].claim

\* The user's words are never dropped by a turn that goes on to succeed: every
\* steer of a completed turn was applied, and the generation that completed it
\* was built after the last of them.
CompletedSawEverySteer ==
    \A t \in Turns : status[t] = "completed" =>
        /\ \A s \in Steers : steer[s].turn = t => steer[s].status = "applied"
        /\ \E tok \in Tokens : /\ receipt[tok].turn = t
                               /\ receipt[tok].claim = claimCount[t]
                               /\ seen[tok] = revision[t]

\* A steer is left pending only on a turn that can still read it: settling or
\* cancelling a turn rejects what is pending, and nothing is accepted after.
PendingSteerIsReadable ==
    \A s \in Steers, t \in Turns :
        Pending(s, t) => Active(t) /\ status[t] \notin {"cancelling", "cancelling_client"}

\* A poll that is retried with its token (the worker keeps pending_claim_token
\* when the answer was lost) gets one answer: it never both claims one turn and
\* terminalizes another.
PollAnswersOnce ==
    \A tok \in Tokens : receipt[tok].turn \in Turns => scanned[tok] = NoTurn

\* A lease passes from one worker to the next only after it expired, and then
\* under a new claim: a live worker is never robbed of its turn.
LeaseNeverStolen ==
    [][\A t \in Turns : lease[t] \in Tokens /\ lease'[t] \in Tokens \ {lease[t]} =>
          /\ expires[t] <= now
          /\ claimCount'[t] > claimCount[t]]_vars

\* Only a claim that was granted can fail.
FailureHasReceipt ==
    \A tok \in Tokens : failure[tok] # "none" => receipt[tok].turn \in Turns

\* The inductive invariant behind the lease properties.
LeaseInv ==
    /\ LeaseAgreement
    /\ ClaimNumbersAreFresh
    /\ NeverStranded
    /\ FailureHasReceipt
    /\ LeasedTokenHasNoFailure
    /\ PollAnswersOnce

\* The inductive invariant behind the properties of the journal: a journal fits
\* the row it belongs to.  Beside the two properties above it says that no event
\* is ahead of the claims the turn has had.
Fits(rows, claims, outcome) ==
    /\ \A i \in 1..Len(rows) : rows[i].kind \in TerminalStatuses =>
           i = Len(rows) /\ rows[i].kind = outcome
    /\ outcome \in TerminalStatuses => rows # <<>> /\ rows[Len(rows)].kind = outcome
    /\ \A i, j \in 1..Len(rows) :
           i < j /\ rows[j].claim # 0 => rows[i].claim <= rows[j].claim
    /\ \A i \in 1..Len(rows) : rows[i].claim <= claims
JournalInv == \A t \in Turns : Fits(journal[t], claimCount[t], status[t])

\* The inductive invariant behind the properties of the steers: a steer is
\* rejected only with the turn it was meant for.
RejectedWithTurn ==
    \A s \in Steers :
        /\ steer[s].status = "none" => steer[s].turn = NoTurn
        /\ steer[s].status = "rejected" /\ steer[s].turn \in Turns =>
              status[steer[s].turn] \in {"cancelling", "cancelling_client", "failed", "cancelled"}
SteerInv == PendingSteerIsReadable /\ CompletedSawEverySteer /\ RejectedWithTurn

-----------------------------------------------------------------------------
(* The promise to the readers of a conversation.                           *)

OutcomeOf(t) == CASE status[t] = "absent" -> "none"
                  [] status[t] \in TerminalStatuses -> status[t]
                  [] OTHER -> "open"

\* The outcomes told to whoever reads the turn's events.
PublishedOf(t) == {journal[t][i].kind : i \in 1..Len(journal[t])} \cap TerminalStatuses

Promise == INSTANCE TurnOutcome WITH
    outcome <- [t \in Turns |-> OutcomeOf(t)],
    published <- [t \in Turns |-> PublishedOf(t)]

\* The rows and the journal implement TurnOutcome: one open turn per
\* conversation, one outcome per turn, published in the transaction that
\* decides it.
KeepsPromise == Promise!Spec

-----------------------------------------------------------------------------
(* Liveness.                                                               *)

\* The worker supervisor polls for as long as the process lives, with a fresh
\* token each time, so a poll that stays able to find work finds it; the clock
\* runs.  Nothing is assumed of the worker that holds a lease (it may be dead),
\* of the user, or of the client that executes a parked call.
Polls == \E t \in Turns, tok \in Tokens, at \in Stamps : ClaimScan(t, tok, at)
Fairness == WF_vars(Tick) /\ WF_vars(Polls)
FairSpec == Spec /\ Fairness

\* A turn asked to stop while it runs does stop, even if its worker is dead:
\* the worker acknowledges or the scan settles it.
CancellationSettles ==
    \A t \in Turns : status[t] = "cancelling" ~> status[t] = "cancelled"

\* A turn on its last attempt does not run forever once its worker has gone
\* silent (in the model every worker has by MaxTime): the scan fails it, unless
\* somebody else ends or parks it first.
LastAttemptEnds ==
    \A t \in Turns : status[t] = "running" /\ attempt[t] = MaxAttempts
                          ~> status[t] # "running"
=============================================================================
