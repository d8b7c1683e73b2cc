----------------------------- MODULE ReverseRpc -----------------------------
(***************************************************************************)
(* Reverse RPC: the agent in a sandbox calls a capability of the host (a   *)
(* model completion that spends money) under a durable operation identity. *)
(* The call may be re-issued after a disconnect, cancelled, overtaken by   *)
(* the end of the run, or cut by the death of the host process; the        *)
(* capability must not run twice for one identity.                         *)
(*                                                                         *)
(* Source, under crates/: tidebreak-sandbox-protocol/src/wire/sandbox.rs   *)
(* (`call', the sandbox side), wire/host.rs (the host's reader and its     *)
(* forwarders), host.rs (CapabilityHost and the execution task),           *)
(* tidebreak-sandbox-runtime/src/durable_oplog.rs and                      *)
(* tidebreak-core/src/db/ops/operation_log.rs (the log).                   *)
(*                                                                         *)
(* `log' is the table.  `task', `waiters', `phase' and `epoch' die with    *)
(* the host process; `call' is the sandbox's.  `lane', `answers', `hostUp' *)
(* and `boxUp' are one connection: its two ends notice a drop separately.  *)
(* `effects', `got' and `cancelWon' record what happened for the           *)
(* properties: nothing reads them.                                         *)
(***************************************************************************)
EXTENDS Naturals, Sequences, FiniteSets

CONSTANTS
    Ops,          \* operation identities
    Reqs,         \* request bodies, the fingerprints of an identity
    Admissible,   \* the bodies of a granted capability within its bound
    Window,       \* MAX_INFLIGHT_REQUESTS
    MaxCalls,     \* bound: calls of one identity
    MaxEpoch,     \* bound: host process lifetimes
    Faults,       \* which faults the instance has
    NoReq         \* the fingerprint of an identity with no row

FaultKinds == {"conn",    \* connections drop
               "crash",   \* the host process dies and starts again
               "store",   \* a database call fails
               "rogue"}   \* the sandbox reuses a settled identity, or for another body

ASSUME RpcConstants ==
    /\ Admissible \subseteq Reqs
    /\ NoReq \notin Reqs
    /\ Window \in Nat \ {0} /\ MaxCalls \in Nat \ {0} /\ MaxEpoch \in Nat \ {0}
    /\ Faults \subseteq FaultKinds

VARIABLES
    log,        \* operation_log by id: state, fingerprint, owner_epoch and body
    epoch,      \* owner_epoch of the live DurableOperationStore
    task,       \* HostState.inflight by id, with where its execution stands
    waiters,    \* by id: the calls whose forwarder watches the outcome
    phase,      \* the driver: "driving", "closed" (close returned), "idle" (wait_idle returned)
    lane,       \* frames sandbox -> host, in the order they were queued
    answers,    \* response frames host -> sandbox
    hostUp,     \* the host's reader runs
    boxUp,      \* the connection is the sandbox's live one
    call,       \* by id: the agent's latest call
    effects,    \* by id: how often the capability was reached
    got,        \* by id: the answers the agent was given
    cancelWon   \* by id: cancellation claimed the settlement

rows == <<log, epoch>>
host == <<task, waiters, phase>>
wire == <<lane, answers, hostUp, boxUp>>
ghosts == <<effects, got, cancelWon>>
vars == <<rows, host, wire, call, ghosts>>

Verdicts == {"ok", "failed", "cancelled"}
Refusals == {"denied", "closed", "ambiguous", "evicted", "conflict"}
Answers == Verdicts \cup Refusals
NoBody == "none"

Rows == [state : {"absent", "claimed", "recorded", "failed"}, req : Reqs \cup {NoReq},
         epoch : 0..MaxEpoch, body : Verdicts \cup {NoBody}]
NoRow == [state |-> "absent", req |-> NoReq, epoch |-> 0, body |-> NoBody]

\* Where execute() is: spawned; past its first look at the cancellation; in the
\* responder; holding a response that settles nothing yet; owner of the
\* settlement; written to the log.
Tasks == [pc : {"none", "spawned", "admitted", "running", "ready", "settling", "written"},
          owner : {"pending", "cancellation", "settling"},
          signalled : BOOLEAN,
          settled : Verdicts \cup {NoBody}]
NoTask == [pc |-> "none", owner |-> "pending", signalled |-> FALSE, settled |-> NoBody]

Frames == [kind : {"request"}, op : Ops, n : 1..MaxCalls, req : Reqs]
          \cup [kind : {"cancel", "ack"}, op : Ops]

-----------------------------------------------------------------------------
(* The sandbox's side of a call.                                           *)

Waiting == {o \in Ops : call[o].st = "waiting"}

\* What SandboxRun::call may be asked: an honest agent keeps the body of an
\* identity and leaves a settled identity alone.
MayCall(o, r) ==
    \/ "rogue" \in Faults /\ call[o].st # "waiting"
    \/ call[o].st = "idle"
    \/ call[o].st = "disconnected" /\ r = call[o].req

\* A permit is taken, the request id registered and the request frame queued.
Call(o, r) ==
    /\ boxUp
    /\ Cardinality(Waiting) < Window
    /\ call[o].n < MaxCalls
    /\ MayCall(o, r)
    /\ call' = [call EXCEPT ![o] = [st |-> "waiting", n |-> @.n + 1, req |-> r, cancelled |-> FALSE]]
    /\ lane' = Append(lane, [kind |-> "request", op |-> o, n |-> call[o].n + 1, req |-> r])
    /\ UNCHANGED <<rows, host, answers, hostUp, boxUp, ghosts>>

\* The response of the pending request id arrives; any settled answer is
\* acknowledged on the control lane.
Receive(a) ==
    /\ boxUp
    /\ answers' = answers \ {a}
    /\ IF call[a.op].st = "waiting" /\ call[a.op].n = a.n
       THEN /\ call' = [call EXCEPT ![a.op].st = "settled"]
            /\ got' = [got EXCEPT ![a.op] = @ \cup {a.answer}]
            /\ lane' = Append(lane, [kind |-> "ack", op |-> a.op])
       ELSE UNCHANGED <<call, got, lane>>
    /\ UNCHANGED <<rows, host, hostUp, boxUp, effects, cancelWon>>

\* The agent gives up on a call; the frame rides the control lane.  Bound: one
\* cancel frame for each call.
RequestCancel(o) ==
    /\ boxUp
    /\ o \in Waiting
    /\ ~call[o].cancelled
    /\ call' = [call EXCEPT ![o].cancelled = TRUE]
    /\ lane' = Append(lane, [kind |-> "cancel", op |-> o])
    /\ UNCHANGED <<rows, host, answers, hostUp, boxUp, ghosts>>

-----------------------------------------------------------------------------
(* The host's reader.                                                      *)

\* Frames share one socket, and the writer takes a queued control frame before
\* a queued data frame: the oldest frame comes next, or the oldest control
\* frame overtakes data that is still queued.
Readable ==
    LET control == {i \in 1..Len(lane) : lane[i].kind # "request"}
    IN  {i \in 1..Len(lane) : i = 1 \/ (i \in control /\ \A j \in control : i <= j)}

Take(i) == lane' = SubSeq(lane, 1, i - 1) \o SubSeq(lane, i + 1, Len(lane))

\* Mutant: a claim of a dead lifetime is adopted and run again.
ClaimOutcome_TakeOver(row, r, e) ==
    IF row.state = "absent" THEN "fresh"
    ELSE IF row.req # r THEN "conflict"
    ELSE IF row.state = "claimed" THEN (IF row.epoch = e THEN "owned" ELSE "fresh")
    ELSE IF row.body = NoBody THEN "evicted" ELSE row.body

\* DbStore::claim, as the live lifetime `e' sees the row.  Every capability is
\* external-effect, so a foreign claim is never taken over.
ClaimOutcome(row, r, e) ==
    IF row.state = "absent" THEN "fresh"
    ELSE IF row.req # r THEN "conflict"
    ELSE IF row.state = "claimed" THEN (IF row.epoch = e THEN "owned" ELSE "ambiguous")
    ELSE IF row.body = NoBody THEN "evicted" ELSE row.body

Request(i) == i \in Readable /\ lane[i].kind = "request"

Answer(f, a) == answers' = answers \cup {[op |-> f.op, n |-> f.n, answer |-> a]}
Watch(f) == waiters' = [waiters EXCEPT ![f.op] = @ \cup {f.n}]

\* dispatch refuses before it looks at the identity.
DispatchRefused(i) ==
    LET f == lane[i] IN
    /\ hostUp /\ Request(i) /\ Take(i)
    /\ \/ f.req \notin Admissible /\ Answer(f, "denied")
       \/ f.req \in Admissible /\ phase # "driving" /\ Answer(f, "closed")
    /\ UNCHANGED <<rows, host, hostUp, boxUp, call, ghosts>>

Admits(i) == hostUp /\ Request(i) /\ lane[i].req \in Admissible /\ phase = "driving"

\* The claim inserted the row: one execution is spawned.
DispatchFresh(i) ==
    LET f == lane[i] IN
    /\ Admits(i) /\ Take(i)
    /\ ClaimOutcome(log[f.op], f.req, epoch) = "fresh"
    /\ log' = [log EXCEPT ![f.op] = [state |-> "claimed", req |-> f.req,
                                     epoch |-> epoch, body |-> NoBody]]
    /\ task' = [task EXCEPT ![f.op] = [NoTask EXCEPT !.pc = "spawned"]]
    /\ Watch(f)
    /\ UNCHANGED <<epoch, phase, answers, hostUp, boxUp, call, ghosts>>

\* A duplicate of an operation this lifetime has in flight.
DispatchAttached(i) ==
    LET f == lane[i] IN
    /\ Admits(i) /\ Take(i)
    /\ ClaimOutcome(log[f.op], f.req, epoch) = "owned"
    /\ task[f.op].pc # "none"
    /\ Watch(f)
    /\ UNCHANGED <<rows, task, phase, answers, hostUp, boxUp, call, ghosts>>

\* A replay, or a refusal that the log decides.
DispatchSettled(i) ==
    LET f == lane[i]
        outcome == ClaimOutcome(log[f.op], f.req, epoch) IN
    /\ Admits(i) /\ Take(i)
    /\ \/ outcome \in Answers /\ Answer(f, outcome)
       \/ outcome = "owned" /\ task[f.op].pc = "none" /\ Answer(f, "ambiguous")
    /\ UNCHANGED <<rows, host, hostUp, boxUp, call, ghosts>>

\* The claim fails in the database, before or after its insert took effect:
\* nothing is executed.
DispatchStoreError(i) ==
    LET f == lane[i] IN
    /\ "store" \in Faults
    /\ Admits(i) /\ Take(i)
    /\ Answer(f, "ambiguous")
    /\ \/ UNCHANGED log
       \/ /\ log[f.op].state = "absent"
          /\ log' = [log EXCEPT ![f.op] = [state |-> "claimed", req |-> f.req,
                                           epoch |-> epoch, body |-> NoBody]]
    /\ UNCHANGED <<epoch, host, hostUp, boxUp, call, ghosts>>

\* claim_cancellation on the given operations.
CancelOwned(os) == [o \in Ops |-> IF o \in os /\ task[o].pc # "none" /\ task[o].owner = "pending"
                                  THEN [task[o] EXCEPT !.owner = "cancellation"]
                                  ELSE task[o]]
WonBy(os) == [o \in Ops |-> cancelWon[o] \/ (o \in os /\ task[o].pc # "none"
                                                       /\ task[o].owner = "pending")]

HostCancel(i) ==
    /\ hostUp /\ i \in Readable /\ lane[i].kind = "cancel" /\ Take(i)
    /\ task' = CancelOwned({lane[i].op})
    /\ cancelWon' = WonBy({lane[i].op})
    /\ UNCHANGED <<rows, waiters, phase, answers, hostUp, boxUp, call, effects, got>>

\* Mutant: eviction deletes the row.
Evict_DeletesRow(row) == IF row.state \in {"recorded", "failed"} THEN NoRow ELSE row

\* Eviction keeps the row as a marker and leaves a claimed row alone.
Evict(row) == IF row.state \in {"recorded", "failed"} THEN [row EXCEPT !.body = NoBody] ELSE row

HostAcknowledge(i) ==
    /\ hostUp /\ i \in Readable /\ lane[i].kind = "ack" /\ Take(i)
    /\ \/ log' = [log EXCEPT ![lane[i].op] = Evict(@)]
       \/ "store" \in Faults /\ UNCHANGED log
    /\ UNCHANGED <<epoch, host, answers, hostUp, boxUp, call, ghosts>>

-----------------------------------------------------------------------------
(* The execution task of one operation.                                    *)

\* The cancel signal is sent after the locks are released.
Signal(o) ==
    /\ task[o].owner = "cancellation" /\ ~task[o].signalled
    /\ task' = [task EXCEPT ![o].signalled = TRUE]
    /\ UNCHANGED <<rows, waiters, phase, wire, call, ghosts>>

\* First poll: a cancellation that already won keeps the responder unpolled.
Begin(o) ==
    /\ task[o].pc = "spawned"
    /\ task' = [task EXCEPT ![o] = IF @.owner = "cancellation" \/ @.signalled
                                   THEN [@ EXCEPT !.pc = "ready", !.settled = "cancelled"]
                                   ELSE [@ EXCEPT !.pc = "admitted"]]
    /\ UNCHANGED <<rows, waiters, phase, wire, call, ghosts>>

\* The select's responder arm is polled for the first time.
Respond(o) ==
    /\ task[o].pc = "admitted"
    /\ task' = [task EXCEPT ![o].pc = "running"]
    /\ effects' = [effects EXCEPT ![o] = @ + 1]
    /\ UNCHANGED <<rows, waiters, phase, wire, call, got, cancelWon>>

\* Mutant: a responder that is already running is not interrupted.
ObserveCancel_BeforeResponder(o) ==
    /\ task[o].pc = "admitted"
    /\ task[o].signalled
    /\ task' = [task EXCEPT ![o].pc = "ready", ![o].settled = "cancelled"]
    /\ UNCHANGED <<rows, waiters, phase, wire, call, ghosts>>

\* The select's cancel arm: the responder's future is dropped.
ObserveCancel(o) ==
    /\ task[o].pc \in {"admitted", "running"}
    /\ task[o].signalled
    /\ task' = [task EXCEPT ![o].pc = "ready", ![o].settled = "cancelled"]
    /\ UNCHANGED <<rows, waiters, phase, wire, call, ghosts>>

\* The responder answers; a result over its bound is a failure.
Finish(o, v) ==
    /\ task[o].pc = "running"
    /\ v \in {"ok", "failed"}
    /\ task' = [task EXCEPT ![o].pc = "ready", ![o].settled = v]
    /\ UNCHANGED <<rows, waiters, phase, wire, call, ghosts>>

\* Mutant: a ready response settles without asking who owns the settlement.
ClaimSettlement_ResponseWins(o) ==
    /\ task[o].pc = "ready"
    /\ task' = [task EXCEPT ![o].pc = "settling", ![o].owner = "settling"]
    /\ UNCHANGED <<rows, waiters, phase, wire, call, ghosts>>

\* claim_responder_settlement, under the host's lock: the response settles the
\* operation unless cancellation owns it.
ClaimSettlement(o) ==
    /\ task[o].pc = "ready"
    /\ task' = [task EXCEPT ![o] =
                   IF @.owner = "pending"
                   THEN [@ EXCEPT !.pc = "settling", !.owner = "settling"]
                   ELSE [@ EXCEPT !.pc = "settling", !.settled = "cancelled"]]
    /\ UNCHANGED <<rows, waiters, phase, wire, call, ghosts>>

\* Mutant: a failure is recorded as a success.
Settle_AlwaysRecords(row, v) ==
    IF row.state = "claimed" THEN [row EXCEPT !.state = "recorded", !.body = "ok"] ELSE row

\* The row as the terminal write leaves it: only a claimed row is settled.
Settle(row, v) ==
    IF row.state = "claimed"
    THEN [row EXCEPT !.state = IF v = "ok" THEN "recorded" ELSE "failed", !.body = v]
    ELSE row

\* A write that fails in the database is dropped.
Record(o) ==
    /\ task[o].pc = "settling"
    /\ \/ log' = [log EXCEPT ![o] = Settle(@, task[o].settled)]
       \/ "store" \in Faults /\ UNCHANGED log
    /\ task' = [task EXCEPT ![o].pc = "written"]
    /\ UNCHANGED <<epoch, waiters, phase, wire, call, ghosts>>

\* Mutant: the entry is removed and its waiters are not told.
Publish_Silent(o) ==
    /\ task[o].pc = "written"
    /\ task' = [task EXCEPT ![o] = NoTask]
    /\ UNCHANGED <<rows, waiters, phase, wire, call, ghosts>>

\* The entry leaves the in-flight map and the waiters are told; a forwarder of
\* a dropped connection has nowhere to write.
Publish(o) ==
    /\ task[o].pc = "written"
    /\ answers' = answers \cup {[op |-> o, n |-> n, answer |-> task[o].settled] : n \in waiters[o]}
    /\ waiters' = [waiters EXCEPT ![o] = {}]
    /\ task' = [task EXCEPT ![o] = NoTask]
    /\ UNCHANGED <<rows, phase, lane, hostUp, boxUp, call, ghosts>>

-----------------------------------------------------------------------------
(* The driver, the connection and the process.                             *)

\* close(): admission ends and every pending operation is claimed for
\* cancellation, in one critical section.
Close ==
    /\ phase = "driving"
    /\ phase' = "closed"
    /\ task' = CancelOwned(Ops)
    /\ cancelWon' = WonBy(Ops)
    /\ UNCHANGED <<rows, waiters, wire, call, effects, got>>

\* Mutant: an operation that cancellation owns no longer counts.
InFlight_Pending == {o \in Ops : task[o].pc # "none" /\ task[o].owner # "cancellation"}

InFlight == {o \in Ops : task[o].pc # "none"}

WaitIdle ==
    /\ phase = "closed"
    /\ InFlight = {}
    /\ phase' = "idle"
    /\ UNCHANGED <<rows, task, waiters, wire, call, ghosts>>

\* Both ends of the old connection are gone: the host dials again.
Attach ==
    /\ ~hostUp /\ ~boxUp
    /\ phase = "driving"
    /\ hostUp' = TRUE /\ boxUp' = TRUE
    /\ lane' = << >> /\ answers' = {}
    /\ UNCHANGED <<rows, host, call, ghosts>>

\* The host's reader ends, and its forwarders' queue with it.
DropHost ==
    /\ "conn" \in Faults \/ phase # "driving"
    /\ hostUp
    /\ hostUp' = FALSE
    /\ lane' = << >>
    /\ waiters' = [o \in Ops |-> {}]
    /\ UNCHANGED <<rows, task, phase, answers, boxUp, call, ghosts>>

\* serve_connection ends: every pending call of the connection fails.
DropBox ==
    /\ "conn" \in Faults \/ ~hostUp
    /\ boxUp
    /\ boxUp' = FALSE
    /\ answers' = {}
    /\ lane' = IF hostUp THEN lane ELSE << >>
    /\ call' = [o \in Ops |-> IF o \in Waiting THEN [call[o] EXCEPT !.st = "disconnected"]
                                               ELSE call[o]]
    /\ UNCHANGED <<rows, host, hostUp, ghosts>>

\* The process dies; the next one opens the log under an epoch of its own.
Crash ==
    /\ "crash" \in Faults
    /\ epoch < MaxEpoch
    /\ epoch' = epoch + 1
    /\ task' = [o \in Ops |-> NoTask]
    /\ waiters' = [o \in Ops |-> {}]
    /\ phase' = "driving"
    /\ hostUp' = FALSE
    /\ lane' = << >>
    /\ UNCHANGED <<log, answers, boxUp, call, ghosts>>

-----------------------------------------------------------------------------
Init ==
    /\ log = [o \in Ops |-> NoRow]
    /\ epoch = 1
    /\ task = [o \in Ops |-> NoTask]
    /\ waiters = [o \in Ops |-> {}]
    /\ phase = "driving"
    /\ lane = << >> /\ answers = {}
    /\ hostUp = FALSE /\ boxUp = FALSE
    /\ call = [o \in Ops |-> [st |-> "idle", n |-> 0, req |-> NoReq, cancelled |-> FALSE]]
    /\ effects = [o \in Ops |-> 0]
    /\ got = [o \in Ops |-> {}]
    /\ cancelWon = [o \in Ops |-> FALSE]

Dispatch(i) == \/ DispatchRefused(i) \/ DispatchFresh(i) \/ DispatchAttached(i)
               \/ DispatchSettled(i) \/ DispatchStoreError(i)

Reader == \E i \in Readable : Dispatch(i) \/ HostCancel(i) \/ HostAcknowledge(i)

Execute(o) == \/ Begin(o) \/ Respond(o) \/ ObserveCancel(o)
              \/ ClaimSettlement(o) \/ Record(o) \/ Publish(o)

Next ==
    \/ \E o \in Ops, r \in Reqs : Call(o, r)
    \/ \E a \in answers : Receive(a)
    \/ \E o \in Ops : RequestCancel(o)
    \/ Reader
    \/ \E o \in Ops : Signal(o) \/ Execute(o) \/ \E v \in Verdicts : Finish(o, v)
    \/ Close \/ WaitIdle \/ Attach \/ DropHost \/ DropBox \/ Crash

Spec == Init /\ [][Next]_vars

\* The runtime polls every spawned task and every reader, the driver's wait
\* returns, and a sandbox notices that its host is gone.  Nothing makes the
\* responder answer (Finish), and no fault need ever happen.
Fairness ==
    /\ WF_vars(Reader) /\ WF_vars(WaitIdle) /\ WF_vars(DropBox /\ ~hostUp)
    /\ WF_vars(\E a \in answers : Receive(a))
    /\ \A o \in Ops : WF_vars(Signal(o)) /\ WF_vars(Execute(o))

FairSpec == Spec /\ Fairness

-----------------------------------------------------------------------------
(* Properties.                                                             *)

\* Every variable has its type.
RpcTypeOK ==
    /\ log \in [Ops -> Rows]
    /\ epoch \in 1..MaxEpoch
    /\ task \in [Ops -> Tasks]
    /\ waiters \in [Ops -> SUBSET (1..MaxCalls)]
    /\ phase \in {"driving", "closed", "idle"}
    /\ lane \in Seq(Frames)
    /\ answers \subseteq [op : Ops, n : 1..MaxCalls, answer : Answers]
    /\ hostUp \in BOOLEAN /\ boxUp \in BOOLEAN
    /\ call \in [Ops -> [st : {"idle", "waiting", "disconnected", "settled"},
                         n : 0..MaxCalls, req : Reqs \cup {NoReq}, cancelled : BOOLEAN]]
    /\ effects \in [Ops -> Nat]
    /\ got \in [Ops -> SUBSET Answers]
    /\ cancelWon \in [Ops -> BOOLEAN]

\* Whatever is re-issued, cancelled, evicted, lost or restarted, the capability
\* behind one operation identity is reached at most once.
AtMostOnce == \A o \in Ops : effects[o] <= 1

\* An agent that re-issues an operation never hears two different verdicts of
\* it, and never hears that it succeeded when the capability was not reached.
OneVerdict ==
    \A o \in Ops : /\ Cardinality(got[o] \cap Verdicts) <= 1
                   /\ "ok" \in got[o] => effects[o] = 1

\* A cancellation that won the settlement is what the log keeps and what the
\* agent hears, even when the responder answered before it was signalled.
CancellationIsRecorded ==
    \A o \in Ops : cancelWon[o] => log[o].state # "recorded" /\ "ok" \notin got[o]

\* Once the driver's wait for idleness returned, the run's totals can be
\* committed: no execution is left, none starts and the log gains nothing.
QuiescedStaysQuiet ==
    [][phase = "idle" /\ phase' = "idle" =>
           /\ effects' = effects
           /\ \A o \in Ops : log'[o].state = log[o].state]_vars

\* The strengthening that AtMostOnce rests on: a row exists before anything is
\* spawned, it stays claimed until the execution writes it, and the capability is
\* reached on the way from "admitted" to "running" only.
ClaimPrecedes(o) ==
    /\ log[o].state = "absent" => task[o].pc = "none" /\ effects[o] = 0 /\ ~cancelWon[o]
    /\ task[o].pc \in {"spawned", "admitted", "running", "ready", "settling"} =>
           log[o].state = "claimed"
    /\ task[o].pc \in {"spawned", "admitted"} => effects[o] = 0 /\ task[o].settled # "ok"
    /\ task[o].pc = "running" => effects[o] = 1 /\ task[o].settled # "ok"
    /\ task[o].settled = "ok" => effects[o] = 1
    /\ task[o].pc \in {"ready", "settling", "written"} => task[o].settled \in Verdicts

ExecutionFollowsClaim == \A o \in Ops : ClaimPrecedes(o)

\* "ok" was recorded for the operation, or told to the agent, or is on its way.
SaidOk(o) == \/ log[o].state = "recorded" \/ log[o].body = "ok"
             \/ "ok" \in got[o]
             \/ \E a \in answers : a.op = o /\ a.answer = "ok"

\* The strengthening of CancellationIsRecorded: while an entry is in flight its
\* owner says who won, and nothing is in flight for an operation that said "ok"
\* except an entry that cancellation can no longer win.
OwnerWins(o) ==
    /\ cancelWon[o] /\ task[o].pc # "none" => task[o].owner = "cancellation"
    /\ task[o].pc \in {"settling", "written"} =>
           /\ task[o].owner # "pending"
           /\ task[o].settled = "ok" => task[o].owner = "settling"
    /\ SaidOk(o) => /\ ~cancelWon[o]
                    /\ log[o].state # "absent"
                    /\ task[o].pc \in {"none", "written"}

OwnerDecides == \A o \in Ops : OwnerWins(o)

\* A verdict of the operation is recorded, or told to the agent, or on its way.
Said(o, v) == \/ log[o].body = v
              \/ task[o].pc = "written" /\ task[o].settled = v
              \/ v \in got[o]
              \/ \E a \in answers : a.op = o /\ a.answer = v

\* The strengthening of OneVerdict: the log, the execution, the frames under way
\* and the agent name one verdict, and none before the execution has written it.
VerdictAgreed(o) ==
    /\ \A v, w \in Verdicts : Said(o, v) /\ Said(o, w) => v = w
    /\ \A v \in Verdicts : Said(o, v) => log[o].state # "absent" /\ task[o].pc \in {"none", "written"}
    /\ Said(o, "ok") => effects[o] = 1

VerdictsAgree == \A o \in Ops : VerdictAgreed(o)

\* Idle means that nothing is in flight, and stays true.
IdleIsEmpty == phase = "idle" => \A o \in Ops : task[o].pc = "none"

\* The inductive invariant.
RpcInv == RpcTypeOK /\ AtMostOnce /\ ExecutionFollowsClaim /\ OwnerDecides /\ IdleIsEmpty

\* Closing ends: the executions that were open observe the cancellation even if
\* the capability never answers.
CloseQuiesces == (phase = "closed") ~> (phase # "closed")

\* A call does not hang: it is answered or its connection is dropped, unless the
\* capability itself does not answer.
CallReturns ==
    \A o \in Ops : (o \in Waiting) ~> (o \notin Waiting \/ task[o].pc = "running")

\* The operation log and the host together keep the abstract promise.
Fate(o) == IF log[o].state = "absent" THEN "unknown"
           ELSE IF log[o].state = "recorded" THEN "ok"
           ELSE IF log[o].state = "failed" THEN "failed"
           ELSE IF task[o].pc \in {"none", "written"} THEN "lost" ELSE "open"

Promise == INSTANCE OperationPromise
    WITH fate <- [o \in Ops |-> Fate(o)], reached <- [o \in Ops |-> effects[o] > 0]

\* Every step of the channel is a step of the promise or changes nothing of it.
KeepsPromise == Promise!Spec
=============================================================================
