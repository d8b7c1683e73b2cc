-------------------------- MODULE ReverseRpcProofs --------------------------
(***************************************************************************)
(* Proofs about ReverseRpc, for every number of operations, calls, process *)
(* lifetimes, any window and any combination of faults.                    *)
(***************************************************************************)
EXTENDS ReverseRpc, FiniteSetTheorems, SequenceTheorems, TLAPS

-----------------------------------------------------------------------------
(* Types.                                                                  *)

\* Taking a frame out of the lane leaves a lane.
LEMMA TakeType ==
    ASSUME lane \in Seq(Frames), NEW i \in 1..Len(lane), Take(i)
    PROVE  lane' \in Seq(Frames) /\ lane[i] \in Frames
<1>1. Len(lane) \in Nat /\ \A j \in 1..Len(lane) : lane[j] \in Frames
    BY LenProperties, ElementOfSeq
<1>2. SubSeq(lane, 1, i - 1) \in Seq(Frames)
    BY <1>1, SubSeqProperties
<1>3. SubSeq(lane, i + 1, Len(lane)) \in Seq(Frames)
    BY <1>1, SubSeqProperties
<1>4. SubSeq(lane, 1, i - 1) \o SubSeq(lane, i + 1, Len(lane)) \in Seq(Frames)
    BY <1>2, <1>3, ConcatProperties
<1> QED BY <1>1, <1>4 DEF Take

\* What a claim of a typed row may answer.
LEMMA ClaimOutcomes ==
    ASSUME NEW row \in Rows, NEW r \in Reqs, NEW e \in Nat
    PROVE  ClaimOutcome(row, r, e) \in {"fresh", "conflict", "evicted", "owned", "ambiguous"} \cup Verdicts
BY RpcConstants DEF ClaimOutcome, Rows, Verdicts, NoBody

LEMMA InitialTypes == Init => RpcTypeOK
<1> SUFFICES ASSUME Init PROVE RpcTypeOK
    OBVIOUS
<1>1. NoRow \in Rows
    BY RpcConstants DEF NoRow, Rows, NoBody
<1>2. NoTask \in Tasks
    BY DEF NoTask, Tasks, NoBody
<1>3. << >> \in Seq(Frames)
    OBVIOUS
<1>4. call \in [Ops -> [st : {"idle", "waiting", "disconnected", "settled"},
                        n : 0..MaxCalls, req : Reqs \cup {NoReq}, cancelled : BOOLEAN]]
    BY RpcConstants DEF Init
<1>5. epoch \in 1..MaxEpoch
    BY RpcConstants DEF Init
<1> QED BY <1>1, <1>2, <1>3, <1>4, <1>5 DEF Init, RpcTypeOK

\* A readable frame is in the lane and leaves a lane behind.
LEMMA ReaderTypes ==
    ASSUME RpcTypeOK, NEW i \in Readable, Take(i)
    PROVE  /\ lane' \in Seq(Frames) /\ lane[i] \in Frames
           /\ lane[i].op \in Ops
           /\ lane[i].kind = "request" => lane[i].n \in 1..MaxCalls /\ lane[i].req \in Reqs
<1>1. i \in 1..Len(lane)
    BY DEF Readable
<1>2. lane' \in Seq(Frames) /\ lane[i] \in Frames
    BY <1>1, TakeType DEF RpcTypeOK
<1> QED BY <1>2 DEF Frames

\* The sandbox's steps keep every type.
LEMMA CallTypes ==
    ASSUME RpcTypeOK, NEW o \in Ops, NEW r \in Reqs, Call(o, r)
    PROVE  RpcTypeOK'
<1>1. call[o].n + 1 \in 1..MaxCalls
    BY RpcConstants DEF Call, RpcTypeOK
<1>2. [kind |-> "request", op |-> o, n |-> call[o].n + 1, req |-> r] \in Frames
    BY <1>1 DEF Frames
<1>3. lane' \in Seq(Frames)
    BY <1>2 DEF Call, RpcTypeOK
<1>4. call' \in [Ops -> [st : {"idle", "waiting", "disconnected", "settled"},
                        n : 0..MaxCalls, req : Reqs \cup {NoReq}, cancelled : BOOLEAN]]
    BY <1>1 DEF Call, RpcTypeOK
<1> QED BY <1>3, <1>4 DEF Call, RpcTypeOK, rows, host, ghosts

LEMMA RequestCancelTypes ==
    ASSUME RpcTypeOK, NEW o \in Ops, RequestCancel(o)
    PROVE  RpcTypeOK'
<1>1. [kind |-> "cancel", op |-> o] \in Frames
    BY DEF Frames
<1>2. lane' \in Seq(Frames)
    BY <1>1 DEF RequestCancel, RpcTypeOK
<1>3. call' \in [Ops -> [st : {"idle", "waiting", "disconnected", "settled"},
                        n : 0..MaxCalls, req : Reqs \cup {NoReq}, cancelled : BOOLEAN]]
    BY DEF RequestCancel, RpcTypeOK
<1> QED BY <1>2, <1>3 DEF RequestCancel, RpcTypeOK, rows, host, ghosts

LEMMA ReceiveTypes ==
    ASSUME RpcTypeOK, NEW a \in answers, Receive(a)
    PROVE  RpcTypeOK'
<1>1. a.op \in Ops /\ a.answer \in Answers
    BY DEF RpcTypeOK
<1>2. [kind |-> "ack", op |-> a.op] \in Frames
    BY <1>1 DEF Frames
<1>3. answers' \subseteq [op : Ops, n : 1..MaxCalls, answer : Answers]
    BY DEF Receive, RpcTypeOK
<1>4. CASE call[a.op].st = "waiting" /\ call[a.op].n = a.n
    <2>1. /\ call' = [call EXCEPT ![a.op].st = "settled"]
          /\ got' = [got EXCEPT ![a.op] = @ \cup {a.answer}]
          /\ lane' = Append(lane, [kind |-> "ack", op |-> a.op])
        BY <1>4 DEF Receive
    <2>2. lane' \in Seq(Frames)
        BY <1>2, <2>1 DEF RpcTypeOK
    <2>3. call' \in [Ops -> [st : {"idle", "waiting", "disconnected", "settled"},
                             n : 0..MaxCalls, req : Reqs \cup {NoReq}, cancelled : BOOLEAN]]
        BY <1>1, <2>1 DEF RpcTypeOK
    <2>4. got' \in [Ops -> SUBSET Answers]
        BY <1>1, <2>1 DEF RpcTypeOK
    <2> QED BY <1>3, <2>2, <2>3, <2>4 DEF Receive, RpcTypeOK, rows, host
<1>5. CASE ~(call[a.op].st = "waiting" /\ call[a.op].n = a.n)
    <2>1. UNCHANGED <<call, got, lane>>
        BY <1>5 DEF Receive
    <2> QED BY <1>3, <2>1 DEF Receive, RpcTypeOK, rows, host
<1> QED BY <1>4, <1>5

\* What the operators on rows and entries return.
LEMMA EvictType ==
    ASSUME NEW row \in Rows PROVE Evict(row) \in Rows
BY DEF Evict, Rows, NoBody

LEMMA SettleType ==
    ASSUME NEW row \in Rows, NEW v \in Verdicts PROVE Settle(row, v) \in Rows
BY DEF Settle, Rows, Verdicts

LEMMA CancelTypes ==
    ASSUME task \in [Ops -> Tasks], NEW os
    PROVE  CancelOwned(os) \in [Ops -> Tasks]
<1>1. ASSUME NEW t \in Tasks PROVE [t EXCEPT !.owner = "cancellation"] \in Tasks
    BY DEF Tasks
<1> QED BY <1>1 DEF CancelOwned

\* The host's reader keeps every type.
LEMMA ReaderKeepsTypes ==
    ASSUME RpcTypeOK, NEW i \in Readable, Dispatch(i) \/ HostCancel(i) \/ HostAcknowledge(i)
    PROVE  RpcTypeOK'
<1>0. Take(i)
    BY DEF Dispatch, DispatchRefused, DispatchFresh, DispatchAttached, DispatchSettled,
        DispatchStoreError, HostCancel, HostAcknowledge
<1>1. /\ lane' \in Seq(Frames)
      /\ lane[i].op \in Ops
      /\ lane[i].kind = "request" => lane[i].n \in 1..MaxCalls /\ lane[i].req \in Reqs
    BY <1>0, ReaderTypes
<1>2. ASSUME NEW a \in Answers, Answer(lane[i], a), lane[i].kind = "request"
      PROVE  answers' \subseteq [op : Ops, n : 1..MaxCalls, answer : Answers]
    BY <1>1, <1>2 DEF Answer, RpcTypeOK
<1>3. CASE DispatchRefused(i)
    <2>1. answers' \subseteq [op : Ops, n : 1..MaxCalls, answer : Answers]
        BY <1>2, <1>3 DEF DispatchRefused, Request, Answers, Refusals
    <2> QED BY <1>1, <1>3, <2>1 DEF DispatchRefused, RpcTypeOK, rows, host, ghosts
<1>4. CASE DispatchFresh(i)
    <2>1. [state |-> "claimed", req |-> lane[i].req, epoch |-> epoch, body |-> NoBody] \in Rows
        BY <1>1, <1>4, RpcConstants DEF DispatchFresh, Admits, Request, RpcTypeOK, Rows, NoBody
    <2>2. [NoTask EXCEPT !.pc = "spawned"] \in Tasks
        BY DEF NoTask, Tasks, NoBody
    <2>3. waiters' \in [Ops -> SUBSET (1..MaxCalls)]
        BY <1>1, <1>4 DEF DispatchFresh, Admits, Request, Watch, RpcTypeOK
    <2> QED BY <1>1, <1>4, <2>1, <2>2, <2>3 DEF DispatchFresh, RpcTypeOK, ghosts
<1>5. CASE DispatchAttached(i)
    <2>1. waiters' \in [Ops -> SUBSET (1..MaxCalls)]
        BY <1>1, <1>5 DEF DispatchAttached, Admits, Request, Watch, RpcTypeOK
    <2> QED BY <1>1, <1>5, <2>1 DEF DispatchAttached, RpcTypeOK, rows, ghosts
<1>6. CASE DispatchSettled(i)
    <2>1. answers' \subseteq [op : Ops, n : 1..MaxCalls, answer : Answers]
        BY <1>2, <1>6 DEF DispatchSettled, Admits, Request, Answers, Refusals
    <2> QED BY <1>1, <1>6, <2>1 DEF DispatchSettled, RpcTypeOK, rows, host, ghosts
<1>7. CASE DispatchStoreError(i)
    <2>1. answers' \subseteq [op : Ops, n : 1..MaxCalls, answer : Answers]
        BY <1>2, <1>7 DEF DispatchStoreError, Admits, Request, Answers, Refusals
    <2>2. [state |-> "claimed", req |-> lane[i].req, epoch |-> epoch, body |-> NoBody] \in Rows
        BY <1>1, <1>7, RpcConstants DEF DispatchStoreError, Admits, Request, RpcTypeOK, Rows, NoBody
    <2>3. log' \in [Ops -> Rows]
        BY <1>1, <1>7, <2>2 DEF DispatchStoreError, RpcTypeOK
    <2> QED BY <1>1, <1>7, <2>1, <2>3 DEF DispatchStoreError, RpcTypeOK, host, ghosts
<1>8. CASE HostCancel(i)
    <2>1. task' \in [Ops -> Tasks]
        BY <1>8, CancelTypes DEF HostCancel, RpcTypeOK
    <2>2. cancelWon' \in [Ops -> BOOLEAN]
        BY <1>8 DEF HostCancel, WonBy, RpcTypeOK
    <2> QED BY <1>1, <1>8, <2>1, <2>2 DEF HostCancel, RpcTypeOK, rows
<1>9. CASE HostAcknowledge(i)
    <2>0. log[lane[i].op] \in Rows /\ Evict(log[lane[i].op]) \in Rows
        BY <1>1, EvictType DEF RpcTypeOK
    <2>1. log' \in [Ops -> Rows]
        <3>1. CASE log' = [log EXCEPT ![lane[i].op] = Evict(@)]
            BY <1>1, <2>0, <3>1 DEF RpcTypeOK
        <3>2. CASE UNCHANGED log
            BY <3>2 DEF RpcTypeOK
        <3> QED BY <1>9, <3>1, <3>2 DEF HostAcknowledge
    <2> QED BY <1>1, <1>9, <2>1 DEF HostAcknowledge, RpcTypeOK, host, ghosts
<1> QED BY <1>3, <1>4, <1>5, <1>6, <1>7, <1>8, <1>9 DEF Dispatch

\* Executions keep every type.
LEMMA ExecutionTypes ==
    ASSUME RpcTypeOK, ExecutionFollowsClaim, NEW o \in Ops, NEW v \in Verdicts,
           Signal(o) \/ Execute(o) \/ Finish(o, v)
    PROVE  RpcTypeOK'
<1>1. /\ task[o] \in Tasks
      /\ task[o].pc \in {"ready", "settling", "written"} => task[o].settled \in Verdicts
    BY DEF RpcTypeOK, ExecutionFollowsClaim, ClaimPrecedes
<1>3. task' \in [Ops -> Tasks]
    <2>1. CASE Signal(o)
        BY <2>1, <1>1 DEF Signal, RpcTypeOK, Tasks
    <2>2. CASE Begin(o)
        BY <2>2, <1>1 DEF Begin, RpcTypeOK, Tasks, Verdicts
    <2>3. CASE Respond(o)
        BY <2>3, <1>1 DEF Respond, RpcTypeOK, Tasks
    <2>7. CASE ObserveCancel(o)
        BY <2>7, <1>1 DEF ObserveCancel, RpcTypeOK, Tasks, Verdicts
    <2>8. CASE Record(o)
        <3>1. task' = [task EXCEPT ![o].pc = "written"]
            BY <2>8 DEF Record
        <3> QED BY <3>1, <1>1 DEF RpcTypeOK, Tasks
    <2>4. CASE Finish(o, v)
        BY <2>4, <1>1 DEF Finish, RpcTypeOK, Tasks, Verdicts
    <2>5. CASE ClaimSettlement(o)
        <3>1. [task[o] EXCEPT !.pc = "settling", !.owner = "settling"] \in Tasks
            BY <1>1 DEF Tasks
        <3>2. [task[o] EXCEPT !.pc = "settling", !.settled = "cancelled"] \in Tasks
            BY <1>1 DEF Tasks, Verdicts
        <3> QED BY <2>5, <3>1, <3>2 DEF ClaimSettlement, RpcTypeOK
    <2>6. CASE Publish(o)
        BY <2>6, <1>1 DEF Publish, RpcTypeOK, Tasks, NoTask
    <2> QED BY <2>1, <2>2, <2>3, <2>4, <2>5, <2>6, <2>7, <2>8 DEF Execute
<1>4. CASE Signal(o) \/ Begin(o) \/ ObserveCancel(o) \/ ClaimSettlement(o) \/ Finish(o, v)
    BY <1>3, <1>4 DEF Signal, Begin, ObserveCancel, ClaimSettlement, Finish, RpcTypeOK,
        rows, wire, ghosts
<1>5. CASE Respond(o)
    BY <1>3, <1>5 DEF Respond, RpcTypeOK, rows, wire
<1>6. CASE Record(o)
    <2>1. log' \in [Ops -> Rows]
        BY <1>1, <1>6, SettleType DEF Record, RpcTypeOK
    <2> QED BY <1>3, <1>6, <2>1 DEF Record, RpcTypeOK, wire, ghosts
<1>7. CASE Publish(o)
    <2>1. waiters' \in [Ops -> SUBSET (1..MaxCalls)]
        BY <1>7 DEF Publish, RpcTypeOK
    <2>2. task[o].settled \in Answers /\ waiters[o] \subseteq 1..MaxCalls
        BY <1>1, <1>7 DEF Publish, RpcTypeOK, Answers
    <2>3. answers' \subseteq [op : Ops, n : 1..MaxCalls, answer : Answers]
        BY <1>7, <2>2 DEF Publish, RpcTypeOK
    <2> QED BY <1>3, <1>7, <2>1, <2>3 DEF Publish, RpcTypeOK, rows, ghosts
<1> QED BY <1>4, <1>5, <1>6, <1>7 DEF Execute

\* The driver, the connection and the process keep every type.
LEMMA DriverTypes ==
    ASSUME RpcTypeOK, Close \/ WaitIdle \/ Attach \/ DropHost \/ DropBox \/ Crash
    PROVE  RpcTypeOK'
<1>0. << >> \in Seq(Frames)
    OBVIOUS
<1>1. CASE Close
    <2>1. task' \in [Ops -> Tasks]
        BY <1>1, CancelTypes DEF Close, RpcTypeOK
    <2>2. cancelWon' \in [Ops -> BOOLEAN]
        BY <1>1 DEF Close, WonBy, RpcTypeOK
    <2> QED BY <1>1, <2>1, <2>2 DEF Close, RpcTypeOK, rows, wire
<1>2. CASE WaitIdle
    BY <1>2 DEF WaitIdle, RpcTypeOK, rows, wire, ghosts
<1>3. CASE Attach
    BY <1>3 DEF Attach, RpcTypeOK, rows, host, ghosts
<1>4. CASE DropHost
    <2>1. waiters' \in [Ops -> SUBSET (1..MaxCalls)]
        BY <1>4 DEF DropHost
    <2>2. lane' \in Seq(Frames)
        BY <1>0, <1>4 DEF DropHost
    <2> QED BY <1>4, <2>1, <2>2 DEF DropHost, RpcTypeOK, rows, ghosts
<1>5. CASE DropBox
    <2>1. call' \in [Ops -> [st : {"idle", "waiting", "disconnected", "settled"},
                             n : 0..MaxCalls, req : Reqs \cup {NoReq}, cancelled : BOOLEAN]]
        BY <1>5 DEF DropBox, RpcTypeOK
    <2>2. lane' \in Seq(Frames)
        BY <1>0, <1>5 DEF DropBox, RpcTypeOK
    <2>3. answers' \subseteq [op : Ops, n : 1..MaxCalls, answer : Answers]
        BY <1>5 DEF DropBox
    <2> QED BY <1>5, <2>1, <2>2, <2>3 DEF DropBox, RpcTypeOK, rows, host, ghosts
<1>6. CASE Crash
    <2>1. NoTask \in Tasks
        BY DEF NoTask, Tasks
    <2>2. epoch' \in 1..MaxEpoch
        BY <1>6, RpcConstants DEF Crash, RpcTypeOK
    <2>3. waiters' \in [Ops -> SUBSET (1..MaxCalls)]
        BY <1>6 DEF Crash
    <2>4. lane' \in Seq(Frames) /\ task' \in [Ops -> Tasks]
        BY <1>0, <1>6, <2>1 DEF Crash
    <2> QED BY <1>6, <2>2, <2>3, <2>4 DEF Crash, RpcTypeOK, ghosts
<1> QED BY <1>1, <1>2, <1>3, <1>4, <1>5, <1>6

LEMMA TypesStep == RpcTypeOK /\ ExecutionFollowsClaim /\ [Next]_vars => RpcTypeOK'
<1> SUFFICES ASSUME RpcTypeOK, ExecutionFollowsClaim, [Next]_vars PROVE RpcTypeOK'
    OBVIOUS
<1>1. ASSUME NEW o \in Ops, NEW r \in Reqs, Call(o, r) PROVE RpcTypeOK'
    BY <1>1, CallTypes
<1>2. ASSUME NEW a \in answers, Receive(a) PROVE RpcTypeOK'
    BY <1>2, ReceiveTypes
<1>3. ASSUME NEW o \in Ops, RequestCancel(o) PROVE RpcTypeOK'
    BY <1>3, RequestCancelTypes
<1>4. CASE Reader
    BY <1>4, ReaderKeepsTypes DEF Reader
<1>5. ASSUME NEW o \in Ops, NEW v \in Verdicts, Signal(o) \/ Execute(o) \/ Finish(o, v) PROVE RpcTypeOK'
    BY <1>5, ExecutionTypes
<1>6. CASE Close \/ WaitIdle \/ Attach \/ DropHost \/ DropBox \/ Crash
    BY <1>6, DriverTypes
<1>7. CASE UNCHANGED vars
    BY <1>7 DEF vars, rows, host, wire, ghosts, RpcTypeOK
<1>8. "ok" \in Verdicts
    BY DEF Verdicts
<1> QED BY <1>1, <1>2, <1>3, <1>4, <1>5, <1>6, <1>7, <1>8 DEF Next

-----------------------------------------------------------------------------
(* The inductive invariant, one operation at a time.                       *)

OpInv(o) == effects[o] <= 1 /\ ClaimPrecedes(o) /\ OwnerWins(o)

\* A step that leaves an operation's row, entry and ghosts alone, and says no
\* "ok" of it, keeps its part of the invariant.
LEMMA OpUntouched ==
    ASSUME NEW o \in Ops, OpInv(o), log'[o] = log[o], task'[o] = task[o],
           effects'[o] = effects[o], cancelWon'[o] = cancelWon[o], SaidOk(o)' => SaidOk(o)
    PROVE  OpInv(o)'
BY DEF OpInv, ClaimPrecedes, OwnerWins

\* What the sandbox does concerns no row and no entry: an "ok" that the agent
\* is given was already on its way.
LEMMA SandboxKeepsOp ==
    ASSUME RpcTypeOK, NEW p \in Ops, OpInv(p),
           \/ \E o \in Ops, r \in Reqs : Call(o, r)
           \/ \E a \in answers : Receive(a)
           \/ \E o \in Ops : RequestCancel(o)
    PROVE  OpInv(p)'
<1>1. CASE \E o \in Ops, r \in Reqs : Call(o, r)
    BY <1>1, OpUntouched DEF Call, rows, host, ghosts, SaidOk
<1>2. ASSUME NEW a \in answers, Receive(a) PROVE OpInv(p)'
    <2>1. a.op \in Ops
        BY DEF RpcTypeOK
    <2>2. "ok" \in got'[p] => "ok" \in got[p] \/ (a.op = p /\ a.answer = "ok")
        BY <1>2, <2>1 DEF Receive, RpcTypeOK
    <2>3. answers' \subseteq answers
        BY <1>2 DEF Receive
    <2>4. SaidOk(p)' => SaidOk(p)
        BY <1>2, <2>2, <2>3 DEF Receive, rows, SaidOk
    <2> QED BY <1>2, <2>4, OpUntouched DEF Receive, rows, host
<1>3. CASE \E o \in Ops : RequestCancel(o)
    BY <1>3, OpUntouched DEF RequestCancel, rows, host, ghosts, SaidOk
<1> QED BY <1>1, <1>2, <1>3

\* An answer that dispatch gives says "ok" only when the log does.
LEMMA DispatchKeepsOp ==
    ASSUME RpcTypeOK, NEW p \in Ops, OpInv(p), NEW i \in Readable, Dispatch(i)
    PROVE  OpInv(p)'
<1>0. Take(i)
    BY DEF Dispatch, DispatchRefused, DispatchFresh, DispatchAttached, DispatchSettled,
        DispatchStoreError
<1>1. lane[i].op \in Ops
    BY <1>0, ReaderTypes
<1> DEFINE f == lane[i]
<1>2. ASSUME NEW a, Answer(f, a), a = "ok" => log[f.op].body = "ok", got' = got, log' = log
      PROVE  SaidOk(p)' => SaidOk(p)
    BY <1>2 DEF Answer, SaidOk
<1>3. CASE DispatchRefused(i)
    <2>1. SaidOk(p)' => SaidOk(p)
        BY <1>2, <1>3 DEF DispatchRefused, rows, ghosts
    <2> QED BY <1>3, <2>1, OpUntouched DEF DispatchRefused, rows, host, ghosts
<1>4. CASE DispatchFresh(i)
    <2>1. log[f.op].state = "absent"
        <3>1. log[f.op].body \in Verdicts \cup {NoBody}
            BY <1>1 DEF RpcTypeOK, Rows
        <3> QED BY <1>4, <3>1 DEF DispatchFresh, ClaimOutcome, Verdicts, NoBody
    <2>2. log' = [log EXCEPT ![f.op] = [state |-> "claimed", req |-> f.req,
                                        epoch |-> epoch, body |-> NoBody]]
        BY <1>4 DEF DispatchFresh
    <2>3. task' = [task EXCEPT ![f.op] = [NoTask EXCEPT !.pc = "spawned"]]
        BY <1>4 DEF DispatchFresh
    <2>4. effects' = effects /\ got' = got /\ cancelWon' = cancelWon /\ answers' = answers
        BY <1>4 DEF DispatchFresh, ghosts
    <2>5. CASE p = f.op
        <3>1. /\ log'[p].state = "claimed" /\ log'[p].body = NoBody
              /\ task'[p].pc = "spawned" /\ task'[p].settled = NoBody
              /\ task'[p].owner = "pending"
            BY <2>2, <2>3, <2>5 DEF RpcTypeOK, NoTask
        <3>2. effects[p] = 0 /\ ~cancelWon[p] /\ ~SaidOk(p)
            BY <2>1, <2>5 DEF OpInv, ClaimPrecedes, OwnerWins
        <3>3. ~SaidOk(p)'
            BY <3>1, <3>2, <2>4 DEF SaidOk, NoBody
        <3> QED BY <2>4, <3>1, <3>2, <3>3 DEF OpInv, ClaimPrecedes, OwnerWins, NoBody
    <2>6. CASE p # f.op
        <3>1. log'[p] = log[p] /\ task'[p] = task[p]
            BY <2>2, <2>3, <2>6 DEF RpcTypeOK
        <3> QED BY <2>4, <3>1, OpUntouched DEF SaidOk
    <2> QED BY <2>5, <2>6
<1>5. CASE DispatchAttached(i)
    BY <1>5, OpUntouched DEF DispatchAttached, rows, ghosts, SaidOk
<1>6. CASE DispatchSettled(i)
    <2>1. ClaimOutcome(log[f.op], f.req, epoch) = "ok" => log[f.op].body = "ok"
        BY DEF ClaimOutcome
    <2>2. SaidOk(p)' => SaidOk(p)
        BY <1>2, <1>6, <2>1 DEF DispatchSettled, rows, ghosts
    <2> QED BY <1>6, <2>2, OpUntouched DEF DispatchSettled, rows, host, ghosts
<1>7. CASE DispatchStoreError(i)
    <2>1. /\ Answer(f, "ambiguous")
          /\ task' = task /\ effects' = effects /\ got' = got /\ cancelWon' = cancelWon
        BY <1>7 DEF DispatchStoreError, host, ghosts
    <2>2. CASE log' = log
        BY <1>2, <2>1, <2>2, OpUntouched
    <2>3. CASE /\ log[f.op].state = "absent"
               /\ log' = [log EXCEPT ![f.op] = [state |-> "claimed", req |-> f.req,
                                                epoch |-> epoch, body |-> NoBody]]
        <3>1. CASE p = f.op
            <4>1. log'[p].state = "claimed" /\ log'[p].body = NoBody
                BY <2>3, <3>1 DEF RpcTypeOK
            <4>2. task[p].pc = "none" /\ ~SaidOk(p)
                BY <2>3, <3>1 DEF OpInv, ClaimPrecedes, OwnerWins
            <4>3. ~SaidOk(p)'
                BY <2>1, <4>1, <4>2 DEF SaidOk, NoBody, Answer
            <4> QED BY <2>1, <4>1, <4>2, <4>3 DEF OpInv, ClaimPrecedes, OwnerWins
        <3>2. CASE p # f.op
            <4>1. log'[p] = log[p]
                BY <2>3, <3>2 DEF RpcTypeOK
            <4>2. SaidOk(p)' => SaidOk(p)
                BY <2>1, <4>1 DEF SaidOk, Answer
            <4> QED BY <2>1, <4>1, <4>2, OpUntouched
        <3> QED BY <3>1, <3>2
    <2> QED BY <1>7, <2>2, <2>3 DEF DispatchStoreError
<1> QED BY <1>3, <1>4, <1>5, <1>6, <1>7 DEF Dispatch

\* Cancellation wins only an entry whose settlement is pending, and such an
\* entry said nothing yet.
LEMMA CancelKeepsOp ==
    ASSUME RpcTypeOK, NEW p \in Ops, OpInv(p), NEW os,
           task' = CancelOwned(os), cancelWon' = WonBy(os),
           UNCHANGED <<log, effects, got, answers>>
    PROVE  OpInv(p)'
<1>1. SaidOk(p)' = SaidOk(p)
    BY DEF SaidOk
<1>2. CASE p \in os /\ task[p].pc # "none" /\ task[p].owner = "pending"
    <2>1. task'[p] = [task[p] EXCEPT !.owner = "cancellation"] /\ cancelWon'[p] = TRUE
        BY <1>2 DEF CancelOwned, WonBy
    <2>2. /\ task'[p].pc = task[p].pc /\ task'[p].settled = task[p].settled
          /\ task'[p].owner = "cancellation"
        BY <2>1 DEF RpcTypeOK, Tasks
    <2>3. ~SaidOk(p) /\ task[p].pc \notin {"settling", "written"} /\ log[p].state # "absent"
        BY <1>2 DEF OpInv, OwnerWins, ClaimPrecedes
    <2> QED BY <1>1, <2>1, <2>2, <2>3 DEF OpInv, ClaimPrecedes, OwnerWins
<1>3. CASE ~(p \in os /\ task[p].pc # "none" /\ task[p].owner = "pending")
    <2>1. task'[p] = task[p]
        BY <1>3 DEF CancelOwned
    <2>2. cancelWon'[p] = cancelWon[p]
        BY <1>3 DEF WonBy, RpcTypeOK
    <2> QED BY <1>1, <2>1, <2>2, OpUntouched
<1> QED BY <1>2, <1>3

LEMMA AcknowledgeKeepsOp ==
    ASSUME RpcTypeOK, NEW p \in Ops, OpInv(p), NEW i \in Readable, HostAcknowledge(i)
    PROVE  OpInv(p)'
<1>0. Take(i)
    BY DEF HostAcknowledge
<1>1. lane[i].op \in Ops
    BY <1>0, ReaderTypes
<1>2. UNCHANGED <<task, effects, got, cancelWon, answers>>
    BY DEF HostAcknowledge, host, ghosts
<1>3. CASE log' = log
    BY <1>2, <1>3, OpUntouched DEF SaidOk
<1>4. CASE log' = [log EXCEPT ![lane[i].op] = Evict(@)]
    <2>1. log[p] \in Rows /\ (log'[p] = log[p] \/ log'[p] = Evict(log[p]))
        BY <1>1, <1>4 DEF RpcTypeOK
    <2>2. log'[p].state = log[p].state /\ (log'[p].body = log[p].body \/ log'[p].body = NoBody)
        BY <2>1 DEF Evict, Rows
    <2>3. SaidOk(p)' => SaidOk(p)
        BY <1>2, <2>2 DEF SaidOk, NoBody
    <2> QED BY <1>2, <2>2, <2>3 DEF OpInv, ClaimPrecedes, OwnerWins
<1> QED BY <1>3, <1>4 DEF HostAcknowledge

\* An execution moves one entry along; it says "ok" of its operation only when it
\* owns the settlement and the capability was reached.
LEMMA ExecutionKeepsOp ==
    ASSUME RpcTypeOK, NEW p \in Ops, OpInv(p), NEW o \in Ops, NEW v \in Verdicts,
           Signal(o) \/ Execute(o) \/ Finish(o, v)
    PROVE  OpInv(p)'
<1>1. CASE p # o
    <2>1. task'[p] = task[p] /\ effects'[p] = effects[p] /\ log'[p] = log[p]
          /\ cancelWon' = cancelWon /\ got' = got
        BY <1>1 DEF Signal, Execute, Begin, Respond, ObserveCancel, ClaimSettlement, Record,
            Publish, Finish, RpcTypeOK, rows, ghosts
    <2>2. \A a \in answers' : a \in answers \/ a.op = o
        BY DEF Signal, Execute, Begin, Respond, ObserveCancel, ClaimSettlement, Record,
            Publish, Finish, wire
    <2>3. SaidOk(p)' => SaidOk(p)
        BY <1>1, <2>1, <2>2 DEF SaidOk
    <2> QED BY <2>1, <2>3, OpUntouched
<1>2. CASE p = o
    <2>0. task[p] \in Tasks /\ task \in [Ops -> Tasks] /\ effects[p] \in Nat
        BY DEF RpcTypeOK
    <2>1. CASE Signal(o)
        <3>1. UNCHANGED <<log, effects, cancelWon>> /\ SaidOk(p)' = SaidOk(p)
            BY <2>1 DEF Signal, rows, wire, ghosts, SaidOk
        <3>2. /\ task'[p].pc = task[p].pc /\ task'[p].settled = task[p].settled
              /\ task'[p].owner = task[p].owner
            BY <1>2, <2>0, <2>1 DEF Signal, Tasks
        <3> QED BY <3>1, <3>2 DEF OpInv, ClaimPrecedes, OwnerWins
    <2>2. CASE Begin(o)
        <3>1. UNCHANGED <<log, effects, cancelWon>> /\ SaidOk(p)' = SaidOk(p)
            BY <2>2 DEF Begin, rows, wire, ghosts, SaidOk
        <3>2. /\ task[p].pc = "spawned" /\ task'[p].owner = task[p].owner
              /\ \/ task'[p].pc = "ready" /\ task'[p].settled = "cancelled"
                 \/ task'[p].pc = "admitted" /\ task'[p].settled = task[p].settled
            BY <1>2, <2>0, <2>2 DEF Begin, Tasks
        <3> QED BY <3>1, <3>2 DEF OpInv, ClaimPrecedes, OwnerWins, Verdicts
    <2>3. CASE Respond(o)
        <3>1. UNCHANGED <<log, cancelWon>> /\ SaidOk(p)' = SaidOk(p)
            BY <2>3 DEF Respond, rows, wire, SaidOk
        <3>2. /\ task[p].pc = "admitted" /\ task'[p].owner = task[p].owner
              /\ task'[p].pc = "running" /\ task'[p].settled = task[p].settled
              /\ effects'[p] = effects[p] + 1
            BY <1>2, <2>0, <2>3 DEF Respond, Tasks, RpcTypeOK
        <3> QED BY <3>1, <3>2 DEF OpInv, ClaimPrecedes, OwnerWins
    <2>4. CASE ObserveCancel(o) \/ Finish(o, v)
        <3>1. UNCHANGED <<log, effects, cancelWon>> /\ SaidOk(p)' = SaidOk(p)
            BY <2>4 DEF ObserveCancel, Finish, rows, wire, ghosts, SaidOk
        <3>2. /\ task[p].pc \in {"admitted", "running"} /\ task'[p].owner = task[p].owner
              /\ task'[p].pc = "ready" /\ task'[p].settled \in Verdicts
              /\ task'[p].settled = "ok" => task[p].pc = "running"
            BY <1>2, <2>0, <2>4 DEF ObserveCancel, Finish, Tasks, Verdicts
        <3> QED BY <3>1, <3>2 DEF OpInv, ClaimPrecedes, OwnerWins
    <2>5. CASE ClaimSettlement(o)
        <3>1. UNCHANGED <<log, effects, cancelWon>> /\ SaidOk(p)' = SaidOk(p)
            BY <2>5 DEF ClaimSettlement, rows, wire, ghosts, SaidOk
        <3>2. /\ task[p].pc = "ready" /\ task'[p].pc = "settling"
              /\ \/ /\ task[p].owner = "pending" /\ task'[p].owner = "settling"
                    /\ task'[p].settled = task[p].settled
                 \/ /\ task[p].owner # "pending" /\ task'[p].owner = task[p].owner
                    /\ task'[p].settled = "cancelled"
            BY <1>2, <2>0, <2>5 DEF ClaimSettlement, Tasks
        <3> QED BY <3>1, <3>2 DEF OpInv, ClaimPrecedes, OwnerWins, Verdicts
    <2>6. CASE Record(o)
        <3>1. UNCHANGED <<effects, cancelWon, got, answers>>
            BY <2>6 DEF Record, wire, ghosts
        <3>2. /\ task[p].pc = "settling" /\ task'[p].pc = "written"
              /\ task'[p].owner = task[p].owner /\ task'[p].settled = task[p].settled
            <4>1. task[o].pc = "settling" /\ task' = [task EXCEPT ![o].pc = "written"]
                BY <2>6 DEF Record
            <4> QED BY <1>2, <2>0, <4>1 DEF Tasks
        <3>3. log[p].state = "claimed" /\ log[p] \in Rows /\ task[p].settled \in Verdicts
            BY <3>2 DEF OpInv, ClaimPrecedes, RpcTypeOK
        <3>4. CASE log' = log
            <4>1. SaidOk(p)' = SaidOk(p)
                BY <3>1, <3>4 DEF SaidOk
            <4> QED BY <3>1, <3>2, <3>4, <4>1 DEF OpInv, ClaimPrecedes, OwnerWins
        <3>5. CASE log' = [log EXCEPT ![o] = Settle(@, task[o].settled)]
            <4>1. log'[p] = Settle(log[p], task[p].settled)
                BY <1>2, <3>5 DEF RpcTypeOK
            <4>2. /\ log'[p].state # "absent"
                  /\ log'[p].state = "recorded" => task[p].settled = "ok"
                  /\ log'[p].body = task[p].settled
                BY <3>3, <4>1 DEF Settle, Rows
            <4>3. task[p].settled # "ok" => (SaidOk(p)' => SaidOk(p))
                BY <3>1, <4>2 DEF SaidOk
            <4> QED BY <3>1, <3>2, <3>3, <4>2, <4>3 DEF OpInv, ClaimPrecedes, OwnerWins
        <3> QED BY <2>6, <3>4, <3>5 DEF Record
    <2>7. CASE Publish(o)
        <3>1. UNCHANGED <<log, effects, cancelWon, got>> /\ task[p].pc = "written"
            BY <1>2, <2>7 DEF Publish, rows, ghosts
        <3>2. /\ task'[p].pc = "none" /\ task'[p].owner = "pending"
              /\ task'[p].settled = NoBody
            BY <1>2, <2>0, <2>7 DEF Publish, NoTask
        <3>3. \A a \in answers' : a \in answers \/ a.answer = task[p].settled
            BY <1>2, <2>7 DEF Publish
        <3>4. SaidOk(p)' => SaidOk(p) \/ task[p].settled = "ok"
            BY <3>1, <3>3 DEF SaidOk
        <3>5. task[p].settled = "ok" => ~cancelWon[p]
            BY <3>1 DEF OpInv, OwnerWins
        <3> QED BY <3>1, <3>2, <3>4, <3>5 DEF OpInv, ClaimPrecedes, OwnerWins, NoBody
    <2> QED BY <2>1, <2>2, <2>3, <2>4, <2>5, <2>6, <2>7 DEF Execute
<1> QED BY <1>1, <1>2

\* A death of the process or of a connection drops entries and answers; it
\* undoes no row.
LEMMA DriverKeepsOp ==
    ASSUME RpcTypeOK, NEW p \in Ops, OpInv(p),
           Close \/ WaitIdle \/ Attach \/ DropHost \/ DropBox \/ Crash
    PROVE  OpInv(p)'
<1>1. CASE Close
    BY <1>1, CancelKeepsOp DEF Close, rows, wire
<1>2. CASE WaitIdle \/ Attach \/ DropHost \/ DropBox
    <2>1. UNCHANGED <<log, task, effects, got, cancelWon>> /\ answers' \subseteq answers
        BY <1>2 DEF WaitIdle, Attach, DropHost, DropBox, rows, host, wire, ghosts
    <2>2. SaidOk(p)' => SaidOk(p)
        BY <2>1 DEF SaidOk
    <2> QED BY <2>1, <2>2, OpUntouched
<1>3. CASE Crash
    <2>1. UNCHANGED <<log, effects, got, cancelWon, answers>> /\ task'[p] = NoTask
        BY <1>3 DEF Crash, ghosts
    <2>2. SaidOk(p)' = SaidOk(p)
        BY <2>1 DEF SaidOk
    <2> QED BY <2>1, <2>2 DEF OpInv, ClaimPrecedes, OwnerWins, NoTask, NoBody
<1> QED BY <1>1, <1>2, <1>3

LEMMA OpStep ==
    ASSUME RpcTypeOK, NEW p \in Ops, OpInv(p), [Next]_vars
    PROVE  OpInv(p)'
<1>1. CASE \/ \E o \in Ops, r \in Reqs : Call(o, r)
           \/ \E a \in answers : Receive(a)
           \/ \E o \in Ops : RequestCancel(o)
    BY <1>1, SandboxKeepsOp
<1>2. ASSUME NEW i \in Readable, Dispatch(i) \/ HostCancel(i) \/ HostAcknowledge(i)
      PROVE  OpInv(p)'
    <2>1. CASE Dispatch(i)
        BY <2>1, DispatchKeepsOp
    <2>2. CASE HostCancel(i)
        BY <2>2, CancelKeepsOp DEF HostCancel, rows
    <2>3. CASE HostAcknowledge(i)
        BY <2>3, AcknowledgeKeepsOp
    <2> QED BY <1>2, <2>1, <2>2, <2>3
<1>3. ASSUME NEW o \in Ops, NEW v \in Verdicts, Signal(o) \/ Execute(o) \/ Finish(o, v)
      PROVE  OpInv(p)'
    BY <1>3, ExecutionKeepsOp
<1>4. CASE Close \/ WaitIdle \/ Attach \/ DropHost \/ DropBox \/ Crash
    BY <1>4, DriverKeepsOp
<1>5. CASE UNCHANGED vars
    BY <1>5, OpUntouched DEF vars, rows, host, wire, ghosts, SaidOk
<1>6. "ok" \in Verdicts
    BY DEF Verdicts
<1> QED BY <1>1, <1>2, <1>3, <1>4, <1>5, <1>6 DEF Next, Reader

\* Only a driving host gains an entry, and waiting for idleness returns when
\* there is none.
LEMMA IdleStep == RpcTypeOK /\ IdleIsEmpty /\ [Next]_vars => IdleIsEmpty'
<1> SUFFICES ASSUME RpcTypeOK, IdleIsEmpty, [Next]_vars, phase' = "idle", NEW p \in Ops
             PROVE  task'[p].pc = "none"
    BY DEF IdleIsEmpty
<1>1. CASE WaitIdle
    BY <1>1 DEF WaitIdle, InFlight
<1>2. CASE Close \/ Crash
    BY <1>2 DEF Close, Crash
<1>3. CASE \/ \E o \in Ops, r \in Reqs : Call(o, r)
           \/ \E a \in answers : Receive(a)
           \/ \E o \in Ops : RequestCancel(o)
           \/ Attach \/ DropHost \/ DropBox \/ UNCHANGED vars
    BY <1>3 DEF Call, Receive, RequestCancel, Attach, DropHost, DropBox, vars, host, IdleIsEmpty
<1>4. ASSUME NEW i \in Readable, Dispatch(i) \/ HostCancel(i) \/ HostAcknowledge(i)
      PROVE  task'[p].pc = "none"
    <2>1. CASE DispatchFresh(i)
        BY <2>1 DEF DispatchFresh, Admits
    <2>2. CASE DispatchRefused(i) \/ DispatchAttached(i) \/ DispatchSettled(i)
               \/ DispatchStoreError(i) \/ HostAcknowledge(i)
        BY <2>2 DEF DispatchRefused, DispatchAttached, DispatchSettled, DispatchStoreError,
            HostAcknowledge, host, IdleIsEmpty
    <2>3. CASE HostCancel(i)
        <3>1. task[p].pc = "none"
            BY <2>3 DEF HostCancel, IdleIsEmpty
        <3> QED BY <2>3, <3>1 DEF HostCancel, CancelOwned
    <2> QED BY <1>4, <2>1, <2>2, <2>3 DEF Dispatch
<1>5. ASSUME NEW o \in Ops, NEW v \in Verdicts, Signal(o) \/ Execute(o) \/ Finish(o, v)
      PROVE  task'[p].pc = "none"
    <2>1. task[o].pc = "none" /\ task[p].pc = "none"
        BY <1>5 DEF Signal, Execute, Begin, Respond, ObserveCancel, ClaimSettlement, Record,
            Publish, Finish, IdleIsEmpty
    <2>2. Signal(o)
        BY <1>5, <2>1 DEF Execute, Begin, Respond, ObserveCancel, ClaimSettlement, Record,
            Publish, Finish
    <2> QED BY <2>1, <2>2 DEF Signal, RpcTypeOK, Tasks
<1>6. "ok" \in Verdicts
    BY DEF Verdicts
<1> QED BY <1>1, <1>2, <1>3, <1>4, <1>5, <1>6 DEF Next, Reader

-----------------------------------------------------------------------------
(* The theorems.                                                           *)

LEMMA InitialInv == Init => RpcInv
<1> SUFFICES ASSUME Init PROVE RpcInv
    OBVIOUS
<1>1. RpcTypeOK
    BY InitialTypes
<1>2. ASSUME NEW o \in Ops PROVE effects[o] <= 1 /\ ClaimPrecedes(o) /\ OwnerWins(o)
    BY DEF Init, NoRow, NoTask, NoBody, ClaimPrecedes, OwnerWins, SaidOk
<1> QED BY <1>1, <1>2 DEF RpcInv, AtMostOnce, ExecutionFollowsClaim, OwnerDecides,
        IdleIsEmpty, Init

LEMMA InvStep == RpcInv /\ [Next]_vars => RpcInv'
<1> SUFFICES ASSUME RpcInv, [Next]_vars PROVE RpcInv'
    OBVIOUS
<1>1. RpcTypeOK'
    BY TypesStep DEF RpcInv
<1>2. ASSUME NEW o \in Ops PROVE OpInv(o)'
    <2>1. OpInv(o)
        BY DEF RpcInv, OpInv, AtMostOnce, ExecutionFollowsClaim, OwnerDecides
    <2> QED BY <2>1, OpStep DEF RpcInv
<1>3. IdleIsEmpty'
    BY IdleStep DEF RpcInv
<1> QED BY <1>1, <1>2, <1>3 DEF RpcInv, OpInv, AtMostOnce, ExecutionFollowsClaim, OwnerDecides

LEMMA InvHolds == Spec => []RpcInv
BY InitialInv, InvStep, PTL DEF Spec

\* Every reachable state of the channel, its log and its host is well typed.
THEOREM RpcTypeCorrect == Spec => []RpcTypeOK
<1>1. RpcInv => RpcTypeOK
    BY DEF RpcInv
<1> QED BY <1>1, InvHolds, PTL

\* Whatever the sandbox re-issues, however often the connection drops, a write
\* fails or the host process dies: no capability is reached twice for one
\* operation identity.
THEOREM CapabilityReachedOnce == Spec => []AtMostOnce
<1>1. RpcInv => AtMostOnce
    BY DEF RpcInv
<1> QED BY <1>1, InvHolds, PTL

\* A cancellation that won the settlement is never contradicted, by the log or
\* by an answer.
THEOREM CancellationsAreRecorded == Spec => []CancellationIsRecorded
<1>1. RpcInv => CancellationIsRecorded
    BY DEF RpcInv, OwnerDecides, OwnerWins, SaidOk, CancellationIsRecorded
<1> QED BY <1>1, InvHolds, PTL

\* After wait_idle returned nothing reaches a capability and no row changes its
\* state, until the process starts again.
LEMMA QuietStep ==
    ASSUME RpcInv, [Next]_vars, phase = "idle", phase' = "idle"
    PROVE  effects' = effects /\ \A o \in Ops : log'[o].state = log[o].state
<1>1. \A o \in Ops : task[o].pc = "none"
    BY DEF RpcInv, IdleIsEmpty
<1>2. CASE \/ \E o \in Ops, r \in Reqs : Call(o, r)
           \/ \E a \in answers : Receive(a)
           \/ \E o \in Ops : RequestCancel(o)
           \/ Close \/ WaitIdle \/ Attach \/ DropHost \/ DropBox \/ Crash \/ UNCHANGED vars
    BY <1>2 DEF Call, Receive, RequestCancel, Close, WaitIdle, Attach, DropHost, DropBox, Crash,
        vars, rows, ghosts
<1>3. ASSUME NEW i \in Readable, Dispatch(i) \/ HostCancel(i) \/ HostAcknowledge(i)
      PROVE  effects' = effects /\ \A o \in Ops : log'[o].state = log[o].state
    <2>1. CASE Dispatch(i) \/ HostCancel(i)
        BY <2>1 DEF Dispatch, DispatchRefused, DispatchFresh, DispatchAttached, DispatchSettled,
            DispatchStoreError, Admits, HostCancel, rows, ghosts
    <2>2. CASE HostAcknowledge(i)
        <3>1. effects' = effects
            BY <2>2 DEF HostAcknowledge, ghosts
        <3>2. ASSUME NEW o \in Ops PROVE log'[o].state = log[o].state
            <4>1. log[o] \in Rows
                BY DEF RpcInv, RpcTypeOK
            <4>2. log'[o] = log[o] \/ log'[o] = Evict(log[o])
                BY <2>2 DEF HostAcknowledge, RpcInv, RpcTypeOK
            <4> QED BY <4>1, <4>2 DEF Evict, Rows
        <3> QED BY <3>1, <3>2
    <2> QED BY <1>3, <2>1, <2>2
<1>4. ASSUME NEW o \in Ops, NEW v \in Verdicts, Signal(o) \/ Execute(o) \/ Finish(o, v)
      PROVE  effects' = effects /\ \A p \in Ops : log'[p].state = log[p].state
    <2>1. Signal(o)
        BY <1>1, <1>4 DEF Execute, Begin, Respond, ObserveCancel, ClaimSettlement, Record,
            Publish, Finish
    <2> QED BY <2>1 DEF Signal, rows, ghosts
<1>5. "ok" \in Verdicts
    BY DEF Verdicts
<1> QED BY <1>2, <1>3, <1>4, <1>5 DEF Next, Reader

\* Once the driver's wait for idleness returned, no capability is reached and no
\* row gains a state: the run's totals can be committed.
THEOREM QuiescenceHolds == Spec => QuiescedStaysQuiet
<1>1. RpcInv /\ [Next]_vars =>
          [phase = "idle" /\ phase' = "idle" =>
               /\ effects' = effects
               /\ \A o \in Ops : log'[o].state = log[o].state]_vars
    BY QuietStep
<1> QED BY <1>1, InvHolds, PTL DEF Spec, QuiescedStaysQuiet

-----------------------------------------------------------------------------
(* The channel implements OperationPromise.                                *)

fateBar == [o \in Ops |-> Fate(o)]
reachedBar == [o \in Ops |-> effects[o] > 0]

\* A step that changes no operation's fate and reaches nothing stutters.
LEMMA PromiseStutter ==
    ASSUME effects' = effects, \A p \in Ops : Fate(p)' = Fate(p)
    PROVE  UNCHANGED <<fateBar, reachedBar>>
BY DEF fateBar, reachedBar

LEMMA DispatchKeepsPromise ==
    ASSUME RpcInv, NEW i \in Readable, Dispatch(i)
    PROVE  Promise!Next \/ UNCHANGED <<fateBar, reachedBar>>
<1>0. Take(i)
    BY DEF Dispatch, DispatchRefused, DispatchFresh, DispatchAttached, DispatchSettled,
        DispatchStoreError
<1>1. lane[i].op \in Ops /\ RpcTypeOK
    BY <1>0, ReaderTypes DEF RpcInv
<1> DEFINE f == lane[i]
<1>a. PICK o \in Ops : o = f.op
    BY <1>1
<1>2. CASE DispatchRefused(i) \/ DispatchAttached(i) \/ DispatchSettled(i)
    BY <1>2, PromiseStutter DEF DispatchRefused, DispatchAttached, DispatchSettled, rows, host,
        ghosts, Fate
<1>3. ASSUME NEW kind \in {"open", "lost"}, effects' = effects,
             Fate(o) = "unknown", Fate(o)' = kind,
             \A p \in Ops \ {o} : Fate(p)' = Fate(p)
      PROVE  Promise!Next
    <2>1. fateBar[o] = "unknown"
        BY <1>1, <1>a, <1>3 DEF fateBar
    <2>2. fateBar' = [fateBar EXCEPT ![o] = kind]
        BY <1>1, <1>a, <1>3 DEF fateBar
    <2>3. reachedBar' = reachedBar
        BY <1>3 DEF reachedBar
    <2>4. Promise!Take(o, kind)
        BY <2>1, <2>2, <2>3 DEF Promise!Take, fateBar, reachedBar
    <2> QED BY <1>1, <1>a, <2>4 DEF Promise!Next
<1>4. CASE DispatchFresh(i)
    <2>1. log[o].state = "absent"
        <3>1. log[f.op].body \in Verdicts \cup {NoBody}
            BY <1>1 DEF RpcTypeOK, Rows
        <3> QED BY <1>a, <1>4, <3>1 DEF DispatchFresh, ClaimOutcome, Verdicts, NoBody
    <2>2. effects' = effects
        BY <1>4 DEF DispatchFresh, ghosts
    <2>3. log'[o].state = "claimed" /\ task'[o].pc = "spawned"
        BY <1>1, <1>a, <1>4 DEF DispatchFresh, RpcTypeOK, NoTask
    <2>4. \A p \in Ops \ {o} : log'[p] = log[p] /\ task'[p] = task[p]
        BY <1>1, <1>a, <1>4 DEF DispatchFresh, RpcTypeOK
    <2>5. Fate(o) = "unknown" /\ Fate(o)' = "open"
        BY <2>1, <2>3 DEF Fate
    <2>6. \A p \in Ops \ {o} : Fate(p)' = Fate(p)
        BY <2>4 DEF Fate
    <2> QED BY <1>3, <2>2, <2>5, <2>6
<1>5. CASE DispatchStoreError(i)
    <2>1. effects' = effects /\ task' = task
        BY <1>5 DEF DispatchStoreError, ghosts, host
    <2>2. CASE log' = log
        BY <2>1, <2>2, PromiseStutter DEF Fate
    <2>3. CASE /\ log[f.op].state = "absent"
               /\ log' = [log EXCEPT ![f.op] = [state |-> "claimed", req |-> f.req,
                                                epoch |-> epoch, body |-> NoBody]]
        <3>1. task[o].pc = "none"
            BY <1>1, <1>a, <2>3 DEF RpcInv, ExecutionFollowsClaim, ClaimPrecedes
        <3>2. log'[o].state = "claimed" /\ \A p \in Ops \ {o} : log'[p] = log[p]
            BY <1>1, <1>a, <2>3 DEF RpcTypeOK
        <3>3. Fate(o) = "unknown" /\ Fate(o)' = "lost"
            BY <1>a, <2>1, <2>3, <3>1, <3>2 DEF Fate
        <3>4. \A p \in Ops \ {o} : Fate(p)' = Fate(p)
            BY <2>1, <3>2 DEF Fate
        <3> QED BY <1>3, <2>1, <3>3, <3>4
    <2> QED BY <1>5, <2>2, <2>3 DEF DispatchStoreError
<1> QED BY <1>2, <1>4, <1>5 DEF Dispatch


\* Reaching the capability is Reach; the terminal write decides, or loses, one
\* open operation; nothing else an execution does is visible.
LEMMA ExecutionKeepsPromise ==
    ASSUME RpcInv, NEW o \in Ops, NEW v \in {"ok", "failed", "cancelled"},
           Signal(o) \/ Execute(o) \/ Finish(o, v)
    PROVE  Promise!Next \/ UNCHANGED <<fateBar, reachedBar>>
<1>0. /\ RpcTypeOK /\ task \in [Ops -> Tasks] /\ task[o] \in Tasks /\ effects[o] \in Nat
      /\ ClaimPrecedes(o)
    BY DEF RpcInv, RpcTypeOK, ExecutionFollowsClaim
<1>1. CASE Signal(o) \/ Begin(o) \/ ObserveCancel(o) \/ ClaimSettlement(o) \/ Finish(o, v)
           \/ Publish(o)
    <2>1. log' = log /\ effects' = effects
        BY <1>1 DEF Signal, Begin, ObserveCancel, ClaimSettlement, Finish, Publish, rows, ghosts
    <2>2. \A p \in Ops \ {o} : task'[p] = task[p]
        BY <1>0, <1>1 DEF Signal, Begin, ObserveCancel, ClaimSettlement, Finish, Publish
    <2>3. task'[o].pc \in {"none", "written"} <=> task[o].pc \in {"none", "written"}
        <3>1. CASE Signal(o)
            BY <1>0, <3>1 DEF Signal, Tasks
        <3>2. CASE Begin(o)
            BY <1>0, <3>2 DEF Begin, Tasks
        <3>3. CASE ObserveCancel(o) \/ Finish(o, v)
            BY <1>0, <3>3 DEF ObserveCancel, Finish, Tasks
        <3>4. CASE ClaimSettlement(o)
            BY <1>0, <3>4 DEF ClaimSettlement, Tasks
        <3>5. CASE Publish(o)
            BY <1>0, <3>5 DEF Publish, NoTask
        <3> QED BY <1>1, <3>1, <3>2, <3>3, <3>4, <3>5
    <2>4. \A p \in Ops : Fate(p)' = Fate(p)
        BY <2>1, <2>2, <2>3 DEF Fate
    <2> QED BY <2>1, <2>4, PromiseStutter
<1>2. CASE Respond(o)
    <2>1. log' = log /\ task[o].pc = "admitted"
        BY <1>2 DEF Respond, rows
    <2>2. task'[o].pc = "running" /\ \A p \in Ops \ {o} : task'[p] = task[p]
        BY <1>0, <1>2 DEF Respond, Tasks
    <2>3. effects'[o] = effects[o] + 1 /\ \A p \in Ops \ {o} : effects'[p] = effects[p]
        BY <1>0, <1>2 DEF Respond, RpcTypeOK
    <2>4. Fate(o) = "open" /\ \A p \in Ops : Fate(p)' = Fate(p)
        BY <1>0, <2>1, <2>2 DEF Fate, ClaimPrecedes
    <2>5. ~reachedBar[o]
        <3>1. ~(effects[o] > 0)
            BY <1>0, <2>1 DEF ClaimPrecedes
        <3> QED BY <3>1, Zenon DEF reachedBar
    <2>6. reachedBar' = [reachedBar EXCEPT ![o] = TRUE]
        <3>1. (effects[o] > 0)'
            BY <1>0, <2>3
        <3>2. ASSUME NEW p \in Ops \ {o} PROVE (effects[p] > 0)' = (effects[p] > 0)
            BY <2>3
        <3>3. \A p \in Ops : reachedBar'[p] = [reachedBar EXCEPT ![o] = TRUE][p]
            BY <3>1, <3>2, Zenon DEF reachedBar
        <3> QED BY <3>3, Zenon DEF reachedBar
    <2>7. fateBar' = fateBar /\ fateBar[o] = "open"
        BY <2>4 DEF fateBar
    <2>8. Promise!Reach(o)
        BY <2>5, <2>6, <2>7 DEF Promise!Reach, fateBar, reachedBar
    <2> QED BY <2>8 DEF Promise!Next
<1>3. CASE Record(o)
    <2>1. effects' = effects /\ task[o].pc = "settling"
        BY <1>3 DEF Record, ghosts
    <2>2. task'[o].pc = "written" /\ \A p \in Ops \ {o} : task'[p] = task[p]
        <3>1. task' = [task EXCEPT ![o].pc = "written"]
            BY <1>3 DEF Record
        <3> QED BY <1>0, <3>1 DEF Tasks
    <2>3. Fate(o) = "open" /\ log[o].state = "claimed" /\ log[o] \in Rows
        BY <1>0, <2>1 DEF Fate, ClaimPrecedes, RpcTypeOK
    <2>4. reachedBar' = reachedBar /\ fateBar[o] = "open"
        BY <2>1, <2>3 DEF reachedBar, fateBar
    <2>5. CASE log' = log
        <3>1. Fate(o)' = "lost" /\ \A p \in Ops \ {o} : Fate(p)' = Fate(p)
            BY <2>2, <2>3, <2>5 DEF Fate
        <3>2. fateBar' = [p \in Ops |-> IF p \in {o} THEN "lost" ELSE fateBar[p]]
            BY <3>1 DEF fateBar
        <3>3. Promise!Lose({o})
            BY <2>4, <3>2 DEF Promise!Lose, fateBar, reachedBar
        <3> QED BY <3>3 DEF Promise!Next
    <2>6. CASE log' = [log EXCEPT ![o] = Settle(@, task[o].settled)]
        <3>1. log'[o] = Settle(log[o], task[o].settled) /\ \A p \in Ops \ {o} : log'[p] = log[p]
            BY <1>0, <2>6 DEF RpcTypeOK
        <3>2. log'[o].state = IF task[o].settled = "ok" THEN "recorded" ELSE "failed"
            BY <2>3, <3>1 DEF Settle, Rows
        <3>3. PICK w \in {"ok", "failed"} : w = "ok" <=> task[o].settled = "ok"
            OBVIOUS
        <3>4. Fate(o)' = w /\ \A p \in Ops \ {o} : Fate(p)' = Fate(p)
            BY <2>2, <3>1, <3>2, <3>3 DEF Fate
        <3>5. fateBar' = [fateBar EXCEPT ![o] = w]
            BY <3>4 DEF fateBar
        <3>6. w = "ok" => reachedBar[o]
            <4>1. w = "ok" => effects[o] > 0
                BY <1>0, <3>3 DEF ClaimPrecedes
            <4> QED BY <4>1, Zenon DEF reachedBar
        <3>7. Promise!Decide(o, w)
            BY <2>4, <3>5, <3>6 DEF Promise!Decide, fateBar, reachedBar
        <3> QED BY <3>3, <3>7 DEF Promise!Next, Promise!Verdicts
    <2> QED BY <1>3, <2>5, <2>6 DEF Record
<1> QED BY <1>1, <1>2, <1>3 DEF Execute

\* The death of the process loses exactly the operations that were open.
LEMMA CrashKeepsPromise ==
    ASSUME RpcInv, Crash
    PROVE  Promise!Next
<1> DEFINE lost == {o \in Ops : Fate(o) = "open"}
<1>1. log' = log /\ effects' = effects /\ \A p \in Ops : task'[p].pc = "none"
    BY DEF Crash, NoTask, ghosts
<1>2. \A p \in Ops : Fate(p)' = IF Fate(p) = "open" THEN "lost" ELSE Fate(p)
    BY <1>1 DEF Fate
<1>3. fateBar' = [p \in Ops |-> IF p \in lost THEN "lost" ELSE fateBar[p]]
    BY <1>2 DEF fateBar
<1>4. reachedBar' = reachedBar
    BY <1>1 DEF reachedBar
<1>5. lost \subseteq {o \in Ops : fateBar[o] = "open"}
    BY DEF fateBar
<1> HIDE DEF lost
<1>6. Promise!Lose(lost)
    BY <1>3, <1>4, <1>5 DEF Promise!Lose, fateBar, reachedBar
<1>7. lost \in SUBSET Ops
    BY DEF lost
<1> QED BY <1>6, <1>7 DEF Promise!Next

LEMMA CancelKeepsPromise ==
    ASSUME RpcInv, NEW os, task' = CancelOwned(os), log' = log, effects' = effects
    PROVE  UNCHANGED <<fateBar, reachedBar>>
<1>1. ASSUME NEW p \in Ops PROVE task'[p].pc = task[p].pc
    <2>1. task[p] \in Tasks
        BY DEF RpcInv, RpcTypeOK
    <2>2. task'[p] = task[p] \/ task'[p] = [task[p] EXCEPT !.owner = "cancellation"]
        BY DEF CancelOwned
    <2> QED BY <2>1, <2>2 DEF Tasks
<1>2. \A p \in Ops : Fate(p)' = Fate(p)
    BY <1>1 DEF Fate
<1> QED BY <1>2, PromiseStutter

LEMMA AcknowledgeKeepsPromise ==
    ASSUME RpcInv, NEW i \in Readable, HostAcknowledge(i)
    PROVE  UNCHANGED <<fateBar, reachedBar>>
<1>1. ASSUME NEW o \in Ops PROVE log'[o].state = log[o].state
    <2>1. log[o] \in Rows
        BY DEF RpcInv, RpcTypeOK
    <2>2. log'[o] = log[o] \/ log'[o] = Evict(log[o])
        BY DEF HostAcknowledge, RpcInv, RpcTypeOK
    <2> QED BY <2>1, <2>2 DEF Evict, Rows
<1>2. task' = task /\ effects' = effects
    BY DEF HostAcknowledge, host, ghosts
<1>3. \A p \in Ops : Fate(p)' = Fate(p)
    BY <1>1, <1>2 DEF Fate
<1> QED BY <1>2, <1>3, PromiseStutter

LEMMA PromiseStep ==
    ASSUME RpcInv, [Next]_vars
    PROVE  Promise!Next \/ UNCHANGED <<fateBar, reachedBar>>
<1>1. CASE \/ \E o \in Ops, r \in Reqs : Call(o, r)
           \/ \E a \in answers : Receive(a)
           \/ \E o \in Ops : RequestCancel(o)
           \/ WaitIdle \/ Attach \/ DropHost \/ DropBox \/ UNCHANGED vars
    <2>1. log' = log /\ task' = task /\ effects' = effects
        BY <1>1 DEF Call, Receive, RequestCancel, WaitIdle, Attach, DropHost, DropBox, vars,
            rows, host, ghosts
    <2> QED BY <2>1, PromiseStutter DEF Fate
<1>2. ASSUME NEW i \in Readable, Dispatch(i) \/ HostCancel(i) \/ HostAcknowledge(i)
      PROVE  Promise!Next \/ UNCHANGED <<fateBar, reachedBar>>
    <2>1. CASE Dispatch(i)
        BY <2>1, DispatchKeepsPromise
    <2>2. CASE HostCancel(i)
        BY <2>2, CancelKeepsPromise DEF HostCancel, rows
    <2>3. CASE HostAcknowledge(i)
        BY <2>3, AcknowledgeKeepsPromise
    <2> QED BY <1>2, <2>1, <2>2, <2>3
<1>3. ASSUME NEW o \in Ops, NEW v \in Verdicts, Signal(o) \/ Execute(o) \/ Finish(o, v)
      PROVE  Promise!Next \/ UNCHANGED <<fateBar, reachedBar>>
    BY <1>3, ExecutionKeepsPromise DEF Verdicts
<1>4. CASE Close
    BY <1>4, CancelKeepsPromise DEF Close, rows
<1>5. CASE Crash
    BY <1>5, CrashKeepsPromise
<1>6. "ok" \in Verdicts
    BY DEF Verdicts
<1> QED BY <1>1, <1>2, <1>3, <1>4, <1>5, <1>6 DEF Next, Reader

\* The host, its log and the sandbox together implement OperationPromise: one
\* capability call and one verdict for each identity, whatever fails.
THEOREM RpcKeepsPromise == Spec => KeepsPromise
<1>1. Init => Promise!Init
    <2> SUFFICES ASSUME Init PROVE Promise!Init
        OBVIOUS
    <2>1. \A o \in Ops : Fate(o) = "unknown" /\ (effects[o] > 0) = FALSE
        BY DEF Init, Fate, NoRow
    <2> QED BY <2>1 DEF Promise!Init
<1>2. RpcInv /\ [Next]_vars =>
          [Promise!Next]_<<[o \in Ops |-> Fate(o)], [o \in Ops |-> effects[o] > 0]>>
    BY PromiseStep DEF fateBar, reachedBar
<1> QED BY <1>1, <1>2, InvHolds, PTL DEF Spec, KeepsPromise, Promise!Spec

-----------------------------------------------------------------------------
(* One verdict.                                                            *)

\* Once an execution is about to write its row, or there is none, nothing of the
\* operation starts again.
LEMMA WrittenStays ==
    ASSUME RpcInv, [Next]_vars, NEW o \in Ops,
           log[o].state # "absent", task[o].pc \in {"none", "settling", "written"}
    PROVE  /\ log'[o].state # "absent" /\ task'[o].pc \in {task[o].pc, "none", "written"}
           /\ effects'[o] = effects[o]
<1> DEFINE Stays == /\ log'[o].state # "absent" /\ task'[o].pc \in {task[o].pc, "none", "written"}
                    /\ effects'[o] = effects[o]
<1>t. RpcTypeOK
    BY DEF RpcInv
<1>1. ASSUME log' = log, task' = task, effects' = effects PROVE Stays
    BY <1>1
<1>2. CASE \/ \E p \in Ops, r \in Reqs : Call(p, r)
           \/ \E a \in answers : Receive(a)
           \/ \E p \in Ops : RequestCancel(p)
           \/ WaitIdle \/ Attach \/ DropHost \/ DropBox \/ UNCHANGED vars
    <2>1. log' = log /\ task' = task /\ effects' = effects
        BY <1>2 DEF Call, Receive, RequestCancel, WaitIdle, Attach, DropHost, DropBox, vars,
            rows, host, ghosts
    <2> QED BY <2>1
<1>3. ASSUME NEW i \in Readable, Dispatch(i) PROVE Stays
    <2>1. lane[i].op \in Ops
        BY <1>3, <1>t, ReaderTypes DEF Dispatch, DispatchRefused, DispatchFresh, DispatchAttached,
            DispatchSettled, DispatchStoreError
    <2>2. CASE DispatchFresh(i)
        <3>1. lane[i].op # o
            BY <2>2 DEF DispatchFresh, ClaimOutcome, Verdicts, RpcInv, RpcTypeOK, Rows, NoBody
        <3> QED BY <3>1, <2>1, <2>2, <1>t DEF DispatchFresh, ghosts, RpcTypeOK
    <2>3. CASE DispatchStoreError(i)
        BY <2>1, <2>3, <1>t DEF DispatchStoreError, host, ghosts, RpcTypeOK
    <2>4. CASE DispatchRefused(i) \/ DispatchAttached(i) \/ DispatchSettled(i)
        BY <2>4 DEF DispatchRefused, DispatchAttached, DispatchSettled, rows, host, ghosts
    <2> QED BY <1>3, <2>2, <2>3, <2>4 DEF Dispatch
<1>c. ASSUME NEW os, task' = CancelOwned(os), log' = log, effects' = effects PROVE Stays
    <2>1. task[o] \in Tasks /\ (task'[o] = task[o] \/ task'[o] = [task[o] EXCEPT !.owner = "cancellation"])
        BY <1>c, <1>t DEF CancelOwned, RpcTypeOK
    <2>2. task'[o].pc = task[o].pc
        BY <2>1 DEF Tasks
    <2> QED BY <2>2, <1>c
<1>4. ASSUME NEW i \in Readable, HostCancel(i) PROVE Stays
    BY <1>4, <1>c DEF HostCancel, rows
<1>5. ASSUME NEW i \in Readable, HostAcknowledge(i) PROVE Stays
    <2>1. lane[i].op \in Ops
        BY <1>5, <1>t, ReaderTypes DEF HostAcknowledge
    <2>2. log[o] \in Rows /\ (log'[o] = log[o] \/ log'[o] = Evict(log[o]))
        BY <2>1, <1>5, <1>t DEF HostAcknowledge, RpcTypeOK
    <2>3. log'[o].state = log[o].state
        BY <2>2 DEF Evict, Rows
    <2> QED BY <2>3, <1>5 DEF HostAcknowledge, host, ghosts
<1>6. ASSUME NEW p \in Ops, NEW v \in Verdicts, Signal(p) \/ Execute(p) \/ Finish(p, v) PROVE Stays
    <2>1. CASE p # o
        BY <1>6, <1>t, <2>1 DEF Signal, Execute, Begin, Respond, ObserveCancel, ClaimSettlement,
            Record, Publish, Finish, RpcTypeOK, rows, ghosts
    <2>2. CASE p = o
        <3>1. Signal(o) \/ Publish(o) \/ Record(o)
            BY <1>6, <2>2 DEF Execute, Begin, Respond, ObserveCancel, ClaimSettlement, Finish
        <3>2. CASE Signal(o)
            <4>1. task[o] \in Tasks /\ task'[o] = [task[o] EXCEPT !.signalled = TRUE]
                BY <3>2, <1>t DEF Signal, RpcTypeOK
            <4>2. task'[o].pc = task[o].pc
                BY <4>1 DEF Tasks
            <4> QED BY <4>2, <3>2 DEF Signal, rows, ghosts
        <3>3. CASE Publish(o)
            BY <3>3, <1>t DEF Publish, NoTask, RpcTypeOK, rows, ghosts
        <3>4. CASE Record(o)
            <4>1. task[o] \in Tasks /\ task'[o] = [task[o] EXCEPT !.pc = "written"]
                BY <3>4, <1>t DEF Record, RpcTypeOK
            <4>2. task'[o].pc = "written"
                BY <4>1 DEF Tasks
            <4>3. log[o] \in Rows /\ (log'[o] = log[o] \/ log'[o] = Settle(log[o], task[o].settled))
                BY <3>4, <1>t DEF Record, RpcTypeOK
            <4>4. log'[o].state # "absent"
                BY <4>3 DEF Settle, Rows
            <4> QED BY <4>2, <4>4, <3>4 DEF Record, ghosts
        <3> QED BY <3>1, <3>2, <3>3, <3>4
    <2> QED BY <2>1, <2>2
<1>7. CASE Close
    BY <1>7, <1>c DEF Close, rows
<1>8. CASE Crash
    BY <1>8 DEF Crash, NoTask, ghosts
<1>9. "ok" \in Verdicts
    BY DEF Verdicts
<1> QED BY <1>2, <1>3, <1>4, <1>5, <1>6, <1>7, <1>8, <1>9 DEF Next, Reader

\* A verdict is first said by the execution that writes it; afterwards it is
\* only passed on.
TaskMoves(o) == task'[o].pc = "written" => /\ task[o].pc \in {"settling", "written"}
                                           /\ task'[o].settled = task[o].settled
BodyMoves(o) == \/ log'[o].body \in {log[o].body, NoBody}
                \/ /\ task[o].pc = "settling" /\ task'[o].pc = "written"
                   /\ log'[o].body = task[o].settled
AnswersMove(o) == \A a \in answers' : \/ a \in answers \/ a.op # o
                                      \/ a.answer \in Refusals \cup {log[o].body}
                                      \/ task[o].pc = "written" /\ a.answer = task[o].settled
GotMoves(o) == \A v \in got'[o] : v \in got[o] \/ \E a \in answers : a.op = o /\ a.answer = v
VerdictMoves(o) == TaskMoves(o) /\ BodyMoves(o) /\ AnswersMove(o) /\ GotMoves(o)

LEMMA SandboxMoves ==
    ASSUME RpcTypeOK, NEW o \in Ops,
           \/ \E p \in Ops, r \in Reqs : Call(p, r)
           \/ \E a \in answers : Receive(a)
           \/ \E p \in Ops : RequestCancel(p)
           \/ WaitIdle \/ Attach \/ DropHost \/ DropBox \/ UNCHANGED vars
    PROVE  VerdictMoves(o)
<1>1. log' = log /\ task' = task /\ answers' \subseteq answers
    BY DEF Call, Receive, RequestCancel, WaitIdle, Attach, DropHost, DropBox, vars, rows, host, wire
<1>2. GotMoves(o)
    <2>1. CASE \E a \in answers : Receive(a)
        <3>1. PICK a \in answers : Receive(a)
            BY <2>1
        <3>2. a.op \in Ops
            BY DEF RpcTypeOK
        <3>3. got \in [Ops -> SUBSET Answers] /\ (got' = got \/ got' = [got EXCEPT ![a.op] = @ \cup {a.answer}])
            BY <3>1 DEF Receive, RpcTypeOK
        <3>4. \A v \in got'[o] : v \in got[o] \/ (a.op = o /\ a.answer = v)
            BY <3>2, <3>3
        <3> QED BY <3>4 DEF GotMoves
    <2>2. CASE got' = got
        BY <2>2 DEF GotMoves
    <2> QED BY <2>1, <2>2 DEF Call, RequestCancel, WaitIdle, Attach, DropHost, DropBox, vars, ghosts
<1> QED BY <1>1, <1>2 DEF VerdictMoves, TaskMoves, BodyMoves, AnswersMove

LEMMA DispatchMoves ==
    ASSUME RpcTypeOK, ExecutionFollowsClaim, NEW o \in Ops, NEW i \in Readable, Dispatch(i)
    PROVE  VerdictMoves(o)
<1> DEFINE f == lane[i]
<1>0. Take(i) /\ lane[i].kind = "request"
    BY DEF Dispatch, DispatchRefused, DispatchFresh, DispatchAttached, DispatchSettled,
        DispatchStoreError, Admits, Request
<1>1. f.op \in Ops /\ f.n \in 1..MaxCalls /\ f.req \in Reqs
    BY <1>0, ReaderTypes
<1>2. GotMoves(o)
    BY DEF Dispatch, DispatchRefused, DispatchFresh, DispatchAttached, DispatchSettled,
        DispatchStoreError, ghosts, GotMoves
<1>3. TaskMoves(o)
    <2>1. task' = task \/ task' = [task EXCEPT ![f.op] = [NoTask EXCEPT !.pc = "spawned"]]
        BY DEF Dispatch, DispatchRefused, DispatchFresh, DispatchAttached, DispatchSettled,
            DispatchStoreError, host
    <2> QED BY <2>1, <1>1 DEF TaskMoves, NoTask, RpcTypeOK
<1>4. BodyMoves(o)
    <2>1. log' = log \/ log' = [log EXCEPT ![f.op] = [state |-> "claimed", req |-> f.req,
                                                       epoch |-> epoch, body |-> NoBody]]
        BY DEF Dispatch, DispatchRefused, DispatchFresh, DispatchAttached, DispatchSettled,
            DispatchStoreError, rows
    <2>2. log \in [Ops -> Rows]
        BY DEF RpcTypeOK
    <2>3. log'[o].body = log[o].body \/ log'[o].body = NoBody
        BY <2>1, <2>2, <1>1
    <2> QED BY <2>3 DEF BodyMoves
<1>5. AnswersMove(o)
    <2>1. CASE answers' = answers
        BY <2>1 DEF AnswersMove
    <2>2. CASE \E x \in Refusals : Answer(f, x)
        BY <2>2 DEF Answer, AnswersMove
    <2>3. CASE \E x \in Verdicts : Answer(f, x) /\ ClaimOutcome(log[f.op], f.req, epoch) = x
        <3>1. PICK x \in Verdicts : Answer(f, x) /\ ClaimOutcome(log[f.op], f.req, epoch) = x
            BY <2>3
        <3>2. x = log[f.op].body
            BY <3>1 DEF ClaimOutcome, Verdicts
        <3> QED BY <3>1, <3>2 DEF Answer, AnswersMove
    <2>4. \/ answers' = answers
          \/ \E x \in Refusals : Answer(f, x)
          \/ \E x \in Verdicts : Answer(f, x) /\ ClaimOutcome(log[f.op], f.req, epoch) = x
        BY DEF Dispatch, DispatchRefused, DispatchFresh, DispatchAttached, DispatchSettled,
            DispatchStoreError, Refusals, Answers
    <2> QED BY <2>1, <2>2, <2>3, <2>4
<1> QED BY <1>2, <1>3, <1>4, <1>5 DEF VerdictMoves

LEMMA CancelMoves ==
    ASSUME RpcTypeOK, NEW o \in Ops, NEW os, task' = CancelOwned(os),
           UNCHANGED <<log, got, answers>>
    PROVE  VerdictMoves(o)
<1>1. task[o] \in Tasks /\ (task'[o] = task[o] \/ task'[o] = [task[o] EXCEPT !.owner = "cancellation"])
    BY DEF CancelOwned, RpcTypeOK
<1>2. task'[o].pc = task[o].pc /\ task'[o].settled = task[o].settled
    BY <1>1 DEF Tasks
<1> QED BY <1>2 DEF VerdictMoves, TaskMoves, BodyMoves, AnswersMove, GotMoves

LEMMA AcknowledgeMoves ==
    ASSUME RpcTypeOK, NEW o \in Ops, NEW i \in Readable, HostAcknowledge(i)
    PROVE  VerdictMoves(o)
<1>1. lane[i].op \in Ops
    BY ReaderTypes DEF HostAcknowledge
<1>2. log[o] \in Rows /\ (log'[o] = log[o] \/ log'[o] = Evict(log[o]))
    BY <1>1 DEF HostAcknowledge, RpcTypeOK
<1>3. log'[o].body \in {log[o].body, NoBody}
    BY <1>2 DEF Evict, Rows
<1> QED BY <1>3 DEF HostAcknowledge, host, ghosts, VerdictMoves, TaskMoves, BodyMoves,
        AnswersMove, GotMoves

LEMMA ExecutionMoves ==
    ASSUME RpcTypeOK, NEW o \in Ops, NEW p \in Ops, NEW v \in Verdicts,
           Signal(p) \/ Execute(p) \/ Finish(p, v)
    PROVE  VerdictMoves(o)
<1>0. task[o] \in Tasks /\ task \in [Ops -> Tasks] /\ log[o] \in Rows
    BY DEF RpcTypeOK
<1>1. GotMoves(o)
    BY DEF Signal, Execute, Begin, Respond, ObserveCancel, ClaimSettlement, Record,
        Publish, Finish, ghosts, GotMoves
<1>2. AnswersMove(o)
    <2>1. CASE Publish(p)
        BY <2>1 DEF Publish, AnswersMove
    <2>2. CASE answers' = answers
        BY <2>2 DEF AnswersMove
    <2> QED BY <2>1, <2>2 DEF Signal, Execute, Begin, Respond, ObserveCancel, ClaimSettlement,
            Record, Finish, wire
<1>3. CASE p # o
    <2>1. task'[o] = task[o] /\ log'[o] = log[o]
        BY <1>3 DEF Signal, Execute, Begin, Respond, ObserveCancel, ClaimSettlement, Record,
            Publish, Finish, RpcTypeOK, rows
    <2> QED BY <2>1, <1>1, <1>2 DEF VerdictMoves, TaskMoves, BodyMoves
<1>4. CASE p = o /\ Record(p)
    <2>1. task[o].pc = "settling" /\ task'[o] = [task[o] EXCEPT !.pc = "written"]
        BY <1>4, <1>0 DEF Record
    <2>2. task'[o].settled = task[o].settled
        BY <2>1, <1>0 DEF Tasks
    <2>3. log'[o] = log[o] \/ log'[o] = Settle(log[o], task[o].settled)
        BY <1>4 DEF Record, RpcTypeOK
    <2>4. log'[o].body \in {log[o].body, task[o].settled}
        BY <2>3, <1>0 DEF Settle, Rows
    <2>5. task'[o].pc = "written"
        BY <2>1, <1>0 DEF Tasks
    <2> QED BY <2>1, <2>2, <2>4, <2>5, <1>1, <1>2 DEF VerdictMoves, TaskMoves, BodyMoves
<1>5. CASE p = o /\ Signal(p)
    <2>1. task'[o] = [task[o] EXCEPT !.signalled = TRUE]
        BY <1>5, <1>0 DEF Signal
    <2>2. task'[o].settled = task[o].settled /\ task'[o].pc = task[o].pc
        BY <2>1, <1>0 DEF Tasks
    <2> QED BY <2>2, <1>1, <1>2, <1>5 DEF Signal, rows, VerdictMoves, TaskMoves, BodyMoves
<1>6. CASE p = o /\ (Begin(p) \/ Respond(p) \/ ObserveCancel(p) \/ ClaimSettlement(p) \/ Publish(p)
                       \/ Finish(p, v))
    <2>1. task'[o].pc # "written"
        <3>1. CASE Begin(o)
            <4>1. task'[o].pc = "ready" \/ task'[o].pc = "admitted"
                BY <3>1, <1>0 DEF Begin, Tasks
            <4> QED BY <4>1
        <3>4. CASE ClaimSettlement(o)
            <4>1. task'[o].pc = "settling"
                BY <3>4, <1>0 DEF ClaimSettlement, Tasks
            <4> QED BY <4>1
        <3>2. CASE Respond(o) \/ ObserveCancel(o) \/ Finish(o, v)
            BY <3>2, <1>0 DEF Respond, ObserveCancel, Finish, Tasks
        <3>3. CASE Publish(o)
            BY <3>3, <1>0 DEF Publish, NoTask
        <3> QED BY <1>6, <3>1, <3>2, <3>3, <3>4
    <2>2. log' = log
        BY <1>6 DEF Begin, Respond, ObserveCancel, ClaimSettlement, Publish, Finish, rows
    <2> QED BY <2>1, <2>2, <1>1, <1>2 DEF VerdictMoves, TaskMoves, BodyMoves
<1> QED BY <1>3, <1>4, <1>5, <1>6 DEF Execute

LEMMA VerdictsMove ==
    ASSUME RpcInv, [Next]_vars, NEW o \in Ops
    PROVE  VerdictMoves(o)
<1>1. CASE \/ \E p \in Ops, r \in Reqs : Call(p, r)
           \/ \E a \in answers : Receive(a)
           \/ \E p \in Ops : RequestCancel(p)
           \/ WaitIdle \/ Attach \/ DropHost \/ DropBox \/ UNCHANGED vars
    BY <1>1, SandboxMoves DEF RpcInv
<1>2. ASSUME NEW i \in Readable, Dispatch(i) \/ HostCancel(i) \/ HostAcknowledge(i)
      PROVE  VerdictMoves(o)
    <2>1. CASE Dispatch(i)
        BY <2>1, DispatchMoves DEF RpcInv
    <2>2. CASE HostCancel(i)
        BY <2>2, CancelMoves DEF RpcInv, HostCancel, rows
    <2>3. CASE HostAcknowledge(i)
        BY <2>3, AcknowledgeMoves DEF RpcInv
    <2> QED BY <1>2, <2>1, <2>2, <2>3
<1>3. ASSUME NEW p \in Ops, NEW v \in Verdicts, Signal(p) \/ Execute(p) \/ Finish(p, v)
      PROVE  VerdictMoves(o)
    BY <1>3, ExecutionMoves DEF RpcInv
<1>4. CASE Close
    BY <1>4, CancelMoves DEF RpcInv, Close, rows, wire
<1>5. CASE Crash
    BY <1>5 DEF Crash, NoTask, ghosts, VerdictMoves, TaskMoves, BodyMoves, AnswersMove, GotMoves
<1>6. "ok" \in Verdicts
    BY DEF Verdicts
<1> QED BY <1>1, <1>2, <1>3, <1>4, <1>5, <1>6 DEF Next, Reader

LEMMA VerdictStep == RpcInv /\ VerdictsAgree /\ [Next]_vars => VerdictsAgree'
<1> SUFFICES ASSUME RpcInv, VerdictsAgree, [Next]_vars, NEW o \in Ops PROVE VerdictAgreed(o)'
    BY DEF VerdictsAgree
<1>1. VerdictAgreed(o) /\ ClaimPrecedes(o) /\ VerdictMoves(o)
    BY VerdictsMove DEF VerdictsAgree, RpcInv, ExecutionFollowsClaim
<1>2. ASSUME NEW v \in Verdicts, Said(o, v)'
      PROVE  \/ Said(o, v)
             \/ task[o].pc = "settling" /\ task'[o].pc = "written" /\ task[o].settled = v
    <2>1. v # NoBody /\ v \notin Refusals
        BY DEF Verdicts, NoBody, Refusals
    <2>2. /\ TaskMoves(o) /\ BodyMoves(o) /\ AnswersMove(o) /\ GotMoves(o)
        BY <1>1 DEF VerdictMoves
    <2>3. \/ log'[o].body = v
          \/ task'[o].pc = "written" /\ task'[o].settled = v
          \/ v \in got'[o]
          \/ \E a \in answers' : a.op = o /\ a.answer = v
        BY <1>2 DEF Said
    <2>4. CASE log'[o].body = v
        BY <2>1, <2>2, <2>4 DEF BodyMoves, Said
    <2>5. CASE task'[o].pc = "written" /\ task'[o].settled = v
        BY <2>2, <2>5 DEF TaskMoves, Said
    <2>6. CASE v \in got'[o]
        BY <2>2, <2>6 DEF GotMoves, Said
    <2>7. CASE \E a \in answers' : a.op = o /\ a.answer = v
        BY <2>1, <2>2, <2>7 DEF AnswersMove, Said
    <2> QED BY <2>3, <2>4, <2>5, <2>6, <2>7
<1>3. "ok" \in Verdicts
    BY DEF Verdicts
<1>4. CASE task[o].pc # "settling"
    <2>1. \A v \in Verdicts : Said(o, v)' => Said(o, v)
        BY <1>2, <1>4
    <2>2. ASSUME NEW v \in Verdicts, Said(o, v)
          PROVE  /\ log'[o].state # "absent" /\ task'[o].pc \in {"none", "written"}
                 /\ effects'[o] = effects[o]
        BY <2>2, <1>1, WrittenStays DEF VerdictAgreed
    <2> QED BY <2>1, <2>2, <1>1, <1>3 DEF VerdictAgreed
<1>5. CASE task[o].pc = "settling"
    <2>1. \A v \in Verdicts : ~Said(o, v)
        BY <1>1, <1>5 DEF VerdictAgreed
    <2>2. \A v \in Verdicts : Said(o, v)' => v = task[o].settled
        BY <1>2, <2>1
    <2>3. log[o].state = "claimed" /\ (task[o].settled = "ok" => effects[o] = 1)
        BY <1>1, <1>5 DEF ClaimPrecedes
    <2>4. ASSUME NEW v \in Verdicts, Said(o, v)'
          PROVE  /\ log'[o].state # "absent" /\ task'[o].pc \in {"none", "written"}
                 /\ effects'[o] = effects[o]
        BY <2>1, <2>3, <2>4, <1>2, <1>5, WrittenStays
    <2> QED BY <2>2, <2>3, <2>4, <1>3 DEF VerdictAgreed
<1> QED BY <1>4, <1>5

\* An agent that re-issues an operation, over a new connection or to a new host
\* process, never hears two different verdicts, and hears of a success only if
\* the capability was reached.
THEOREM OneVerdictPerOperation == Spec => []OneVerdict
<1>1. Init => VerdictsAgree
    BY DEF Init, VerdictsAgree, VerdictAgreed, Said, NoRow, NoTask, NoBody, Verdicts
<1>2. RpcInv /\ VerdictsAgree => OneVerdict
    <2> SUFFICES ASSUME VerdictsAgree, NEW o \in Ops
                 PROVE  Cardinality(got[o] \cap Verdicts) <= 1 /\ ("ok" \in got[o] => effects[o] = 1)
        BY DEF OneVerdict
    <2> DEFINE heard == got[o] \cap Verdicts
    <2>1. VerdictAgreed(o)
        BY DEF VerdictsAgree
    <2>2. \A v, w \in heard : v = w
        BY <2>1 DEF VerdictAgreed, Said
    <2>3. heard = {} \/ \E v : heard = {v}
        BY <2>2
    <2>4. Cardinality(heard) = 0 \/ Cardinality(heard) = 1
        BY <2>3, FS_EmptySet, FS_Singleton
    <2> QED BY <2>1, <2>4 DEF VerdictAgreed, Said
<1> QED BY <1>1, <1>2, InvHolds, VerdictStep, PTL DEF Spec

=============================================================================
