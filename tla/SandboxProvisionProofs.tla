------------------------ MODULE SandboxProvisionProofs ------------------------
(***************************************************************************)
(* Proofs about SandboxProvision, for any number of runs, claims and       *)
(* faults.                                                                 *)
(***************************************************************************)
EXTENDS SandboxProvision, SequenceTheorems, TLAPS

Places == {"none", "validate", "begin", "recheck", "creating", "made", "fence", "attaching",
           "attached", "ending", "dead"}
RecStates == Live \cup {"absent", "teardown", "done"}

-----------------------------------------------------------------------------
(* What the helpers write.                                                 *)

\* A sequence over a set is one over every larger set.
LEMMA SeqWider ==
    ASSUME NEW S, NEW T, S \subseteq T, NEW s \in Seq(S)
    PROVE  s \in Seq(T)
<1>1. Len(s) \in Nat /\ s \in [1..Len(s) -> S]
    BY LenProperties
<1>2. s \in [1..Len(s) -> T]
    BY <1>1
<1> QED BY <1>1, <1>2

\* A driver moves: the other drivers stay where they are.
LEMMA PcUpdate ==
    ASSUME ProvisionTypeOK, NEW r \in Runs, NEW c \in Claims, NEW x \in Places,
           pc' = [pc EXCEPT ![r][c] = x]
    PROVE  /\ pc' \in [Runs -> [Claims -> Places]]
           /\ pc'[r][c] = x
           /\ \A d \in Claims : d # c => pc'[r][d] = pc[r][d]
           /\ \A q \in Runs : q # r => pc'[q] = pc[q]
BY DEF ProvisionTypeOK, Places

LEMMA TodoUpdate ==
    ASSUME ProvisionTypeOK, NEW r \in Runs, NEW c \in Claims, NEW steps \in Seq(StepNames),
           todo' = [todo EXCEPT ![r][c] = steps]
    PROVE  /\ todo' \in [Runs -> [Claims -> Seq(StepNames)]]
           /\ todo'[r][c] = steps
           /\ \A d \in Claims : d # c => todo'[r][d] = todo[r][d]
           /\ \A q \in Runs : q # r => todo'[q] = todo[q]
BY DEF ProvisionTypeOK

\* The three writers of a record.
LEMMA RecordWrites ==
    ASSUME ProvisionTypeOK, NEW r \in Runs
    PROVE  /\ Enqueue(r) \in [Runs -> RecStates]
           /\ EnqueueOn(r) \in [Runs -> RecStates]
           /\ CompleteTeardown(r) \in [Runs -> RecStates]
           /\ \A q \in Runs : q # r => /\ Enqueue(r)[q] = rec[q] /\ EnqueueOn(r)[q] = rec[q]
                                       /\ CompleteTeardown(r)[q] = rec[q]
           /\ Enqueue(r)[r] = IF rec[r] \in Live \cup {"teardown"} THEN "teardown" ELSE rec[r]
           /\ EnqueueOn(r)[r] = IF rec[r] \in Live THEN "teardown" ELSE rec[r]
           /\ CompleteTeardown(r)[r] = IF rec[r] = "teardown" THEN "done" ELSE rec[r]
BY DEF ProvisionTypeOK, Enqueue, EnqueueOn, CompleteTeardown, RecStates, Live

\* What a driver may have left to do is a list of steps.
LEMMA StepLists ==
    ASSUME NEW r
    PROVE  /\ LeftToDo(r) \subseteq StepNames
           /\ << >> \in Seq(LeftToDo(r)) /\ <<"fail">> \in Seq(LeftToDo(r))
           /\ <<"finish">> \in Seq(LeftToDo(r))
           /\ HadBox(r) => /\ Tear \o <<"fail">> \in Seq(LeftToDo(r))
                           /\ Tear \o <<"finish">> \in Seq(LeftToDo(r))
                           /\ <<"finish">> \o Tear \in Seq(LeftToDo(r))
                           /\ <<"submit">> \o Tear \in Seq(LeftToDo(r))
                           /\ <<"fail">> \o Tear \in Seq(LeftToDo(r))
<1>1. LeftToDo(r) \subseteq StepNames
    BY DEF LeftToDo, StepNames
<1>2. {"submit", "fail", "finish", "enqueue"} \subseteq LeftToDo(r)
    BY DEF LeftToDo
<1>3. << >> \in Seq(LeftToDo(r)) /\ <<"fail">> \in Seq(LeftToDo(r))
      /\ <<"finish">> \in Seq(LeftToDo(r)) /\ <<"submit">> \in Seq(LeftToDo(r))
    BY <1>2
<1>4. ASSUME HadBox(r) PROVE Tear \in Seq(LeftToDo(r))
    <2>1. "enqueue" \in LeftToDo(r) /\ "destroy" \in LeftToDo(r)
        BY <1>4 DEF LeftToDo
    <2> QED BY <2>1 DEF Tear
<1> QED BY <1>1, <1>3, <1>4, ConcatProperties

\* The rest of a list, with steps put before it.
LEMMA RestOfList ==
    ASSUME NEW S, NEW s \in Seq(S), s # << >>, NEW more \in Seq(S)
    PROVE  Head(s) \in S /\ more \o Tail(s) \in Seq(S)
<1>1. Head(s) \in S /\ Tail(s) \in Seq(S)
    BY HeadTailProperties
<1> QED BY <1>1, ConcatProperties

-----------------------------------------------------------------------------
(* Runs that a step does not harm.                                         *)

\* A step that changes nothing of a run and nothing of the sweep.
LEMMA RunUntouched ==
    ASSUME NEW q \in Runs, RunInv(q), status'[q] = status[q], rec'[q] = rec[q],
           handle'[q] = handle[q], box'[q] = box[q], creates'[q] = creates[q],
           pc'[q] = pc[q], todo'[q] = todo[q], UNCHANGED sweeper
    PROVE  RunInv(q)'
<1>1. LeftToDo(q)' = LeftToDo(q) /\ (HadBox(q)' <=> HadBox(q))
    BY DEF LeftToDo, HadBox
<1> QED BY <1>1 DEF RunInv, CreatesOnce, BoxIsKnown, SweepIsSound, sweeper

Harmless == {"none", "validate", "begin", "ending", "dead"}
Holding == {"made", "fence", "attaching", "attached"}

\* A step that leaves the container alone, at most turns a live record into an
\* obligation, and sends a driver nowhere that it needs a container it has not.
LEMMA RunUnharmed ==
    ASSUME NEW q \in Runs, RunInv(q), box'[q] = box[q], creates'[q] = creates[q],
           handle'[q] = handle[q], UNCHANGED sweeper,
           rec'[q] = rec[q] \/ (rec'[q] = "teardown" /\ rec[q] \in Live \cup {"teardown"}),
           status'[q] \in {"failed", "cancelled"} => rec'[q] \notin Live,
           \A c \in Claims : \/ pc'[q][c] = pc[q][c]
                             \/ pc'[q][c] \in Harmless
                             \/ pc'[q][c] \in Holding /\ HadBox(q),
           \A c \in Claims : todo'[q][c] \in Seq(LeftToDo(q))
    PROVE  RunInv(q)'
<1>1. LeftToDo(q)' = LeftToDo(q) /\ (HadBox(q)' <=> HadBox(q))
    BY DEF LeftToDo, HadBox
<1>2. CreatesOnce(q)'
    BY DEF RunInv, CreatesOnce, Harmless, Holding, Live, HadBox
<1>3. BoxIsKnown(q)'
    <2>1. handle'[q] \/ rec'[q] = "committed" => HadBox(q)'
        BY <1>1 DEF RunInv, BoxIsKnown
    <2>2. ASSUME NEW c \in Claims, pc'[q][c] \in {"made", "fence", "attaching", "attached"}
          PROVE  HadBox(q)'
        BY <1>1, <2>2 DEF RunInv, BoxIsKnown, Harmless, Holding
    <2>3. \A c \in Claims : todo'[q][c] \in Seq(LeftToDo(q)')
        BY <1>1
    <2> QED BY <2>1, <2>2, <2>3 DEF BoxIsKnown
<1>4. SweepIsSound(q)'
    BY <1>1 DEF RunInv, SweepIsSound, sweeper
<1>5. rec'[q] = "done" /\ handle'[q] => box'[q] = "gone"
    BY DEF RunInv
<1> QED BY <1>2, <1>3, <1>4, <1>5 DEF RunInv

-----------------------------------------------------------------------------
(* Types.                                                                  *)

LEMMA EndTypes ==
    ASSUME ProvisionTypeOK, NEW r \in Runs, NEW s \in Terminal, End(r, s)
    PROVE  /\ status' \in [Runs -> {"queued", "running", "cancelling"} \cup Terminal]
           /\ token' \in [Runs -> 0..MaxClaims]
           /\ leased' \in [Runs -> BOOLEAN] /\ late' \in [Runs -> BOOLEAN]
<1>1. 0 \in 0..MaxClaims
    BY ProvisionConstants
<1> QED BY <1>1 DEF ProvisionTypeOK, End

LEMMA FaultType ==
    ASSUME ProvisionTypeOK, Fault
    PROVE  faults' \in 0..MaxFaults
BY ProvisionConstants DEF ProvisionTypeOK, Fault

\* The steps of the row keep every type.
LEMMA RowTypes ==
    ASSUME ProvisionTypeOK, NEW r \in Runs,
           \/ Claim(r) \/ Reclaim(r) \/ RequestCancellation(r)
           \/ LeaseExpires(r) \/ DeadlinePasses(r) \/ Reap(r)
           \/ BoxLands(r) \/ WindowPasses(r)
    PROVE  ProvisionTypeOK'
<1>1. ASSUME NEW c \in Claims, HandTo(r, c),
             status' \in [Runs -> {"queued", "running", "cancelling"} \cup Terminal]
      PROVE  ProvisionTypeOK'
    <2>1. pc' \in [Runs -> [Claims -> Places]]
        BY <1>1, PcUpdate DEF HandTo, Places
    <2>2. token' \in [Runs -> 0..MaxClaims] /\ leased' \in [Runs -> BOOLEAN]
        BY <1>1, ProvisionConstants DEF HandTo, ProvisionTypeOK, Claims
    <2> QED BY <1>1, <2>1, <2>2 DEF HandTo, ProvisionTypeOK, Places, records, backend, sweeper
<1>2. CASE Claim(r)
    <2>1. 1 \in Claims
        BY ProvisionConstants DEF Claims
    <2>2. status' \in [Runs -> {"queued", "running", "cancelling"} \cup Terminal]
        BY <1>2 DEF Claim, ProvisionTypeOK
    <2> QED BY <1>1, <1>2, <2>1, <2>2 DEF Claim
<1>3. CASE Reclaim(r)
    <2>1. token[r] + 1 \in Claims
        BY <1>3, ProvisionConstants DEF Reclaim, ProvisionTypeOK, Claims
    <2> QED BY <1>1, <1>3, <2>1 DEF Reclaim, ProvisionTypeOK
<1>4. CASE RequestCancellation(r)
    <2>1. CASE status[r] = "running" /\ leased[r] /\ ~late[r]
        BY <1>4, <2>1 DEF RequestCancellation, ProvisionTypeOK, backend, drivers, sweeper
    <2>2. CASE ~(status[r] = "running" /\ leased[r] /\ ~late[r])
        <3>1. End(r, "cancelled") /\ rec' = EnqueueOn(r)
            BY <1>4, <2>2 DEF RequestCancellation
        <3>2. "cancelled" \in Terminal
            BY DEF Terminal
        <3> QED BY <1>4, <3>1, <3>2, EndTypes, RecordWrites DEF RequestCancellation,
                ProvisionTypeOK, RecStates, backend, drivers, sweeper
    <2> QED BY <2>1, <2>2
<1>5. CASE LeaseExpires(r) \/ DeadlinePasses(r) \/ WindowPasses(r)
    BY <1>5 DEF LeaseExpires, DeadlinePasses, WindowPasses, ProvisionTypeOK, records, rows,
        backend, drivers, sweeper
<1>6. CASE Reap(r)
    <2>1. PICK s \in Terminal : End(r, s)
        BY <1>6 DEF Reap, Terminal
    <2> QED BY <1>6, <2>1, EndTypes, RecordWrites DEF Reap, ProvisionTypeOK, RecStates, backend,
            drivers, sweeper
<1>7. CASE BoxLands(r)
    BY <1>7 DEF BoxLands, ProvisionTypeOK, rows, records, drivers, sweeper
<1> QED BY <1>2, <1>3, <1>4, <1>5, <1>6, <1>7

\* What a driver has left when it gives up.
LEMMA AbandonList ==
    ASSUME ProvisionTypeOK, NEW r \in Runs, NEW c \in Claims, BoxIsKnown(r),
           pc[r][c] \notin {"none", "ending", "dead"}
    PROVE  Abandon(r, c) \in Seq(LeftToDo(r)) /\ Abandon(r, c) \in Seq(StepNames)
<1>1. pc[r][c] \in Places
    BY DEF ProvisionTypeOK, Places
<1>2. pc[r][c] \in {"validate", "begin", "recheck", "creating"} \/ HadBox(r)
    BY <1>1 DEF BoxIsKnown, Places
<1>3. Abandon(r, c) \in Seq(LeftToDo(r))
    BY <1>2, StepLists DEF Abandon
<1>4. LeftToDo(r) \subseteq StepNames
    BY StepLists
<1> QED BY <1>3, <1>4, SeqWider

\* The control of a driver that starts to end, or takes a terminal step.
LEMMA EndingSteps ==
    ASSUME ProvisionTypeOK, NEW r \in Runs, NEW c \in Claims, BoxIsKnown(r),
           NEW steps \in Seq(LeftToDo(r)), Ending(r, c, steps)
    PROVE  /\ pc' \in [Runs -> [Claims -> Places]]
           /\ todo' \in [Runs -> [Claims -> Seq(StepNames)]]
           /\ \A q \in Runs : q # r => pc'[q] = pc[q] /\ todo'[q] = todo[q]
           /\ \A d \in Claims : pc'[r][d] = pc[r][d] \/ pc'[r][d] \in Harmless
           /\ \A d \in Claims : todo'[r][d] \in Seq(LeftToDo(r))
<1>1. LeftToDo(r) \subseteq StepNames
    BY StepLists
<1>2. steps \in Seq(StepNames)
    BY <1>1, SeqWider
<1>3. "ending" \in Places /\ "ending" \in Harmless
    BY DEF Places, Harmless
<1>4. /\ pc' \in [Runs -> [Claims -> Places]]
      /\ pc'[r][c] = "ending"
      /\ \A d \in Claims : d # c => pc'[r][d] = pc[r][d]
      /\ \A q \in Runs : q # r => pc'[q] = pc[q]
    BY <1>3, PcUpdate DEF Ending
<1>5. /\ todo' \in [Runs -> [Claims -> Seq(StepNames)]]
      /\ todo'[r][c] = steps
      /\ \A d \in Claims : d # c => todo'[r][d] = todo[r][d]
      /\ \A q \in Runs : q # r => todo'[q] = todo[q]
    BY <1>2, TodoUpdate DEF Ending
<1> QED BY <1>3, <1>4, <1>5 DEF BoxIsKnown

\* The same, for one step of the list.
LEMMA ThenSteps ==
    ASSUME ProvisionTypeOK, NEW r \in Runs, NEW c \in Claims, BoxIsKnown(r), NEW name,
           Step(r, c, name), NEW more \in Seq(LeftToDo(r)), Then(r, c, more)
    PROVE  /\ name \in LeftToDo(r)
           /\ pc' \in [Runs -> [Claims -> Places]]
           /\ todo' \in [Runs -> [Claims -> Seq(StepNames)]]
           /\ \A q \in Runs : q # r => pc'[q] = pc[q] /\ todo'[q] = todo[q]
           /\ \A d \in Claims : pc'[r][d] = pc[r][d] \/ pc'[r][d] \in Harmless
           /\ \A d \in Claims : todo'[r][d] \in Seq(LeftToDo(r))
<1>1. todo[r][c] \in Seq(LeftToDo(r)) /\ todo[r][c] # << >> /\ Head(todo[r][c]) = name
    BY DEF BoxIsKnown, Step
<1>2. name \in LeftToDo(r) /\ more \o Tail(todo[r][c]) \in Seq(LeftToDo(r))
    BY <1>1, RestOfList
<1>3. Ending(r, c, more \o Tail(todo[r][c]))
    BY DEF Then
<1> QED BY <1>2, <1>3, EndingSteps

\* A driver goes on: its list is unchanged.
LEMMA GotoSteps ==
    ASSUME ProvisionTypeOK, NEW r \in Runs, NEW c \in Claims, BoxIsKnown(r),
           NEW x \in Places, Goto(r, c, x)
    PROVE  /\ pc' \in [Runs -> [Claims -> Places]]
           /\ todo' \in [Runs -> [Claims -> Seq(StepNames)]]
           /\ \A q \in Runs : q # r => pc'[q] = pc[q] /\ todo'[q] = todo[q]
           /\ pc'[r][c] = x
           /\ \A d \in Claims : d # c => pc'[r][d] = pc[r][d]
           /\ \A d \in Claims : todo'[r][d] \in Seq(LeftToDo(r))
<1>1. /\ pc' \in [Runs -> [Claims -> Places]]
      /\ pc'[r][c] = x
      /\ \A d \in Claims : d # c => pc'[r][d] = pc[r][d]
      /\ \A q \in Runs : q # r => pc'[q] = pc[q]
    BY PcUpdate DEF Goto
<1>2. todo' = todo /\ todo \in [Runs -> [Claims -> Seq(StepNames)]]
    BY DEF Goto, ProvisionTypeOK
<1>3. \A d \in Claims : todo[r][d] \in Seq(LeftToDo(r))
    BY DEF BoxIsKnown
<1> QED BY <1>1, <1>2, <1>3

-----------------------------------------------------------------------------
(* Steps that leave every container alone.                                 *)

\* The drivers of r move, none to where it needs a container there is not.
DriversMove(r) ==
    /\ pc' \in [Runs -> [Claims -> Places]]
    /\ todo' \in [Runs -> [Claims -> Seq(StepNames)]]
    /\ \A q \in Runs : q # r => pc'[q] = pc[q] /\ todo'[q] = todo[q]
    /\ \A d \in Claims : \/ pc'[r][d] = pc[r][d]
                         \/ pc'[r][d] \in Harmless
                         \/ pc'[r][d] \in Holding /\ HadBox(r)
    /\ \A d \in Claims : todo'[r][d] \in Seq(LeftToDo(r))

RowMoves(r) ==
    /\ status' \in [Runs -> {"queued", "running", "cancelling"} \cup Terminal]
    /\ token' \in [Runs -> 0..MaxClaims]
    /\ leased' \in [Runs -> BOOLEAN] /\ late' \in [Runs -> BOOLEAN]
    /\ \A q \in Runs : q # r => status'[q] = status[q]

RecordMoves(r) ==
    /\ rec' \in [Runs -> RecStates]
    /\ \A q \in Runs : q # r => rec'[q] = rec[q]
    /\ rec'[r] = rec[r] \/ (rec'[r] = "teardown" /\ rec[r] \in Live \cup {"teardown"})

LEMMA HarmlessStep ==
    ASSUME ProvisionInv, NEW r \in Runs, DriversMove(r), RowMoves(r), RecordMoves(r),
           status'[r] \in {"failed", "cancelled"} => rec'[r] \notin Live,
           lapsable' \in [Runs -> BOOLEAN], faults' \in 0..MaxFaults,
           UNCHANGED <<handle, backend, sweeper>>
    PROVE  ProvisionInv'
<1>1. ProvisionTypeOK'
    BY DEF ProvisionInv, ProvisionTypeOK, DriversMove, RowMoves, RecordMoves, RecStates, Places,
        backend, sweeper
<1>2. ASSUME NEW q \in Runs PROVE RunInv(q)'
    <2>1. CASE q = r
        BY <2>1, RunUnharmed DEF ProvisionInv, DriversMove, RecordMoves, backend
    <2>2. CASE q # r
        BY <2>2, RunUntouched DEF ProvisionInv, DriversMove, RowMoves, RecordMoves, backend
    <2> QED BY <2>1, <2>2
<1> QED BY <1>1, <1>2 DEF ProvisionInv

\* Parts of a step that stay as they are.
LEMMA Unmoved ==
    ASSUME ProvisionInv, NEW r \in Runs
    PROVE  /\ UNCHANGED drivers => DriversMove(r)
           /\ UNCHANGED rows => RowMoves(r)
           /\ UNCHANGED rec => RecordMoves(r)
           /\ rec' = Enqueue(r) => RecordMoves(r)
           /\ rec' = EnqueueOn(r) => RecordMoves(r) /\ rec'[r] \notin Live
           /\ UNCHANGED faults => faults' \in 0..MaxFaults
           /\ Fault => faults' \in 0..MaxFaults
           /\ UNCHANGED lapsable => lapsable' \in [Runs -> BOOLEAN]
           /\ RecordMoves(r) /\ status'[r] = status[r] =>
                  (status'[r] \in {"failed", "cancelled"} => rec'[r] \notin Live)
<1> USE DEF ProvisionInv
<1>1. UNCHANGED drivers => DriversMove(r)
    BY DEF drivers, DriversMove, ProvisionTypeOK, Places, RunInv, BoxIsKnown
<1>2. UNCHANGED rows => RowMoves(r)
    BY DEF rows, RowMoves, ProvisionTypeOK
<1>3. UNCHANGED rec => RecordMoves(r)
    BY DEF RecordMoves, ProvisionTypeOK, RecStates
<1>4. rec' = Enqueue(r) => RecordMoves(r)
    BY RecordWrites DEF RecordMoves
<1>5. rec' = EnqueueOn(r) => RecordMoves(r) /\ rec'[r] \notin Live
    BY RecordWrites DEF RecordMoves, Live
<1>6. UNCHANGED faults => faults' \in 0..MaxFaults
    BY DEF ProvisionTypeOK
<1>7. Fault => faults' \in 0..MaxFaults
    BY FaultType
<1>8. UNCHANGED lapsable => lapsable' \in [Runs -> BOOLEAN]
    BY DEF ProvisionTypeOK
<1>9. RecordMoves(r) /\ status'[r] = status[r] =>
          (status'[r] \in {"failed", "cancelled"} => rec'[r] \notin Live)
    BY DEF RunInv, RecordMoves, Live
<1> QED BY <1>1, <1>2, <1>3, <1>4, <1>5, <1>6, <1>7, <1>8, <1>9

\* A row that ends.
LEMMA EndMoves ==
    ASSUME ProvisionInv, NEW r \in Runs, NEW s \in Terminal, End(r, s)
    PROVE  RowMoves(r) /\ status'[r] = s
BY EndTypes DEF ProvisionInv, RowMoves, End, ProvisionTypeOK

\* The steps of the row, but for the landing of a create.
LEMMA RowStep ==
    ASSUME ProvisionInv, NEW r \in Runs,
           \/ Claim(r) \/ Reclaim(r) \/ RequestCancellation(r)
           \/ LeaseExpires(r) \/ DeadlinePasses(r) \/ Reap(r) \/ WindowPasses(r)
    PROVE  ProvisionInv'
<1>1. ASSUME NEW c \in Claims, HandTo(r, c), RowMoves(r),
             status'[r] \notin {"failed", "cancelled"}
      PROVE  ProvisionInv'
    <2>1. DriversMove(r)
        <3>1. /\ pc' \in [Runs -> [Claims -> Places]]
              /\ pc'[r][c] = "validate"
              /\ \A d \in Claims : d # c => pc'[r][d] = pc[r][d]
              /\ \A q \in Runs : q # r => pc'[q] = pc[q]
            BY <1>1, PcUpdate DEF ProvisionInv, HandTo, Places
        <3>2. "validate" \in Harmless
            BY DEF Harmless
        <3>3. todo' = todo /\ todo \in [Runs -> [Claims -> Seq(StepNames)]]
            BY <1>1 DEF HandTo, ProvisionInv, ProvisionTypeOK
        <3>4. \A d \in Claims : todo[r][d] \in Seq(LeftToDo(r))
            BY DEF ProvisionInv, RunInv, BoxIsKnown
        <3> QED BY <3>1, <3>2, <3>3, <3>4 DEF DriversMove
    <2>2. UNCHANGED <<records, backend, sweeper, faults>>
        BY <1>1 DEF HandTo
    <2> QED BY <1>1, <2>1, <2>2, Unmoved, HarmlessStep DEF records
<1>2. CASE Claim(r) \/ Reclaim(r)
    <2>1. PICK c \in Claims : HandTo(r, c)
        <3>1. Claim(r) => 1 \in Claims
            BY ProvisionConstants DEF Claims
        <3>2. Reclaim(r) => token[r] + 1 \in Claims
            BY ProvisionConstants DEF Reclaim, ProvisionInv, ProvisionTypeOK, Claims
        <3> QED BY <1>2, <3>1, <3>2 DEF Claim, Reclaim
    <2>2. ProvisionTypeOK'
        BY <1>2, RowTypes DEF ProvisionInv
    <2>3. (\A q \in Runs : q # r => status'[q] = status[q]) /\ status'[r] = "running"
        BY <1>2 DEF Claim, Reclaim, ProvisionInv, ProvisionTypeOK
    <2>4. RowMoves(r)
        BY <2>2, <2>3 DEF RowMoves, ProvisionTypeOK
    <2> QED BY <1>1, <2>1, <2>3, <2>4
<1>3. ASSUME NEW s \in Terminal, End(r, s), rec' = EnqueueOn(r),
             UNCHANGED <<handle, lapsable, backend, drivers, sweeper, faults>>
      PROVE  ProvisionInv'
    BY <1>3, EndMoves, Unmoved, HarmlessStep
<1>4. CASE RequestCancellation(r)
    <2>1. CASE status[r] = "running" /\ leased[r] /\ ~late[r]
        <3>1. /\ status' = [status EXCEPT ![r] = "cancelling"]
              /\ UNCHANGED <<token, leased, late, rec, handle, lapsable, backend, drivers, sweeper,
                             faults>>
            BY <1>4, <2>1 DEF RequestCancellation
        <3>2. RowMoves(r) /\ status'[r] = "cancelling"
            BY <3>1 DEF RowMoves, ProvisionInv, ProvisionTypeOK
        <3>3. RecordMoves(r) /\ DriversMove(r)
            BY <3>1, Unmoved
        <3> QED BY <3>1, <3>2, <3>3, Unmoved, HarmlessStep
    <2>2. CASE ~(status[r] = "running" /\ leased[r] /\ ~late[r])
        BY <1>3, <1>4, <2>2 DEF RequestCancellation, Terminal
    <2> QED BY <2>1, <2>2
<1>5. CASE LeaseExpires(r) \/ DeadlinePasses(r)
    <2>1. RowMoves(r) /\ status'[r] = status[r]
        BY <1>5 DEF LeaseExpires, DeadlinePasses, RowMoves, ProvisionInv, ProvisionTypeOK
    <2>2. UNCHANGED <<records, backend, drivers, sweeper, faults>>
        BY <1>5 DEF LeaseExpires, DeadlinePasses
    <2> QED BY <2>1, <2>2, Unmoved, HarmlessStep DEF records
<1>6. CASE Reap(r)
    BY <1>3, <1>6 DEF Reap, Terminal
<1>7. CASE WindowPasses(r)
    <2>1. lapsable' \in [Runs -> BOOLEAN]
        BY <1>7 DEF WindowPasses, ProvisionInv, ProvisionTypeOK
    <2>2. UNCHANGED <<rows, rec, handle, backend, drivers, sweeper, faults>>
        BY <1>7 DEF WindowPasses
    <2> QED BY <2>1, <2>2, Unmoved, HarmlessStep DEF rows
<1> QED BY <1>2, <1>4, <1>5, <1>6, <1>7

\* A driver that starts to end, or takes a terminal step, moves harmlessly.
LEMMA EndingMoves ==
    ASSUME ProvisionInv, NEW r \in Runs, NEW c \in Claims
    PROVE  /\ \A steps \in Seq(LeftToDo(r)) : Ending(r, c, steps) => DriversMove(r)
           /\ \A name \in StepNames, more \in Seq(LeftToDo(r)) :
                  Step(r, c, name) /\ Then(r, c, more) => DriversMove(r) /\ name \in LeftToDo(r)
           /\ \A x \in Harmless : Goto(r, c, x) => DriversMove(r)
           /\ \A x \in Holding : HadBox(r) /\ Goto(r, c, x) => DriversMove(r)
<1>0. ProvisionTypeOK /\ BoxIsKnown(r)
    BY DEF ProvisionInv, RunInv
<1>1. ASSUME NEW steps \in Seq(LeftToDo(r)), Ending(r, c, steps) PROVE DriversMove(r)
    BY <1>0, <1>1, EndingSteps DEF DriversMove
<1>2. ASSUME NEW name \in StepNames, NEW more \in Seq(LeftToDo(r)), Step(r, c, name),
             Then(r, c, more)
      PROVE  DriversMove(r) /\ name \in LeftToDo(r)
    BY <1>0, <1>2, ThenSteps DEF DriversMove
<1>3. ASSUME NEW x \in Harmless \cup Holding, x \in Holding => HadBox(r), Goto(r, c, x)
      PROVE  DriversMove(r)
    <2>1. x \in Places
        BY DEF Harmless, Holding, Places
    <2> QED BY <1>0, <1>3, <2>1, GotoSteps DEF DriversMove
<1>4. Harmless \cap Holding = {}
    BY DEF Harmless, Holding
<1> QED BY <1>1, <1>2, <1>3, <1>4

\* The steps of a driver that leave its container alone.
LEMMA SetupStep ==
    ASSUME ProvisionInv, NEW r \in Runs, NEW c \in Claims,
           \/ Validate(r, c) \/ Created(r, c) \/ CreateFailed(r, c) \/ Fence(r, c)
           \/ Interrupt(r, c) \/ DriveEnds(r, c) \/ StoreFault(r, c) \/ Crash(r, c)
    PROVE  ProvisionInv'
<1>0. ProvisionTypeOK /\ BoxIsKnown(r) /\ pc[r][c] \in Places
    BY DEF ProvisionInv, RunInv, ProvisionTypeOK, Places
<1>1. <<"fail">> \in Seq(LeftToDo(r)) /\ << >> \in Seq(LeftToDo(r))
    BY StepLists
<1>2. ASSUME DriversMove(r), RecordMoves(r), faults' \in 0..MaxFaults,
             UNCHANGED <<rows, handle, lapsable, backend, sweeper>>
      PROVE  ProvisionInv'
    <2>1. RowMoves(r) /\ status' = status
        BY <1>2, Unmoved DEF rows
    <2> QED BY <1>2, <2>1, Unmoved, HarmlessStep
<1>3. CASE Validate(r, c)
    <2>1. DriversMove(r)
        <3>1. "begin" \in Harmless
            BY DEF Harmless
        <3> QED BY <1>1, <1>3, <3>1, EndingMoves DEF Validate
    <2> QED BY <1>2, <1>3, <2>1, Unmoved DEF Validate, records
<1>4. CASE Created(r, c)
    <2>1. HadBox(r) /\ "made" \in Holding
        BY <1>4 DEF Created, HadBox, Holding
    <2> QED BY <1>2, <1>4, <2>1, EndingMoves, Unmoved DEF Created, records
<1>5. CASE CreateFailed(r, c)
    <2>1. DriversMove(r) /\ RecordMoves(r)
        BY <1>1, <1>5, EndingMoves, Unmoved DEF CreateFailed
    <2> QED BY <1>2, <1>5, <2>1, Unmoved DEF CreateFailed
<1>6. CASE Fence(r, c)
    <2>1. HadBox(r) /\ "attaching" \in Holding /\ "attached" \in Holding
        BY <1>0, <1>6 DEF Fence, At, BoxIsKnown, Holding
    <2> QED BY <1>2, <1>6, <2>1, EndingMoves, Unmoved DEF Fence, records
<1>7. CASE Interrupt(r, c)
    <2>1. DriversMove(r)
        BY <1>0, <1>7, AbandonList, EndingMoves DEF Interrupt
    <2> QED BY <1>2, <1>7, <2>1, Unmoved DEF Interrupt, records
<1>8. CASE DriveEnds(r, c)
    <2>1. HadBox(r)
        BY <1>0, <1>8 DEF DriveEnds, At, BoxIsKnown
    <2>2. DriversMove(r)
        BY <1>8, <2>1, StepLists, EndingMoves DEF DriveEnds
    <2> QED BY <1>2, <1>8, <2>2, Unmoved DEF DriveEnds, records
<1>9. CASE StoreFault(r, c)
    <2>1. DriversMove(r)
        BY <1>0, <1>9, AbandonList, EndingMoves DEF StoreFault
    <2>2. RecordMoves(r) /\ faults' \in 0..MaxFaults
        BY <1>9, Unmoved DEF StoreFault
    <2> QED BY <1>2, <1>9, <2>1, <2>2 DEF StoreFault
<1>10. CASE Crash(r, c)
    <2>1. /\ pc' \in [Runs -> [Claims -> Places]]
          /\ pc'[r][c] = "dead"
          /\ \A d \in Claims : d # c => pc'[r][d] = pc[r][d]
          /\ \A q \in Runs : q # r => pc'[q] = pc[q]
        BY <1>0, <1>10, PcUpdate DEF Crash, Places
    <2>2. << >> \in Seq(StepNames)
        OBVIOUS
    <2>3. /\ todo' \in [Runs -> [Claims -> Seq(StepNames)]]
          /\ todo'[r][c] = << >>
          /\ \A d \in Claims : d # c => todo'[r][d] = todo[r][d]
          /\ \A q \in Runs : q # r => todo'[q] = todo[q]
        BY <1>0, <1>10, <2>2, TodoUpdate DEF Crash
    <2>4. DriversMove(r)
        BY <1>0, <1>1, <2>1, <2>3 DEF DriversMove, Harmless, BoxIsKnown
    <2> QED BY <1>2, <1>10, <2>4, Unmoved DEF Crash, records
<1> QED BY <1>3, <1>4, <1>5, <1>6, <1>7, <1>8, <1>9, <1>10

\* The steps that write the run's outcome, and the enqueue of a teardown.
LEMMA OutcomeStep ==
    ASSUME ProvisionInv, NEW r \in Runs, NEW c \in Claims,
           Submit(r, c) \/ Fail(r, c) \/ Finish(r, c) \/ TearEnqueue(r, c)
    PROVE  ProvisionInv'
<1>1. /\ <<"finish">> \in Seq(LeftToDo(r)) /\ << >> \in Seq(LeftToDo(r))
      /\ {"submit", "fail", "finish", "enqueue"} \subseteq StepNames
    BY StepLists DEF StepNames
<1>2. DriversMove(r)
    BY <1>1, EndingMoves DEF Submit, Fail, Finish, TearEnqueue
<1>3. UNCHANGED <<handle, lapsable, backend, sweeper>> /\ faults' \in 0..MaxFaults
    BY Unmoved DEF Submit, Fail, Finish, TearEnqueue, records
<1>4. CASE UNCHANGED rows /\ (UNCHANGED rec \/ rec' = Enqueue(r))
    <2>1. RowMoves(r) /\ RecordMoves(r) /\ status' = status
        BY <1>4, Unmoved DEF rows
    <2> QED BY <1>2, <1>3, <2>1, Unmoved, HarmlessStep
<1>5. CASE End(r, "completed") /\ UNCHANGED rec
    <2>1. RowMoves(r) /\ status'[r] = "completed"
        BY <1>5, EndMoves DEF Terminal
    <2>2. RecordMoves(r)
        BY <1>5, Unmoved
    <2> QED BY <1>2, <1>3, <2>1, <2>2, Unmoved, HarmlessStep
<1>6. CASE (End(r, "failed") \/ End(r, "cancelled")) /\ rec' = EnqueueOn(r)
    <2>1. RowMoves(r)
        BY <1>6, EndMoves DEF Terminal
    <2>2. RecordMoves(r) /\ rec'[r] \notin Live
        BY <1>6, Unmoved
    <2> QED BY <1>2, <1>3, <2>1, <2>2, Unmoved, HarmlessStep
<1> QED BY <1>4, <1>5, <1>6 DEF Submit, Fail, Finish, TearEnqueue, records

-----------------------------------------------------------------------------
(* Steps that open, commit or destroy a container.                         *)

\* begin_for_agent_run: the intent is inserted by the first driver only.
LEMMA BeginStep ==
    ASSUME ProvisionInv, NEW r \in Runs, NEW c \in Claims, Begin(r, c)
    PROVE  ProvisionInv'
<1>0. ProvisionTypeOK /\ BoxIsKnown(r) /\ CreatesOnce(r) /\ SweepIsSound(r) /\ RunInv(r)
    BY DEF ProvisionInv, RunInv
<1>1. UNCHANGED <<rows, handle, lapsable, backend, sweeper, faults>> /\ status[r] = "running"
    BY DEF Begin, ExactLive
<1>2. RowMoves(r) /\ status' = status /\ box' = box /\ creates' = creates
    BY <1>1, Unmoved DEF rows, backend
<1>3. CASE /\ rec[r] = "absent"
           /\ rec' = [rec EXCEPT ![r] = "intended"]
           /\ Goto(r, c, "recheck")
    <2>1. "recheck" \in Places
        BY DEF Places
    <2>2. /\ pc' \in [Runs -> [Claims -> Places]]
          /\ todo' \in [Runs -> [Claims -> Seq(StepNames)]]
          /\ \A q \in Runs : q # r => pc'[q] = pc[q] /\ todo'[q] = todo[q]
          /\ pc'[r][c] = "recheck"
          /\ \A d \in Claims : d # c => pc'[r][d] = pc[r][d]
          /\ \A d \in Claims : todo'[r][d] \in Seq(LeftToDo(r))
        BY <1>0, <1>3, <2>1, GotoSteps
    <2>3. /\ rec' \in [Runs -> RecStates] /\ rec'[r] = "intended"
          /\ \A q \in Runs : q # r => rec'[q] = rec[q]
        BY <1>0, <1>3 DEF ProvisionTypeOK, RecStates, Live
    <2>4. ProvisionTypeOK'
        BY <1>0, <1>1, <2>2, <2>3 DEF ProvisionTypeOK, RecStates, Places, rows, backend, sweeper
    <2>5. LeftToDo(r)' = LeftToDo(r) /\ (HadBox(r)' <=> HadBox(r))
        BY <1>2 DEF LeftToDo, HadBox
    <2>6. box[r] = "none" /\ \A d \in Claims : pc[r][d] \in Harmless
        BY <1>0, <1>3 DEF CreatesOnce, Harmless
    <2>7. CreatesOnce(r)'
        BY <1>0, <1>2, <2>2, <2>3, <2>6 DEF CreatesOnce, Harmless
    <2>8. BoxIsKnown(r)'
        <3>1. handle'[r] \/ rec'[r] = "committed" => HadBox(r)'
            BY <1>0, <1>1, <2>3, <2>5 DEF BoxIsKnown
        <3>2. \A d \in Claims : pc'[r][d] \in {"made", "fence", "attaching", "attached"} => HadBox(r)'
            BY <2>2, <2>6 DEF Harmless
        <3> QED BY <2>2, <2>5, <3>1, <3>2 DEF BoxIsKnown
    <2>9. SweepIsSound(r)'
        BY <1>0, <1>1, <1>2, <1>3, <2>5 DEF SweepIsSound, sweeper
    <2>10. RunInv(r)'
        BY <1>1, <1>2, <2>3, <2>7, <2>8, <2>9 DEF RunInv
    <2>11. ASSUME NEW q \in Runs, q # r PROVE RunInv(q)'
        BY <1>1, <1>2, <2>2, <2>3, <2>11, RunUntouched DEF ProvisionInv
    <2> QED BY <2>4, <2>10, <2>11 DEF ProvisionInv
<1>4. CASE rec[r] = "committed" /\ Goto(r, c, "fence") /\ UNCHANGED rec
    <2>1. HadBox(r) /\ "fence" \in Holding
        BY <1>0, <1>4 DEF BoxIsKnown, Holding
    <2>2. DriversMove(r) /\ RecordMoves(r)
        BY <1>4, <2>1, EndingMoves, Unmoved
    <2> QED BY <1>1, <1>2, <2>2, Unmoved, HarmlessStep
<1>5. CASE rec' = Enqueue(r) /\ Ending(r, c, <<"fail">>)
    <2>1. DriversMove(r) /\ RecordMoves(r)
        BY <1>5, StepLists, EndingMoves, Unmoved
    <2> QED BY <1>1, <1>2, <2>1, Unmoved, HarmlessStep
<1> QED BY <1>3, <1>4, <1>5 DEF Begin

\* The only step that issues a create.
LEMMA CreateStep ==
    ASSUME ProvisionInv, NEW r \in Runs, NEW c \in Claims, Create(r, c)
    PROVE  ProvisionInv'
<1>0. ProvisionTypeOK /\ BoxIsKnown(r) /\ CreatesOnce(r) /\ SweepIsSound(r) /\ RunInv(r)
    BY DEF ProvisionInv, RunInv
<1>1. /\ UNCHANGED <<rows, records, sweeper, faults>> /\ pc[r][c] = "recheck"
      /\ box' = [box EXCEPT ![r] = "creating"] /\ creates' = [creates EXCEPT ![r] = @ + 1]
    BY DEF Create, At
<1>2. box[r] = "none" /\ creates[r] = 0 /\ \A d \in Claims : pc[r][d] = "recheck" => d = c
    BY <1>0, <1>1 DEF CreatesOnce
<1>3. /\ box' \in [Runs -> {"none", "creating", "up", "aborted", "gone"}]
      /\ creates' \in [Runs -> Nat] /\ box'[r] = "creating" /\ creates'[r] = 1
      /\ \A q \in Runs : q # r => box'[q] = box[q] /\ creates'[q] = creates[q]
    BY <1>0, <1>1, <1>2 DEF ProvisionTypeOK
<1>4. "creating" \in Places
    BY DEF Places
<1>5. /\ pc' \in [Runs -> [Claims -> Places]]
      /\ todo' \in [Runs -> [Claims -> Seq(StepNames)]]
      /\ \A q \in Runs : q # r => pc'[q] = pc[q] /\ todo'[q] = todo[q]
      /\ pc'[r][c] = "creating"
      /\ \A d \in Claims : d # c => pc'[r][d] = pc[r][d]
      /\ \A d \in Claims : todo'[r][d] \in Seq(LeftToDo(r))
    BY <1>0, <1>4, GotoSteps DEF Create
<1>6. ProvisionTypeOK'
    BY <1>0, <1>1, <1>3, <1>5 DEF ProvisionTypeOK, Places, rows, records, sweeper
<1>7. ~HadBox(r) /\ ~HadBox(r)' /\ LeftToDo(r)' = LeftToDo(r)
    BY <1>2, <1>3 DEF HadBox, LeftToDo
<1>8. CreatesOnce(r)'
    BY <1>0, <1>1, <1>2, <1>3, <1>5 DEF CreatesOnce, records
<1>9. BoxIsKnown(r)'
    BY <1>0, <1>1, <1>5, <1>7 DEF BoxIsKnown, records
<1>10. SweepIsSound(r)'
    BY <1>0, <1>1, <1>7 DEF SweepIsSound, BoxIsKnown, records, sweeper
<1>11. RunInv(r)'
    BY <1>0, <1>1, <1>7, <1>8, <1>9, <1>10 DEF RunInv, BoxIsKnown, records, rows
<1>12. ASSUME NEW q \in Runs, q # r PROVE RunInv(q)'
    BY <1>1, <1>3, <1>5, <1>12, RunUntouched DEF ProvisionInv, records, rows
<1> QED BY <1>6, <1>11, <1>12 DEF ProvisionInv

\* commit_handle: a driver at "made" saw its container up.
LEMMA CommitStep ==
    ASSUME ProvisionInv, NEW r \in Runs, NEW c \in Claims, CommitHandle(r, c)
    PROVE  ProvisionInv'
<1>0. ProvisionTypeOK /\ BoxIsKnown(r) /\ CreatesOnce(r) /\ SweepIsSound(r) /\ RunInv(r)
    BY DEF ProvisionInv, RunInv
<1>1. /\ UNCHANGED <<rows, lapsable, backend, sweeper, faults>> /\ HadBox(r)
      /\ status' = status /\ box' = box /\ creates' = creates
    BY <1>0 DEF CommitHandle, At, BoxIsKnown, backend, rows
<1>2. CASE rec[r] # "intended"
    <2>1. Ending(r, c, Tear \o <<"fail">>) /\ UNCHANGED <<rec, handle>>
        BY <1>2 DEF CommitHandle
    <2>2. DriversMove(r) /\ RecordMoves(r) /\ RowMoves(r)
        BY <1>1, <2>1, StepLists, EndingMoves, Unmoved
    <2> QED BY <1>1, <2>1, <2>2, Unmoved, HarmlessStep
<1>3. CASE rec[r] = "intended"
    <2>1. /\ rec' = [rec EXCEPT ![r] = "committed"] /\ handle' = [handle EXCEPT ![r] = TRUE]
          /\ Goto(r, c, "fence")
        BY <1>3 DEF CommitHandle
    <2>2. /\ rec' \in [Runs -> RecStates] /\ rec'[r] = "committed"
          /\ handle' \in [Runs -> BOOLEAN]
          /\ \A q \in Runs : q # r => rec'[q] = rec[q] /\ handle'[q] = handle[q]
        BY <1>0, <2>1 DEF ProvisionTypeOK, RecStates, Live
    <2>3. "fence" \in Places
        BY DEF Places
    <2>4. /\ pc' \in [Runs -> [Claims -> Places]]
          /\ todo' \in [Runs -> [Claims -> Seq(StepNames)]]
          /\ \A q \in Runs : q # r => pc'[q] = pc[q] /\ todo'[q] = todo[q]
          /\ pc'[r][c] = "fence"
          /\ \A d \in Claims : d # c => pc'[r][d] = pc[r][d]
          /\ \A d \in Claims : todo'[r][d] \in Seq(LeftToDo(r))
        BY <1>0, <2>1, <2>3, GotoSteps
    <2>5. ProvisionTypeOK'
        BY <1>0, <1>1, <2>2, <2>4 DEF ProvisionTypeOK, RecStates, Places, rows, backend, sweeper
    <2>6. HadBox(r)' /\ LeftToDo(r)' = LeftToDo(r)
        BY <1>1 DEF HadBox, LeftToDo
    <2>7. CreatesOnce(r)'
        <3>1. box[r] # "none"
            BY <1>1 DEF HadBox
        <3>2. \A d \in Claims : pc[r][d] # "recheck" /\ pc'[r][d] # "recheck"
            BY <1>0, <2>4, <3>1 DEF CreatesOnce
        <3>3. rec'[r] # "absent"
            BY <2>2
        <3>4. creates'[r] = 1 /\ box'[r] # "none"
            BY <1>0, <1>1, <3>1 DEF CreatesOnce
        <3> QED BY <3>2, <3>3, <3>4 DEF CreatesOnce
    <2>8. BoxIsKnown(r)'
        BY <2>4, <2>6 DEF BoxIsKnown
    <2>9. SweepIsSound(r)'
        BY <1>0, <1>1, <1>3, <2>6 DEF SweepIsSound, sweeper
    <2>10. RunInv(r)'
        BY <1>0, <1>1, <1>3, <2>2, <2>7, <2>8, <2>9 DEF RunInv, Live
    <2>11. ASSUME NEW q \in Runs, q # r PROVE RunInv(q)'
        BY <1>1, <2>2, <2>4, <2>11, RunUntouched DEF ProvisionInv
    <2> QED BY <2>5, <2>10, <2>11 DEF ProvisionInv
<1> QED BY <1>2, <1>3

\* A container that was up is destroyed, or not; nothing else happens to it.
LEMMA RunDestroyed ==
    ASSUME NEW q \in Runs, RunInv(q), HadBox(q), box'[q] \in {box[q], "gone"},
           UNCHANGED <<creates, status, handle, sweep, tags>>,
           \/ rec'[q] = rec[q]
           \/ rec[q] = "teardown" /\ rec'[q] = "done" /\ (handle[q] => box'[q] = "gone"),
           \A d \in Claims : pc'[q][d] = pc[q][d] \/ pc'[q][d] \in Harmless,
           \A d \in Claims : todo'[q][d] \in Seq(LeftToDo(q)'),
           pending' \subseteq pending, frozen' \subseteq frozen,
           q \in pending => q \in pending' \/ box'[q] = "gone" \/ q \notin frozen'
    PROVE  RunInv(q)'
<1>1. HadBox(q)' /\ box[q] # "none" /\ box'[q] # "none"
    BY DEF HadBox
<1>2. CreatesOnce(q)'
    BY <1>1 DEF RunInv, CreatesOnce, Harmless
<1>3. BoxIsKnown(q)'
    BY <1>1 DEF BoxIsKnown
<1>4. SweepIsSound(q)'
    BY <1>1 DEF RunInv, SweepIsSound
<1>5. status'[q] \in {"failed", "cancelled"} => rec'[q] \notin Live
    BY DEF RunInv, Live
<1>6. rec'[q] = "done" /\ handle'[q] => box'[q] = "gone"
    BY DEF RunInv
<1> QED BY <1>2, <1>3, <1>4, <1>5, <1>6 DEF RunInv

\* A run whose container is gone may have more left to do, never less.
LEMMA LeftGrows ==
    ASSUME NEW q, HadBox(q), box'[q] \in {box[q], "gone"}, NEW s \in Seq(LeftToDo(q))
    PROVE  s \in Seq(LeftToDo(q)')
<1>1. LeftToDo(q) \subseteq LeftToDo(q)'
    BY DEF LeftToDo, HadBox
<1> QED BY <1>1, SeqWider

LEMMA TearDestroyStep ==
    ASSUME ProvisionInv, NEW r \in Runs, NEW c \in Claims, TearDestroy(r, c)
    PROVE  ProvisionInv'
<1>0. ProvisionTypeOK /\ BoxIsKnown(r) /\ RunInv(r)
    BY DEF ProvisionInv, RunInv
<1>1. /\ todo[r][c] \in Seq(LeftToDo(r)) /\ todo[r][c] # << >> /\ Head(todo[r][c]) = "destroy"
      /\ UNCHANGED <<rows, records, creates, sweeper>> /\ faults' \in 0..MaxFaults
    BY <1>0, Unmoved DEF TearDestroy, Step, BoxIsKnown
<1>2. "destroy" \in LeftToDo(r) /\ Tail(todo[r][c]) \in Seq(LeftToDo(r))
    BY <1>1, HeadTailProperties
<1>3. HadBox(r)
    BY <1>2 DEF LeftToDo
<1>4. PICK more \in {<< >>, <<"complete">>} :
          /\ Then(r, c, more)
          /\ box' = box \/ box' = Gone(r)
          /\ more # << >> => box' = Gone(r)
    BY DEF TearDestroy
<1>5. /\ box' \in [Runs -> {"none", "creating", "up", "aborted", "gone"}]
      /\ box'[r] \in {box[r], "gone"} /\ (more # << >> => box'[r] = "gone")
      /\ \A q \in Runs : q # r => box'[q] = box[q]
    BY <1>0, <1>4 DEF ProvisionTypeOK, Gone
<1>6. Tail(todo[r][c]) \in Seq(LeftToDo(r)')
    BY <1>2, <1>3, <1>5, LeftGrows
<1>7. more \in Seq(LeftToDo(r)')
    <2>1. box'[r] = "gone" => "complete" \in LeftToDo(r)'
        BY DEF LeftToDo
    <2>2. CASE more = << >>
        BY <2>2
    <2>3. CASE more = <<"complete">>
        <3>1. "complete" \in LeftToDo(r)'
            BY <1>5, <2>1, <2>3
        <3> QED BY <2>3, <3>1
    <2> QED BY <1>4, <2>2, <2>3
<1>8. more \o Tail(todo[r][c]) \in Seq(LeftToDo(r)')
    BY <1>6, <1>7, ConcatProperties
<1>9. LeftToDo(r)' \subseteq StepNames
    BY DEF LeftToDo, StepNames
<1>10. more \o Tail(todo[r][c]) \in Seq(StepNames)
    BY <1>8, <1>9, SeqWider
<1>11. "ending" \in Places /\ "ending" \in Harmless
    BY DEF Places, Harmless
<1>12. /\ pc' \in [Runs -> [Claims -> Places]]
       /\ pc'[r][c] = "ending"
       /\ \A d \in Claims : d # c => pc'[r][d] = pc[r][d]
       /\ \A q \in Runs : q # r => pc'[q] = pc[q]
    BY <1>0, <1>4, <1>11, PcUpdate DEF Then, Ending
<1>13. /\ todo' \in [Runs -> [Claims -> Seq(StepNames)]]
       /\ todo'[r][c] = more \o Tail(todo[r][c])
       /\ \A d \in Claims : d # c => todo'[r][d] = todo[r][d]
       /\ \A q \in Runs : q # r => todo'[q] = todo[q]
    BY <1>0, <1>4, <1>10, TodoUpdate DEF Then, Ending
<1>14. ASSUME NEW d \in Claims PROVE todo'[r][d] \in Seq(LeftToDo(r)')
    <2>1. CASE d = c
        BY <1>8, <1>13, <2>1
    <2>2. CASE d # c
        BY <1>0, <1>3, <1>5, <1>13, <2>2, LeftGrows DEF BoxIsKnown
    <2> QED BY <2>1, <2>2
<1>15. RunInv(r)'
    BY <1>0, <1>1, <1>3, <1>5, <1>11, <1>12, <1>14, RunDestroyed DEF rows, records, sweeper
<1>16. ASSUME NEW q \in Runs, q # r PROVE RunInv(q)'
    BY <1>1, <1>5, <1>12, <1>13, <1>16, RunUntouched DEF ProvisionInv, rows, records
<1>17. ProvisionTypeOK'
    BY <1>0, <1>1, <1>5, <1>12, <1>13 DEF ProvisionTypeOK, Places, rows, records, sweeper
<1> QED BY <1>15, <1>16, <1>17 DEF ProvisionInv

LEMMA TearCompleteStep ==
    ASSUME ProvisionInv, NEW r \in Runs, NEW c \in Claims, TearComplete(r, c)
    PROVE  ProvisionInv'
<1>0. ProvisionTypeOK /\ BoxIsKnown(r) /\ RunInv(r)
    BY DEF ProvisionInv, RunInv
<1>1. << >> \in Seq(LeftToDo(r)) /\ "complete" \in StepNames
    BY StepLists DEF StepNames
<1>2. DriversMove(r) /\ "complete" \in LeftToDo(r)
    BY <1>1, EndingMoves DEF TearComplete
<1>3. /\ UNCHANGED <<rows, handle, lapsable, backend, sweeper>> /\ faults' \in 0..MaxFaults
      /\ UNCHANGED <<status, box, creates>>
    BY Unmoved DEF TearComplete, rows, backend
<1>4. CASE UNCHANGED rec
    BY <1>2, <1>3, <1>4, Unmoved, HarmlessStep
<1>5. CASE rec' = CompleteTeardown(r)
    <2>1. box[r] = "gone"
        BY <1>2 DEF LeftToDo
    <2>2. /\ rec' \in [Runs -> RecStates]
          /\ \A q \in Runs : q # r => rec'[q] = rec[q]
          /\ rec'[r] = rec[r] \/ (rec[r] = "teardown" /\ rec'[r] = "done")
        BY <1>0, <1>5, RecordWrites
    <2>3. ProvisionTypeOK'
        BY <1>0, <1>2, <1>3, <2>2 DEF ProvisionTypeOK, RecStates, Places, DriversMove, rows,
            backend, sweeper
    <2>4. LeftToDo(r)' = LeftToDo(r) /\ HadBox(r)
        BY <1>3, <2>1 DEF LeftToDo, HadBox
    <2>5. \A d \in Claims : \/ pc'[r][d] = pc[r][d] \/ pc'[r][d] \in Harmless
        BY <1>0, <1>1, ThenSteps DEF TearComplete
    <2>6. \A d \in Claims : todo'[r][d] \in Seq(LeftToDo(r)')
        BY <1>2, <2>4 DEF DriversMove
    <2>7. RunInv(r)'
        BY <1>0, <1>3, <2>1, <2>2, <2>4, <2>5, <2>6, RunDestroyed DEF sweeper
    <2>8. ASSUME NEW q \in Runs, q # r PROVE RunInv(q)'
        BY <1>2, <1>3, <2>2, <2>8, RunUntouched DEF ProvisionInv, DriversMove
    <2> QED BY <2>3, <2>7, <2>8 DEF ProvisionInv
<1> QED BY <1>4, <1>5 DEF TearComplete

\* A create that was issued lands or fails.
LEMMA BoxLandsStep ==
    ASSUME ProvisionInv, NEW r \in Runs, BoxLands(r)
    PROVE  ProvisionInv'
<1>0. ProvisionTypeOK /\ RunInv(r)
    BY DEF ProvisionInv
<1>1. ProvisionTypeOK'
    BY <1>0, RowTypes
<1>2. /\ UNCHANGED <<rows, records, creates, drivers, sweeper, faults>>
      /\ box[r] = "creating" /\ box'[r] \in {"up", "aborted"}
      /\ \A q \in Runs : q # r => box'[q] = box[q]
    BY <1>0 DEF BoxLands, ProvisionTypeOK
<1>3. LeftToDo(r) \subseteq LeftToDo(r)' /\ ~HadBox(r)
    BY <1>2 DEF LeftToDo, HadBox
<1>4. ASSUME NEW d \in Claims PROVE todo'[r][d] \in Seq(LeftToDo(r)')
    BY <1>0, <1>2, <1>3, SeqWider DEF RunInv, BoxIsKnown, drivers
<1>5. CreatesOnce(r)'
    <2>1. \A d \in Claims : pc[r][d] # "recheck"
        BY <1>0, <1>2 DEF RunInv, CreatesOnce
    <2>2. creates[r] = 1 /\ rec[r] # "absent"
        BY <1>0, <1>2 DEF RunInv, CreatesOnce
    <2> QED BY <1>2, <2>1, <2>2 DEF CreatesOnce, drivers, records
<1>6. BoxIsKnown(r)'
    BY <1>0, <1>2, <1>3, <1>4 DEF RunInv, BoxIsKnown, drivers, records
<1>7. SweepIsSound(r)'
    BY <1>0, <1>2, <1>3 DEF RunInv, SweepIsSound, BoxIsKnown, sweeper, records
<1>8. RunInv(r)'
    BY <1>0, <1>2, <1>3, <1>5, <1>6, <1>7 DEF RunInv, BoxIsKnown, rows, records
<1>9. ASSUME NEW q \in Runs, q # r PROVE RunInv(q)'
    BY <1>2, <1>9, RunUntouched DEF ProvisionInv, rows, records, drivers
<1> QED BY <1>1, <1>8, <1>9 DEF ProvisionInv

-----------------------------------------------------------------------------
(* The sweep.                                                              *)

\* The stages that read: what the sweep knows of a run.
LEMMA SweepReads ==
    ASSUME ProvisionInv, SweepFreeze \/ SweepSnapshot \/ SweepList \/ SweepCrash
    PROVE  ProvisionInv'
<1>1. UNCHANGED <<rows, records, backend, drivers>> /\ faults' \in 0..MaxFaults
    BY FaultType DEF SweepFreeze, SweepSnapshot, SweepList, SweepCrash, ProvisionInv,
        ProvisionTypeOK
<1>2. ProvisionTypeOK'
    BY <1>1 DEF SweepFreeze, SweepSnapshot, SweepList, SweepCrash, ProvisionInv, ProvisionTypeOK,
        rows, records, backend, drivers
<1>3. ASSUME NEW q \in Runs PROVE RunInv(q)'
    <2>0. RunInv(q)
        BY DEF ProvisionInv
    <2>1. LeftToDo(q)' = LeftToDo(q) /\ (HadBox(q)' <=> HadBox(q))
        BY <1>1 DEF LeftToDo, HadBox, backend
    <2>2. CreatesOnce(q)' /\ BoxIsKnown(q)'
        BY <1>1, <2>0, <2>1 DEF RunInv, CreatesOnce, BoxIsKnown, records, backend, drivers
    <2>3. SweepIsSound(q)'
        <3>1. CASE SweepFreeze
            BY <1>1, <2>0, <2>1, <3>1 DEF SweepFreeze, SweepIsSound, records
        <3>2. CASE SweepSnapshot
            BY <1>1, <2>0, <2>1, <3>2 DEF SweepSnapshot, SweepIsSound, RunInv, records, Live
        <3>3. CASE SweepList
            BY <1>1, <2>0, <2>1, <3>3 DEF SweepList, SweepIsSound, RunInv, BoxIsKnown, HadBox,
                records, backend
        <3>4. CASE SweepCrash
            BY <1>1, <3>4 DEF SweepCrash, SweepIsSound
        <3> QED BY <3>1, <3>2, <3>3, <3>4
    <2> QED BY <1>1, <2>0, <2>2, <2>3 DEF RunInv, rows, records, backend
<1> QED BY <1>2, <1>3 DEF ProvisionInv

\* lapse, and the listing of what the directed pass will destroy.
LEMMA SweepLapseStep ==
    ASSUME ProvisionInv, SweepLapse
    PROVE  ProvisionInv'
<1>1. ASSUME NEW q \in Runs
      PROVE  rec'[q] = rec[q] \/ (rec'[q] = "teardown" /\ rec[q] = "intended")
    BY DEF SweepLapse
<1>2. rec' \in [Runs -> RecStates]
    BY DEF SweepLapse, ProvisionInv, ProvisionTypeOK, RecStates
<1>3. ProvisionTypeOK'
    BY <1>2 DEF SweepLapse, ProvisionInv, ProvisionTypeOK, RecStates, rows, backend, drivers
<1>4. ASSUME NEW q \in Runs PROVE RunInv(q)'
    <2>0. RunInv(q)
        BY DEF ProvisionInv
    <2>1. UNCHANGED <<rows, handle, backend, drivers>> /\ sweep' = "directed"
          /\ (q \in pending' => handle[q])
        BY DEF SweepLapse
    <2>2. LeftToDo(q)' = LeftToDo(q) /\ (HadBox(q)' <=> HadBox(q))
        BY <2>1 DEF LeftToDo, HadBox, backend
    <2>3. CreatesOnce(q)' /\ BoxIsKnown(q)'
        BY <1>1, <2>0, <2>1, <2>2 DEF RunInv, CreatesOnce, BoxIsKnown, backend, drivers
    <2>4. SweepIsSound(q)'
        BY <2>0, <2>1, <2>2 DEF SweepIsSound, RunInv, BoxIsKnown
    <2> QED BY <1>1, <2>0, <2>1, <2>3, <2>4 DEF RunInv, rows, backend, Live
<1> QED BY <1>3, <1>4 DEF ProvisionInv

\* The stages that destroy.
LEMMA SweepDestroys ==
    ASSUME ProvisionInv, NEW r \in Runs, SweepDestroy(r) \/ SweepRemove(r)
    PROVE  ProvisionInv'
<1>0. ProvisionTypeOK /\ RunInv(r)
    BY DEF ProvisionInv
<1>1. /\ UNCHANGED <<rows, handle, lapsable, creates, drivers, sweep, tags>>
      /\ faults' \in 0..MaxFaults /\ pending' = pending \ {r} /\ r \in pending
      /\ sweep \in {"directed", "removing"}
    BY FaultType DEF SweepDestroy, SweepRemove, ProvisionInv, ProvisionTypeOK, records
<1>2. HadBox(r)
    BY <1>0, <1>1 DEF RunInv, SweepIsSound
<1>3. /\ box' \in [Runs -> {"none", "creating", "up", "aborted", "gone"}]
      /\ box'[r] \in {box[r], "gone"}
      /\ \A q \in Runs : q # r => box'[q] = box[q]
    BY <1>0 DEF SweepDestroy, SweepRemove, Gone, ProvisionTypeOK
<1>4. /\ rec' \in [Runs -> RecStates]
      /\ \A q \in Runs : q # r => rec'[q] = rec[q]
      /\ \/ rec'[r] = rec[r]
         \/ rec[r] = "teardown" /\ rec'[r] = "done" /\ box'[r] = "gone"
    <2>1. CASE UNCHANGED rec
        BY <1>0, <2>1 DEF ProvisionTypeOK, RecStates
    <2>2. CASE rec' = CompleteTeardown(r) /\ box' = Gone(r)
        BY <1>0, <2>2, RecordWrites DEF ProvisionTypeOK, Gone
    <2> QED BY <2>1, <2>2 DEF SweepDestroy, SweepRemove, records
<1>5. /\ frozen' \subseteq frozen /\ frozen' \in {frozen, {}}
      /\ sweep = "removing" => box'[r] = "gone" \/ frozen' = {}
    BY <1>0, <1>1 DEF SweepDestroy, SweepRemove, Gone, ProvisionTypeOK
<1>6. ProvisionTypeOK'
    BY <1>0, <1>1, <1>3, <1>4, <1>5 DEF ProvisionTypeOK, RecStates, rows, drivers
<1>7. ASSUME NEW d \in Claims PROVE todo'[r][d] \in Seq(LeftToDo(r)')
    BY <1>0, <1>1, <1>2, <1>3, LeftGrows DEF RunInv, BoxIsKnown, drivers
<1>8. RunInv(r)'
    <2>1. HadBox(r)' /\ box[r] # "none" /\ box'[r] # "none"
        BY <1>2, <1>3 DEF HadBox
    <2>2. CreatesOnce(r)'
        BY <1>0, <1>1, <1>4, <2>1 DEF RunInv, CreatesOnce, drivers
    <2>3. BoxIsKnown(r)'
        BY <1>7, <2>1 DEF BoxIsKnown
    <2>4. SweepIsSound(r)'
        BY <1>0, <1>1, <1>4, <1>5, <2>1 DEF RunInv, SweepIsSound
    <2> QED BY <1>0, <1>1, <1>3, <1>4, <2>2, <2>3, <2>4 DEF RunInv, rows, Live
<1>9. ASSUME NEW q \in Runs, q # r PROVE RunInv(q)'
    <2>0. RunInv(q)
        BY DEF ProvisionInv
    <2>1. LeftToDo(q)' = LeftToDo(q) /\ (HadBox(q)' <=> HadBox(q))
        BY <1>3, <1>9 DEF LeftToDo, HadBox
    <2>2. CreatesOnce(q)' /\ BoxIsKnown(q)'
        BY <1>1, <1>3, <1>4, <1>9, <2>0, <2>1 DEF RunInv, CreatesOnce, BoxIsKnown, drivers
    <2>3. SweepIsSound(q)'
        BY <1>1, <1>3, <1>4, <1>5, <1>9, <2>0, <2>1 DEF RunInv, SweepIsSound
    <2> QED BY <1>1, <1>3, <1>4, <1>9, <2>0, <2>2, <2>3 DEF RunInv, rows
<1> QED BY <1>6, <1>8, <1>9 DEF ProvisionInv

\* The discharge of the frozen obligations.
LEMMA SweepDischargeStep ==
    ASSUME ProvisionInv, SweepDischarge
    PROVE  ProvisionInv'
<1>1. /\ UNCHANGED <<rows, handle, lapsable, backend, drivers, pending, frozen, tags, faults>>
      /\ sweep = "removing" /\ sweep' = "idle" /\ pending = {}
    BY DEF SweepDischarge
<1>2. ASSUME NEW q \in Runs
      PROVE  rec'[q] = rec[q] \/ (q \in frozen /\ rec[q] = "teardown" /\ rec'[q] = "done")
    BY DEF SweepDischarge
<1>3. rec' \in [Runs -> RecStates]
    BY DEF SweepDischarge, ProvisionInv, ProvisionTypeOK, RecStates
<1>4. ProvisionTypeOK'
    BY <1>1, <1>3 DEF ProvisionInv, ProvisionTypeOK, RecStates, rows, backend, drivers
<1>5. ASSUME NEW q \in Runs PROVE RunInv(q)'
    <2>0. RunInv(q)
        BY DEF ProvisionInv
    <2>1. LeftToDo(q)' = LeftToDo(q) /\ (HadBox(q)' <=> HadBox(q))
        BY <1>1 DEF LeftToDo, HadBox, backend
    <2>2. CreatesOnce(q)' /\ BoxIsKnown(q)'
        BY <1>1, <1>2, <2>0, <2>1 DEF RunInv, CreatesOnce, BoxIsKnown, backend, drivers
    <2>3. SweepIsSound(q)'
        BY <1>1 DEF SweepIsSound
    <2>4. rec'[q] = "done" /\ handle'[q] => box'[q] = "gone"
        BY <1>1, <1>2, <2>0 DEF RunInv, SweepIsSound, backend
    <2> QED BY <1>1, <1>2, <2>0, <2>2, <2>3, <2>4 DEF RunInv, rows, Live
<1> QED BY <1>4, <1>5 DEF ProvisionInv

-----------------------------------------------------------------------------
(* The theorems.                                                           *)

LEMMA ProvisionInit == Init => ProvisionInv
<1> SUFFICES ASSUME Init PROVE ProvisionInv
    OBVIOUS
<1>1. << >> \in Seq(StepNames)
    OBVIOUS
<1>2. ProvisionTypeOK
    BY <1>1, ProvisionConstants DEF Init, ProvisionTypeOK, Live
<1>3. ASSUME NEW q \in Runs PROVE RunInv(q)
    <2>1. \A c \in Claims : todo[q][c] = << >> /\ pc[q][c] = "none"
        BY DEF Init
    <2>2. << >> \in Seq(LeftToDo(q))
        OBVIOUS
    <2>3. CreatesOnce(q) /\ BoxIsKnown(q) /\ SweepIsSound(q)
        BY <2>1, <2>2 DEF Init, CreatesOnce, BoxIsKnown, SweepIsSound
    <2> QED BY <2>3 DEF Init, RunInv
<1> QED BY <1>2, <1>3 DEF ProvisionInv

LEMMA ProvisionNext == ProvisionInv /\ [Next]_vars => ProvisionInv'
<1> SUFFICES ASSUME ProvisionInv, [Next]_vars PROVE ProvisionInv'
    OBVIOUS
<1>1. ASSUME NEW r \in Runs,
             \/ Claim(r) \/ Reclaim(r) \/ RequestCancellation(r)
             \/ LeaseExpires(r) \/ DeadlinePasses(r) \/ Reap(r) \/ WindowPasses(r)
      PROVE  ProvisionInv'
    BY <1>1, RowStep
<1>2. ASSUME NEW r \in Runs, BoxLands(r) PROVE ProvisionInv'
    BY <1>2, BoxLandsStep
<1>3. ASSUME NEW r \in Runs, NEW c \in Claims, Drive(r, c) \/ StoreFault(r, c) \/ Crash(r, c)
      PROVE  ProvisionInv'
    BY <1>3, SetupStep, OutcomeStep, BeginStep, CreateStep, CommitStep, TearDestroyStep,
        TearCompleteStep DEF Drive
<1>4. CASE Sweep \/ SweepCrash
    BY <1>4, SweepReads, SweepLapseStep, SweepDestroys, SweepDischargeStep DEF Sweep
<1>5. CASE UNCHANGED vars
    <2>1. ProvisionTypeOK'
        BY <1>5 DEF ProvisionInv, ProvisionTypeOK, vars, rows, records, backend, drivers, sweeper
    <2>2. ASSUME NEW q \in Runs PROVE RunInv(q)'
        BY <1>5, RunUntouched DEF ProvisionInv, vars, rows, records, backend, drivers
    <2> QED BY <2>1, <2>2 DEF ProvisionInv
<1> QED BY <1>1, <1>2, <1>3, <1>4, <1>5 DEF Next

LEMMA ProvisionInvariant == Spec => []ProvisionInv
BY ProvisionInit, ProvisionNext, PTL DEF Spec

\* Every reachable state of runs, records, drivers and the sweep is well typed.
THEOREM ProvisionTypeCorrect == Spec => []ProvisionTypeOK
<1>1. ProvisionInv => ProvisionTypeOK
    BY DEF ProvisionInv
<1> QED BY <1>1, ProvisionInvariant, PTL

\* However often a run is reclaimed, and wherever its drivers die, one container
\* at most is asked to run it.
THEOREM ContainerIsAskedOnce == Spec => []OneContainerPerRun
<1>1. ProvisionInv => OneContainerPerRun
    BY DEF ProvisionInv, RunInv, CreatesOnce, OneContainerPerRun
<1> QED BY <1>1, ProvisionInvariant, PTL

\* A record with a handle is marked done only when the container is gone: neither
\* the driver nor the two loops of the sweep discharge what they did not destroy.
THEOREM DischargedIsGone == Spec => []DoneMeansGone
<1>1. ProvisionInv => DoneMeansGone
    BY DEF ProvisionInv, RunInv, DoneMeansGone
<1> QED BY <1>1, ProvisionInvariant, PTL

\* Failure and cancellation enqueue the teardown in their own transaction, and no
\* driver makes the record live again afterwards.
THEOREM EndedRunsOweTeardown == Spec => []EndedRunOwesTeardown
<1>1. ProvisionInv => EndedRunOwesTeardown
    BY DEF ProvisionInv, RunInv, EndedRunOwesTeardown
<1> QED BY <1>1, ProvisionInvariant, PTL

\* Who may change a status: only a row that is not terminal changes it.
LEMMA StatusWriters ==
    ASSUME ProvisionTypeOK, [Next]_vars, NEW q \in Runs, status[q] \in Terminal
    PROVE  status'[q] = status[q]
<1> USE DEF Terminal
<1>1. ASSUME NEW r \in Runs,
             \/ Claim(r) \/ Reclaim(r) \/ RequestCancellation(r)
             \/ LeaseExpires(r) \/ DeadlinePasses(r) \/ Reap(r)
             \/ BoxLands(r) \/ WindowPasses(r)
      PROVE  status'[q] = status[q]
    BY <1>1 DEF Claim, Reclaim, RequestCancellation, LeaseExpires, DeadlinePasses, Reap,
        BoxLands, WindowPasses, End, rows, ProvisionTypeOK
<1>2. ASSUME NEW r \in Runs, NEW c \in Claims, Submit(r, c) \/ Fail(r, c) \/ Finish(r, c)
      PROVE  status'[q] = status[q]
    BY <1>2 DEF Submit, Fail, Finish, ExactLive, End, rows, ProvisionTypeOK
<1>3. ASSUME NEW r \in Runs, NEW c \in Claims,
             \/ Validate(r, c) \/ Begin(r, c) \/ Create(r, c) \/ Created(r, c)
             \/ CreateFailed(r, c) \/ CommitHandle(r, c) \/ Fence(r, c) \/ Interrupt(r, c)
             \/ DriveEnds(r, c) \/ TearEnqueue(r, c) \/ TearDestroy(r, c)
             \/ TearComplete(r, c) \/ StoreFault(r, c) \/ Crash(r, c)
      PROVE  status'[q] = status[q]
    BY <1>3 DEF Validate, Begin, Create, Created, CreateFailed, CommitHandle, Fence, Interrupt,
        DriveEnds, TearEnqueue, TearDestroy, TearComplete, StoreFault, Crash, rows
<1>4. CASE Sweep \/ SweepCrash \/ UNCHANGED vars
    BY <1>4 DEF Sweep, SweepLapse, SweepFreeze, SweepSnapshot, SweepList, SweepDischarge,
        SweepDestroy, SweepRemove, SweepCrash, vars, rows
<1> QED BY <1>1, <1>2, <1>3, <1>4 DEF Next, Drive

\* A run's outcome is decided once: no driver with a stale claim, no scan and no
\* cancellation overwrites it.
THEOREM OutcomesAreFinal == Spec => OutcomeIsFinal
<1>1. ProvisionInv /\ [Next]_vars =>
          [\A r \in Runs : status[r] \in Terminal => status'[r] = status[r]]_vars
    BY StatusWriters DEF ProvisionInv
<1> QED BY <1>1, ProvisionInvariant, PTL DEF Spec, OutcomeIsFinal
=============================================================================
