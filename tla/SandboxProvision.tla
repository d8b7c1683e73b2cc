--------------------------- MODULE SandboxProvision ---------------------------
(***************************************************************************)
(* Provisioning and teardown of the container of a sandbox run: the run's  *)
(* row, its durable provisioning record, the drivers that claim the run,   *)
(* the container backend, and the maintenance sweep beside them.           *)
(*                                                                         *)
(* Source, under crates/: tidebreak-core/src/db/ops/sandbox_provision.rs,  *)
(* db/ops/agent_run.rs and agent_run/cancellation.rs (the container run's  *)
(* transitions), tidebreak-sandbox-runtime/src/container_run/mod.rs        *)
(* (drive_claimed, teardown, recover, sweep), container_worker.rs and the  *)
(* provision, destroy and reclaim_orphans of docker.rs.                    *)
(*                                                                         *)
(* A driver is named by the claim it holds: claim 1 is the first drive,    *)
(* later ones are reclaims by recover().  Clocks are steps: a lease, the   *)
(* provisioning window and the deadline may pass at any time.  What runs   *)
(* inside the container is the business of EventStream and ReverseRpc.     *)
(***************************************************************************)
EXTENDS Naturals, Sequences, FiniteSets

CONSTANTS
    Runs,        \* container-located agent runs
    MaxRunning,  \* max_concurrent_containers
    MaxClaims,   \* bound: claims of one run
    MaxFaults    \* bound: crashes, failed store writes and unconfirmed destroys

ASSUME ProvisionConstants ==
    MaxRunning \in Nat \ {0} /\ MaxClaims \in Nat \ {0} /\ MaxFaults \in Nat

Claims == 1..MaxClaims

VARIABLES
    status,    \* by run: status of its row
    token,     \* by run: the claim that holds the lease, or 0
    leased,    \* by run: the lease has not expired
    late,      \* by run: the absolute deadline has passed
    rec,       \* by run: state of the provisioning record
    handle,    \* by run: the record carries a handle
    lapsable,  \* by run: the provisioning window has passed
    box,       \* by run: its container
    creates,   \* by run: create calls issued
    pc,        \* by run and claim: where the driver stands
    todo,      \* by run and claim: terminal steps an ending driver has left
    sweep,     \* where the sweep stands
    pending,   \* the runs its present loop has left
    frozen,    \* the obligations this pass may discharge
    tags,      \* its snapshot of the live tags
    faults     \* faults so far

rows == <<status, token, leased, late>>
records == <<rec, handle, lapsable>>
backend == <<box, creates>>
drivers == <<pc, todo>>
sweeper == <<sweep, pending, frozen, tags>>
vars == <<rows, records, backend, drivers, sweeper, faults>>

Terminal == {"completed", "failed", "cancelled"}
Live == {"intended", "committed"}

\* exact_live_agent_run_claim_on, and what a heartbeat renews.
ExactLive(r, c) == status[r] = "running" /\ token[r] = c /\ leased[r] /\ ~late[r]

Fault == faults < MaxFaults /\ faults' = faults + 1

\* A best-effort write of the driver: done, or failed and logged.
Enqueue(r) == [rec EXCEPT ![r] = IF @ \in Live \cup {"teardown"} THEN "teardown" ELSE @]

\* enqueue_teardown_on: part of the transaction that ends the run.
EnqueueOn(r) == [rec EXCEPT ![r] = IF @ \in Live THEN "teardown" ELSE @]

CompleteTeardown(r) == [rec EXCEPT ![r] = IF @ = "teardown" THEN "done" ELSE @]

-----------------------------------------------------------------------------
(* The run's row.                                                          *)

End(r, s) ==
    /\ status' = [status EXCEPT ![r] = s]
    /\ token' = [token EXCEPT ![r] = 0]
    /\ leased' = [leased EXCEPT ![r] = FALSE]
    /\ UNCHANGED late

HandTo(r, c) ==
    /\ token' = [token EXCEPT ![r] = c]
    /\ leased' = [leased EXCEPT ![r] = TRUE]
    /\ pc' = [pc EXCEPT ![r][c] = "validate"]
    /\ UNCHANGED <<late, todo, records, backend, sweeper, faults>>

\* claim_container_agent_run.
Claim(r) ==
    /\ status[r] = "queued" /\ ~late[r]
    /\ Cardinality({q \in Runs : status[q] = "running"}) < MaxRunning
    /\ status' = [status EXCEPT ![r] = "running"]
    /\ HandTo(r, 1)

\* recover(): reclaim_container_agent_run, the same attempt under a new claim.
Reclaim(r) ==
    /\ status[r] = "running" /\ ~leased[r] /\ ~late[r]
    /\ token[r] < MaxClaims
    /\ UNCHANGED status
    /\ HandTo(r, token[r] + 1)

\* request_agent_run_cancellation: a live driver is asked, anything else ends.
RequestCancellation(r) ==
    /\ status[r] \in {"queued", "running"}
    /\ IF status[r] = "running" /\ leased[r] /\ ~late[r]
       THEN /\ status' = [status EXCEPT ![r] = "cancelling"]
            /\ UNCHANGED <<token, leased, late, rec>>
       ELSE End(r, "cancelled") /\ rec' = EnqueueOn(r)
    /\ UNCHANGED <<handle, lapsable, backend, drivers, sweeper, faults>>

LeaseExpires(r) ==
    /\ leased[r]
    /\ leased' = [leased EXCEPT ![r] = FALSE]
    /\ UNCHANGED <<status, token, late, records, backend, drivers, sweeper, faults>>

DeadlinePasses(r) ==
    /\ ~late[r] /\ status[r] \notin Terminal
    /\ late' = [late EXCEPT ![r] = TRUE]
    /\ UNCHANGED <<status, token, leased, records, backend, drivers, sweeper, faults>>

\* Mutant: the scan ends the run and forgets its container.
Reap_LeavesRecord(r) ==
    /\ status[r] \in {"queued", "running", "cancelling"}
    /\ late[r] \/ (status[r] = "cancelling" /\ ~leased[r])
    /\ End(r, IF status[r] = "cancelling" THEN "cancelled" ELSE "failed")
    /\ UNCHANGED <<records, backend, drivers, sweeper, faults>>

\* The claim scan: fail_candidate_on for a passed deadline, and the reaper for
\* a cancellation whose driver let the lease expire.
Reap(r) ==
    /\ status[r] \in {"queued", "running", "cancelling"}
    /\ late[r] \/ (status[r] = "cancelling" /\ ~leased[r])
    /\ End(r, IF status[r] = "cancelling" THEN "cancelled" ELSE "failed")
    /\ rec' = EnqueueOn(r)
    /\ UNCHANGED <<handle, lapsable, backend, drivers, sweeper, faults>>

-----------------------------------------------------------------------------
(* The driver: setup.                                                      *)

At(r, c, where) == pc[r][c] = where
Goto(r, c, where) == pc' = [pc EXCEPT ![r][c] = where] /\ UNCHANGED todo

\* From here only the terminal steps `steps' are left.
Ending(r, c, steps) ==
    /\ pc' = [pc EXCEPT ![r][c] = "ending"]
    /\ todo' = [todo EXCEPT ![r][c] = steps]

Tear == <<"enqueue", "destroy">>
StepNames == {"submit", "fail", "finish", "enqueue", "destroy", "complete"}

\* The claim is exact and the model policy resolves, or the setup is refused.
Validate(r, c) ==
    /\ At(r, c, "validate") /\ ExactLive(r, c)
    /\ Goto(r, c, "begin") \/ Ending(r, c, <<"fail">>)
    /\ UNCHANGED <<rows, records, backend, sweeper, faults>>

\* Mutant: an intent that exists is taken over as if it were this driver's.
Begin_TakesOver(r, c) ==
    /\ At(r, c, "begin") /\ ExactLive(r, c)
    /\ \/ /\ rec[r] \in {"absent", "intended"}
          /\ rec' = [rec EXCEPT ![r] = "intended"]
          /\ Goto(r, c, "recheck")
       \/ /\ rec[r] = "committed"
          /\ Goto(r, c, "fence")
          /\ UNCHANGED rec
    /\ UNCHANGED <<rows, handle, lapsable, backend, sweeper, faults>>

\* begin_for_agent_run: the first driver inserts the intent; a later one takes
\* the committed container or, where there is none, gives up on the record.
Begin(r, c) ==
    /\ At(r, c, "begin") /\ ExactLive(r, c)
    /\ \/ /\ rec[r] = "absent"
          /\ rec' = [rec EXCEPT ![r] = "intended"]
          /\ Goto(r, c, "recheck")
       \/ /\ rec[r] = "committed"
          /\ Goto(r, c, "fence")
          /\ UNCHANGED rec
       \/ /\ rec[r] \in {"intended", "teardown", "done"}
          /\ rec' = Enqueue(r)
          /\ Ending(r, c, <<"fail">>)
    /\ UNCHANGED <<rows, handle, lapsable, backend, sweeper, faults>>

\* The second exact read, then the create call.
Create(r, c) ==
    /\ At(r, c, "recheck") /\ ExactLive(r, c)
    /\ Goto(r, c, "creating")
    /\ box' = [box EXCEPT ![r] = "creating"]
    /\ creates' = [creates EXCEPT ![r] = @ + 1]
    /\ UNCHANGED <<rows, records, sweeper, faults>>

Created(r, c) ==
    /\ At(r, c, "creating") /\ box[r] \in {"up", "gone"}
    /\ Goto(r, c, "made")
    /\ UNCHANGED <<rows, records, backend, sweeper, faults>>

CreateFailed(r, c) ==
    /\ At(r, c, "creating") /\ box[r] \in {"up", "aborted"}
    /\ rec' = Enqueue(r)
    /\ Ending(r, c, <<"fail">>)
    /\ UNCHANGED <<rows, handle, lapsable, backend, sweeper, faults>>

\* commit_handle: only an open intent takes the handle; a driver whose intent
\* was disowned destroys what it made.
CommitHandle(r, c) ==
    /\ At(r, c, "made")
    /\ IF rec[r] = "intended"
       THEN /\ rec' = [rec EXCEPT ![r] = "committed"]
            /\ handle' = [handle EXCEPT ![r] = TRUE]
            /\ Goto(r, c, "fence")
       ELSE Ending(r, c, Tear \o <<"fail">>) /\ UNCHANGED <<rec, handle>>
    /\ UNCHANGED <<rows, lapsable, backend, sweeper, faults>>

\* The exact reads after the handle is durable, then the task is delivered.
Fence(r, c) ==
    /\ ExactLive(r, c)
    /\ \/ At(r, c, "fence") /\ Goto(r, c, "attaching")
       \/ At(r, c, "attaching") /\ Goto(r, c, "attached")
    /\ UNCHANGED <<rows, records, backend, sweeper, faults>>

\* What a driver that loses its claim in setup has left to do.
Abandon(r, c) ==
    IF pc[r][c] \in {"validate", "begin", "recheck", "creating"} THEN <<"finish">>
    ELSE IF pc[r][c] \in {"made", "fence"} THEN Tear \o <<"finish">>
    ELSE <<"finish">> \o Tear

\* The durable fence or the cancel signal stops the driver; a create it issued
\* is not undone.
Interrupt(r, c) ==
    /\ pc[r][c] \notin {"none", "ending", "dead"} /\ ~ExactLive(r, c)
    /\ Ending(r, c, Abandon(r, c))
    /\ UNCHANGED <<rows, records, backend, sweeper, faults>>

\* A store error ends the drive; around the create the record is disowned first,
\* if the store lets it.
StoreFault(r, c) ==
    /\ pc[r][c] \notin {"none", "ending", "dead"}
    /\ Fault
    /\ Ending(r, c, Abandon(r, c))
    /\ \/ UNCHANGED rec
       \/ pc[r][c] \in {"recheck", "creating"} /\ rec' = Enqueue(r)
    /\ UNCHANGED <<rows, handle, lapsable, backend, sweeper>>

\* The drive ends with a result, or with the agent's or the transport's failure.
DriveEnds(r, c) ==
    /\ \/ At(r, c, "attached") /\ Ending(r, c, <<"submit">> \o Tear)
       \/ pc[r][c] \in {"attaching", "attached"} /\ Ending(r, c, <<"fail">> \o Tear)
    /\ UNCHANGED <<rows, records, backend, sweeper, faults>>

-----------------------------------------------------------------------------
(* The driver: terminal steps.                                             *)

Step(r, c, name) == At(r, c, "ending") /\ todo[r][c] # << >> /\ Head(todo[r][c]) = name
Then(r, c, more) == Ending(r, c, more \o Tail(todo[r][c]))

\* Mutant: a result is committed over any outcome.
Submit_Unfenced(r, c) ==
    /\ Step(r, c, "submit")
    /\ End(r, "completed") /\ Then(r, c, << >>)
    /\ UNCHANGED <<records, backend, sweeper, faults>>

\* submit_agent_run_result.  It leaves the provisioning record as it is.
Submit(r, c) ==
    /\ Step(r, c, "submit")
    /\ IF ExactLive(r, c)
       THEN End(r, "completed") /\ Then(r, c, << >>)
       ELSE UNCHANGED rows /\ Then(r, c, <<"finish">>)
    /\ UNCHANGED <<records, backend, sweeper, faults>>

\* fail_agent_run on the one attempt a container run has.
Fail(r, c) ==
    /\ Step(r, c, "fail")
    /\ IF ExactLive(r, c)
       THEN End(r, "failed") /\ rec' = EnqueueOn(r) /\ Then(r, c, << >>)
       ELSE UNCHANGED <<rows, rec>> /\ Then(r, c, <<"finish">>)
    /\ UNCHANGED <<handle, lapsable, backend, sweeper, faults>>

\* finish_agent_run_cancellation, its lease renewed while the deadline is open.
Finish(r, c) ==
    /\ Step(r, c, "finish")
    /\ IF status[r] = "cancelling" /\ token[r] = c /\ ~late[r]
       THEN End(r, "cancelled") /\ rec' = EnqueueOn(r)
       ELSE UNCHANGED <<rows, rec>>
    /\ Then(r, c, << >>)
    /\ UNCHANGED <<handle, lapsable, backend, sweeper, faults>>

TearEnqueue(r, c) ==
    /\ Step(r, c, "enqueue")
    /\ \/ rec' = Enqueue(r) /\ UNCHANGED faults
       \/ Fault /\ UNCHANGED rec
    /\ Then(r, c, << >>)
    /\ UNCHANGED <<rows, handle, lapsable, backend, sweeper>>

Gone(r) == [box EXCEPT ![r] = "gone"]

\* Confirmed, or unconfirmed with or without effect.
TearDestroy(r, c) ==
    /\ Step(r, c, "destroy")
    /\ \/ box' = Gone(r) /\ Then(r, c, <<"complete">>) /\ UNCHANGED faults
       \/ Fault /\ box' \in {box, Gone(r)} /\ Then(r, c, << >>)
    /\ UNCHANGED <<rows, records, creates, sweeper>>

TearComplete(r, c) ==
    /\ Step(r, c, "complete")
    /\ \/ rec' = CompleteTeardown(r) /\ UNCHANGED faults
       \/ Fault /\ UNCHANGED rec
    /\ Then(r, c, << >>)
    /\ UNCHANGED <<rows, handle, lapsable, backend, sweeper>>

Crash(r, c) ==
    /\ pc[r][c] \notin {"none", "dead"}
    /\ Fault
    /\ pc' = [pc EXCEPT ![r][c] = "dead"]
    /\ todo' = [todo EXCEPT ![r][c] = << >>]
    /\ UNCHANGED <<rows, records, backend, sweeper>>

-----------------------------------------------------------------------------
(* The backend, and the sweep.                                             *)

\* A create that was issued lands or fails, whoever still waits for it.
BoxLands(r) ==
    /\ box[r] = "creating"
    /\ box' \in {[box EXCEPT ![r] = "up"], [box EXCEPT ![r] = "aborted"]}
    /\ UNCHANGED <<rows, records, creates, drivers, sweeper, faults>>

WindowPasses(r) ==
    /\ rec[r] = "intended" /\ ~lapsable[r]
    /\ lapsable' = [lapsable EXCEPT ![r] = TRUE]
    /\ UNCHANGED <<rows, rec, handle, backend, drivers, sweeper, faults>>

\* lapse, then the listing of obligations that name a container.
SweepLapse ==
    /\ sweep = "idle"
    /\ rec' = [r \in Runs |-> IF rec[r] = "intended" /\ lapsable[r] THEN "teardown" ELSE rec[r]]
    /\ pending' = {r \in Runs : rec'[r] = "teardown" /\ handle[r]}
    /\ sweep' = "directed"
    /\ UNCHANGED <<rows, handle, lapsable, backend, drivers, frozen, tags, faults>>

SweepDestroy(r) ==
    /\ sweep = "directed" /\ r \in pending
    /\ pending' = pending \ {r}
    /\ \/ box' = Gone(r) /\ rec' = CompleteTeardown(r) /\ UNCHANGED faults
       \/ Fault /\ box' \in {box, Gone(r)} /\ UNCHANGED rec
    /\ UNCHANGED <<rows, handle, lapsable, creates, drivers, sweep, frozen, tags>>

\* The obligations are frozen before the live tags are read.
SweepFreeze ==
    /\ sweep = "directed" /\ pending = {}
    /\ frozen' = {r \in Runs : rec[r] = "teardown"}
    /\ sweep' = "frozen"
    /\ UNCHANGED <<rows, records, backend, drivers, pending, tags, faults>>

SweepSnapshot ==
    /\ sweep = "frozen"
    /\ tags' = {r \in Runs : rec[r] \in Live}
    /\ sweep' = "snapshot"
    /\ UNCHANGED <<rows, records, backend, drivers, pending, frozen, faults>>

\* Mutant: only the containers of the frozen obligations are looked for.
SweepList_OnlyOwed ==
    /\ sweep = "snapshot"
    /\ pending' = {r \in frozen : box[r] = "up"} \ tags
    /\ sweep' = "removing"
    /\ UNCHANGED <<rows, records, backend, drivers, frozen, tags, faults>>

\* reclaim_orphans lists what the backend holds and removes the unknown tags.
SweepList ==
    /\ sweep = "snapshot"
    /\ pending' = {r \in Runs : box[r] = "up"} \ tags
    /\ sweep' = "removing"
    /\ UNCHANGED <<rows, records, backend, drivers, frozen, tags, faults>>

\* An unconfirmed removal means that the pass proved nothing.
SweepRemove(r) ==
    /\ sweep = "removing" /\ r \in pending
    /\ pending' = pending \ {r}
    /\ \/ box' = Gone(r) /\ UNCHANGED <<frozen, faults>>
       \/ Fault /\ frozen' = {} /\ UNCHANGED box
    /\ UNCHANGED <<rows, records, creates, drivers, sweep, tags>>

\* Mutant: the obligations are listed afresh when they are discharged.
SweepDischarge_Fresh ==
    /\ sweep = "removing" /\ pending = {}
    /\ rec' = [r \in Runs |-> IF rec[r] = "teardown" THEN "done" ELSE rec[r]]
    /\ sweep' = "idle"
    /\ UNCHANGED <<rows, handle, lapsable, backend, drivers, pending, frozen, tags, faults>>

\* Mutant: an obligation without a handle is never discharged.
SweepDischarge_Never ==
    /\ sweep = "removing" /\ pending = {}
    /\ sweep' = "idle"
    /\ UNCHANGED <<rows, records, backend, drivers, pending, frozen, tags, faults>>

SweepDischarge ==
    /\ sweep = "removing" /\ pending = {}
    /\ rec' = [r \in Runs |-> IF r \in frozen /\ rec[r] = "teardown" THEN "done" ELSE rec[r]]
    /\ sweep' = "idle"
    /\ UNCHANGED <<rows, handle, lapsable, backend, drivers, pending, frozen, tags, faults>>

SweepCrash ==
    /\ sweep # "idle"
    /\ Fault
    /\ sweep' = "idle" /\ pending' = {}
    /\ UNCHANGED <<rows, records, backend, drivers, frozen, tags>>

-----------------------------------------------------------------------------
Init ==
    /\ status = [r \in Runs |-> "queued"]
    /\ token = [r \in Runs |-> 0]
    /\ leased = [r \in Runs |-> FALSE]
    /\ late = [r \in Runs |-> FALSE]
    /\ rec = [r \in Runs |-> "absent"]
    /\ handle = [r \in Runs |-> FALSE]
    /\ lapsable = [r \in Runs |-> FALSE]
    /\ box = [r \in Runs |-> "none"]
    /\ creates = [r \in Runs |-> 0]
    /\ pc = [r \in Runs |-> [c \in Claims |-> "none"]]
    /\ todo = [r \in Runs |-> [c \in Claims |-> << >>]]
    /\ sweep = "idle" /\ pending = {} /\ frozen = {} /\ tags = {}
    /\ faults = 0

Drive(r, c) ==
    \/ Validate(r, c) \/ Begin(r, c) \/ Create(r, c) \/ Created(r, c) \/ CreateFailed(r, c)
    \/ CommitHandle(r, c) \/ Fence(r, c) \/ Interrupt(r, c) \/ DriveEnds(r, c)
    \/ Submit(r, c) \/ Fail(r, c) \/ Finish(r, c)
    \/ TearEnqueue(r, c) \/ TearDestroy(r, c) \/ TearComplete(r, c)

Sweep ==
    \/ SweepLapse \/ SweepFreeze \/ SweepSnapshot \/ SweepList \/ SweepDischarge
    \/ \E r \in Runs : SweepDestroy(r) \/ SweepRemove(r)

Next ==
    \/ \E r \in Runs :
        \/ Claim(r) \/ Reclaim(r) \/ RequestCancellation(r)
        \/ LeaseExpires(r) \/ DeadlinePasses(r) \/ Reap(r)
        \/ BoxLands(r) \/ WindowPasses(r)
        \/ \E c \in Claims : Drive(r, c) \/ StoreFault(r, c) \/ Crash(r, c)
    \/ Sweep
    \/ SweepCrash

Spec == Init /\ [][Next]_vars

\* The maintenance lane keeps running and a create that was issued ends.  No
\* driver, scan, clock or user need ever move again.
FairSpec == Spec /\ WF_vars(Sweep) /\ \A r \in Runs : WF_vars(BoxLands(r))

-----------------------------------------------------------------------------
(* Properties.                                                             *)

\* Every variable has its type.
ProvisionTypeOK ==
    /\ status \in [Runs -> {"queued", "running", "cancelling"} \cup Terminal]
    /\ token \in [Runs -> 0..MaxClaims]
    /\ leased \in [Runs -> BOOLEAN] /\ late \in [Runs -> BOOLEAN]
    /\ rec \in [Runs -> Live \cup {"absent", "teardown", "done"}]
    /\ handle \in [Runs -> BOOLEAN] /\ lapsable \in [Runs -> BOOLEAN]
    /\ box \in [Runs -> {"none", "creating", "up", "aborted", "gone"}]
    /\ creates \in [Runs -> Nat]
    /\ pc \in [Runs -> [Claims -> {"none", "validate", "begin", "recheck", "creating", "made",
                                   "fence", "attaching", "attached", "ending", "dead"}]]
    /\ todo \in [Runs -> [Claims -> Seq(StepNames)]]
    /\ sweep \in {"idle", "directed", "frozen", "snapshot", "removing"}
    /\ pending \subseteq Runs /\ frozen \subseteq Runs /\ tags \subseteq Runs
    /\ faults \in 0..MaxFaults

\* Exactly one container is ever asked to run a run, whatever crashes and
\* reclaims happen (reclaim_container_agent_run).
OneContainerPerRun == \A r \in Runs : creates[r] <= 1

\* A record is marked done with a container to its name only when that container
\* is gone: the sweep never discharges an obligation it did not drive.
DoneMeansGone ==
    \A r \in Runs : rec[r] = "done" /\ handle[r] => box[r] = "gone"

\* A failed or cancelled run never has a record that calls its container live.
EndedRunOwesTeardown ==
    \A r \in Runs : status[r] \in {"failed", "cancelled"} => rec[r] \notin Live

\* What the three invariants above rest on, run by run.  The container was up:
HadBox(r) == box[r] \in {"up", "gone"}

\* the intent is inserted once, and one driver at most may still create;
CreatesOnce(r) ==
    /\ creates[r] = IF box[r] = "none" THEN 0 ELSE 1
    /\ rec[r] = "absent" =>
           \A c \in Claims : pc[r][c] \in {"none", "validate", "begin", "ending", "dead"}
    /\ \A c \in Claims : pc[r][c] = "recheck" =>
           box[r] = "none" /\ \A d \in Claims : pc[r][d] = "recheck" => d = c
    /\ rec[r] = "absent" => box[r] = "none"

\* a driver destroys only what was up, and reports only what is gone;
LeftToDo(r) == {"submit", "fail", "finish", "enqueue"}
               \cup (IF HadBox(r) THEN {"destroy"} ELSE {})
               \cup (IF box[r] = "gone" THEN {"complete"} ELSE {})

BoxIsKnown(r) ==
    /\ handle[r] \/ rec[r] = "committed" => HadBox(r)
    /\ \A c \in Claims : pc[r][c] \in {"made", "fence", "attaching", "attached"} => HadBox(r)
    /\ \A c \in Claims : todo[r][c] \in Seq(LeftToDo(r))

\* the sweep's frozen obligations stay obligations, their tags are not live, and
\* before it discharges them it has removed their containers.
SweepIsSound(r) ==
    /\ sweep \in {"directed", "removing"} /\ r \in pending => HadBox(r)
    /\ sweep \in {"frozen", "snapshot", "removing"} /\ r \in frozen => rec[r] \in {"teardown", "done"}
    /\ sweep \in {"snapshot", "removing"} /\ r \in frozen => r \notin tags
    /\ sweep = "removing" /\ r \in frozen /\ handle[r] => box[r] = "gone" \/ r \in pending

RunInv(r) ==
    /\ CreatesOnce(r) /\ BoxIsKnown(r) /\ SweepIsSound(r)
    /\ status[r] \in {"failed", "cancelled"} => rec[r] \notin Live
    /\ rec[r] = "done" /\ handle[r] => box[r] = "gone"

\* The inductive invariant.
ProvisionInv == ProvisionTypeOK /\ \A r \in Runs : RunInv(r)

\* docs/sandbox-providers.md: "Every terminal transition of a sandbox-resident
\* run - completed, failed, cancelled, deadline exceeded - durably enqueues a
\* teardown obligation ... in the same transaction."
TerminalOwesTeardown ==
    \A r \in Runs : status[r] \in Terminal => rec[r] \notin Live

\* A run's outcome is decided once, however many drivers, scans and
\* cancellations race for it.
OutcomeIsFinal ==
    [][\A r \in Runs : status[r] \in Terminal => status'[r] = status[r]]_vars

\* A container whose record is not live is reclaimed, even one whose create
\* landed after its obligation was discharged.
OrphanIsReclaimed ==
    \A r \in Runs : (box[r] = "up" /\ rec[r] \in {"teardown", "done"}) ~> (box[r] = "gone")

\* Every obligation is discharged in the end.
ObligationEnds == \A r \in Runs : (rec[r] = "teardown") ~> (rec[r] = "done")
=============================================================================
