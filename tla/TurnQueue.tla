----------------------------- MODULE TurnQueue -----------------------------
(***************************************************************************)
(* The durable message queue of a chat and the admission of its messages:  *)
(* `POST /chats/{id}/messages` (admit_turn), the queue routes (edit, move, *)
(* retract, pause), and the promoter's sweep.  Code: routes/turn_control.rs*)
(* of tidebreak-server-api over db/ops/turn/{admission,queued}.rs.         *)
(*                                                                         *)
(* Every database call is one step.  admission::begin is two steps: it     *)
(* reads the turn row and then the queue row without the chat lock.  The   *)
(* other calls hold the chat lock and are atomic.  The promoter reads its  *)
(* snapshot and asks for the promotion in separate transactions.  A        *)
(* process serializes the admissions of one turn id; two processes do not. *)
(*                                                                         *)
(* Abstracted: a message's text and the skills, images and documents it    *)
(* refers to are one content value, Carries says what a content refers to, *)
(* and a fingerprint is the content it digests.  The wake-ups of the       *)
(* promoter are left out: its floor timer lets it sweep at any time.       *)
(* Replacement submissions never queue and are not modelled; nor is a      *)
(* foreground run that is not active, which neither creation nor           *)
(* cancellation of runs produces.                                          *)
(***************************************************************************)
EXTENDS Integers, Sequences, SequencesExt, FiniteSets

CONSTANTS
    Chats,      \* sessions on the chat lane
    Ids,        \* client-chosen turn ids
    Reqs,       \* HTTP submissions, retries included
    Procs,      \* server processes sharing the database
    Contents,   \* distinguishable messages
    Refs,       \* what a message may refer to: skills, images and documents
    Documents,  \* those that are file attachments
    Carries,    \* per content: what it refers to
    Models,     \* executable model selectors
    MaxPerChat, \* QueuedAgentTurn::MAX_PER_CHAT
    MaxClock,   \* bound on enqueues and edits (distinct database timestamps)
    MaxFaults,  \* bound on disconnects, pauses, catalog changes, deletions
    NoModel,    \* what resolve_executable_chat_model yields when it fails
    NoTurn      \* no row

VARIABLES
    queue,      \* per chat: its code_queued_turn rows, ordered by position
    turn,       \* per id: the turn row, or NoTurn
    paused,     \* per chat: the setting sessions.{id}.queue_paused
    model,      \* per chat: what resolving its model yields now
    dead,       \* the skills, images and documents that no longer resolve
    req,        \* the submissions
    prom,       \* per process: where its promoter stands with a chat
    todo,       \* per process: the chats its sweep has still to visit
    clock,      \* the database clock
    gone,       \* ids whose queued row was retracted or dropped
    faults      \* how much of MaxFaults is spent

vars == <<queue, turn, paused, model, dead, req, prom, todo, clock, gone, faults>>

Row == [id : Ids, content : Contents, fp : Contents, position : Nat, updated : Nat]
Turn == [chat : Chats, content : Contents, model : Models, active : BOOLEAN]
ReqPc == {"new", "gate", "begin", "begin2", "prepare", "accept", "enqueue", "done"}
Answer == {"none", "accepted", "queued", "conflict", "busy", "error"}
ReqState ==
    [pc : ReqPc, id : Ids, chat : Chats, content : Contents, queue : BOOLEAN,
     proc : Procs, model : Models \cup {NoModel}, answer : Answer]
PromState ==
    [pc : {"idle", "list", "prepare", "promote", "drop"}, chat : Chats,
     snap : Row \cup {NoTurn}, model : Models \cup {NoModel}]

ASSUME QueueAssumption ==
    /\ MaxPerChat \in Nat \ {0} /\ MaxClock \in Nat /\ MaxFaults \in Nat
    /\ Documents \subseteq Refs /\ Carries \in [Contents -> SUBSET Refs]
    /\ NoModel \notin Models /\ NoTurn \notin Row \cup Turn

IdsOf(q) == {q[k].id : k \in DOMAIN q}
AllRows == UNION {Range(queue[c]) : c \in Chats}
QueuedRow(i) == {r \in AllRows : r.id = i}
\* A document of the message was deleted; a skill or an image of it is gone.
Lost(content) == Carries[content] \cap dead \cap Documents # {}
Unrunnable(content) == Carries[content] \cap (dead \ Documents) # {}
Busy(c) == \E i \in Ids : turn[i] # NoTurn /\ turn[i].chat = c /\ turn[i].active

Init ==
    /\ queue = [c \in Chats |-> <<>>]
    /\ turn = [i \in Ids |-> NoTurn]
    /\ paused = [c \in Chats |-> FALSE]
    /\ model \in [Chats -> Models]
    /\ dead = {}
    /\ req \in [Reqs -> {s \in ReqState : s.pc = "new" /\ s.answer = "none" /\ s.model = NoModel}]
    /\ prom \in [Procs -> [pc : {"idle"}, chat : Chats, snap : {NoTurn}, model : {NoModel}]]
    /\ todo = [p \in Procs |-> {}]
    /\ clock = 0
    /\ gone = {}
    /\ faults = 0

Fault == faults < MaxFaults /\ faults' = faults + 1

---------------------------------------------------------------------------
(* admit_turn *)

Goto(r, pc) == req' = [req EXCEPT ![r].pc = pc]
Reply(r, a) == req' = [req EXCEPT ![r].pc = "done", ![r].answer = a]

Submit(r) ==
    /\ req[r].pc = "new"
    /\ Goto(r, "gate")
    /\ UNCHANGED <<queue, turn, paused, model, dead, prom, todo, clock, gone, faults>>

\* TurnGuard::serialize_admission: one admission per id and process
InGate(r) == req[r].pc \notin {"new", "gate", "done"}
\* Mutant: no gate, the database is trusted to serialize one id.
GateFree_Open(r) == TRUE

GateFree(r) ==
    \A s \in Reqs : InGate(s) => req[s].id # req[r].id \/ req[s].proc # req[r].proc

Enter(r) ==
    /\ req[r].pc = "gate" /\ GateFree(r)
    /\ Goto(r, "begin")
    /\ UNCHANGED <<queue, turn, paused, model, dead, prom, todo, clock, gone, faults>>

\* admission::begin, first read: the turn row
BeginTurn(r) ==
    LET s == req[r]  t == turn[s.id] IN
    /\ s.pc = "begin"
    /\ CASE t = NoTurn -> Goto(r, "begin2")
         [] t # NoTurn /\ t.chat = s.chat /\ t.content = s.content -> Reply(r, "accepted")
         [] OTHER -> Reply(r, "conflict")
    /\ UNCHANGED <<queue, turn, paused, model, dead, prom, todo, clock, gone, faults>>

\* admission::begin, second read: the queue row, by the fingerprint of its enqueue
BeginQueue(r) ==
    LET s == req[r] IN
    /\ s.pc = "begin2"
    /\ IF QueuedRow(s.id) = {}
       THEN Goto(r, "prepare")
       ELSE Reply(r, IF \E q \in Range(queue[s.chat]) : q.id = s.id /\ q.fp = s.content
                     THEN "queued" ELSE "conflict")
    /\ UNCHANGED <<queue, turn, paused, model, dead, prom, todo, clock, gone, faults>>

Prepare(r) ==
    LET s == req[r] IN
    /\ s.pc = "prepare"
    /\ IF model[s.chat] = NoModel \/ Lost(s.content) \/ Unrunnable(s.content)
       THEN Reply(r, "error")
       ELSE req' = [req EXCEPT ![r].pc = "accept", ![r].model = model[s.chat]]
    /\ UNCHANGED <<queue, turn, paused, model, dead, prom, todo, clock, gone, faults>>

\* Mutant: only a live turn counts as the accepted one.
ExactTurn_Live(t, c, m, content) ==
    t.active /\ t.chat = c /\ t.model = m /\ t.content = content /\ ~Lost(content)

\* exact_accepted_turn_on; deleting a document takes it off the turns that had it
ExactTurn(t, c, m, content) == t.chat = c /\ t.model = m /\ t.content = content /\ ~Lost(content)

\* insert_accepted_turn_on
NewTurn(c, m, content) == [chat |-> c, content |-> content, model |-> m, active |-> TRUE]

\* accept_turn_inner, under the chat lock.  What was deleted since Prepare: images are
\* looked at before the chat is found busy, documents when the turn is inserted, and
\* skills not again.
Accept(r) ==
    LET s == req[r]  t == turn[s.id] IN
    /\ s.pc = "accept"
    /\ \/ /\ t # NoTurn
          /\ Reply(r, IF ExactTurn(t, s.chat, s.model, s.content) THEN "accepted" ELSE "conflict")
          /\ UNCHANGED turn
       \/ /\ t = NoTurn /\ (Unrunnable(s.content) \/ (Lost(s.content) /\ ~Busy(s.chat)))
          /\ Reply(r, "error")
          /\ UNCHANGED turn
       \/ /\ t = NoTurn /\ Busy(s.chat)
          /\ IF s.queue THEN Goto(r, "enqueue") ELSE Reply(r, "busy")
          /\ UNCHANGED turn
       \/ /\ t = NoTurn /\ ~Busy(s.chat) /\ ~Lost(s.content)
          /\ turn' = [turn EXCEPT ![s.id] = NewTurn(s.chat, s.model, s.content)]
          /\ Reply(r, "accepted")
    /\ UNCHANGED <<queue, paused, model, dead, prom, todo, clock, gone, faults>>

NextPosition(q) == IF q = <<>> THEN 0 ELSE Last(q).position + 1
HasRoom(q) == Len(q) < MaxPerChat

\* enqueue_turn_inner, under the chat lock; it does not look at the turn table
Enqueue(r) ==
    LET s == req[r]  q == queue[s.chat] IN
    /\ s.pc = "enqueue"
    /\ \/ /\ QueuedRow(s.id) # {}
          /\ Reply(r, IF \E e \in Range(q) : e.id = s.id /\ e.content = s.content
                      THEN "queued" ELSE "error")
          /\ UNCHANGED <<queue, clock, gone>>
       \/ /\ QueuedRow(s.id) = {} /\ ~HasRoom(q)
          /\ Reply(r, "error")
          /\ UNCHANGED <<queue, clock, gone>>
       \/ /\ QueuedRow(s.id) = {} /\ HasRoom(q) /\ clock < MaxClock
          /\ clock' = clock + 1
          /\ queue' = [queue EXCEPT ![s.chat] = Append(q,
                 [id |-> s.id, content |-> s.content, fp |-> s.content,
                  position |-> NextPosition(q), updated |-> clock'])]
          /\ gone' = gone \ {s.id}
          /\ Reply(r, "queued")
    /\ UNCHANGED <<turn, paused, model, dead, prom, todo, faults>>

\* The client goes away: the handler is dropped at an await and its gate released.
Disconnect(r) ==
    /\ InGate(r) /\ Fault
    /\ Reply(r, "none")
    /\ UNCHANGED <<queue, turn, paused, model, dead, prom, todo, clock, gone>>

---------------------------------------------------------------------------
(* The queue routes *)

\* The index of a row of the queue, by its id.
PlaceOf(q, i) == CHOOSE k \in DOMAIN q : q[k].id = i

\* Mutant: a move writes the moved row and leaves the others' positions.
Densify_Skipped(q) == q

Densify(q) == [k \in DOMAIN q |-> [q[k] EXCEPT !.position = k - 1]]

\* update_queued_turn: edits the text, moves the row, and renumbers the chat; what
\* the message refers to stays
UpdateQueued(c, i, content, target) ==
    LET q == queue[c]
        at == PlaceOf(q, i)
        row == [q[at] EXCEPT !.content = content, !.updated = clock']
    IN
    /\ i \in IdsOf(q) /\ Carries[content] = Carries[q[at].content]
    /\ clock < MaxClock /\ clock' = clock + 1
    /\ queue' = [queue EXCEPT ![c] = Densify(InsertAt(RemoveAt(q, at), target, row))]
    /\ UNCHANGED <<turn, paused, model, dead, req, prom, todo, gone, faults>>

DeleteQueued(c, i) ==
    /\ i \in IdsOf(queue[c])
    /\ queue' = [queue EXCEPT ![c] = RemoveAt(queue[c], PlaceOf(queue[c], i))]
    /\ gone' = gone \cup {i}
    /\ UNCHANGED <<turn, paused, model, dead, req, prom, todo, clock, faults>>

\* put_queue_paused; post_queue_send_now is the unpausing half
SetPaused(c) ==
    /\ Fault
    /\ paused' = [paused EXCEPT ![c] = ~paused[c]]
    /\ UNCHANGED <<queue, turn, model, dead, req, prom, todo, clock, gone>>

---------------------------------------------------------------------------
(* promote_queued_turns: list the chats, and per chat read the pause flag, *)
(* read the head, resolve what it needs, and ask storage to promote that   *)
(* exact row.                                                              *)

SweepBegin(p) ==
    LET waiting == {c \in Chats : queue[c] # <<>>} IN
    /\ prom[p].pc = "idle" /\ todo[p] = {} /\ waiting # {}
    /\ todo' = [todo EXCEPT ![p] = waiting]
    /\ UNCHANGED <<queue, turn, paused, model, dead, req, prom, clock, gone, faults>>

SweepChat(p, c) ==
    /\ prom[p].pc = "idle" /\ c \in todo[p]
    /\ todo' = [todo EXCEPT ![p] = @ \ {c}]
    /\ prom' = IF paused[c] THEN prom ELSE [prom EXCEPT ![p].pc = "list", ![p].chat = c]
    /\ UNCHANGED <<queue, turn, paused, model, dead, req, clock, gone, faults>>

\* Done with this chat; the sweep goes on with the next.
Idle(p) == prom' = [prom EXCEPT ![p].pc = "idle", ![p].snap = NoTurn, ![p].model = NoModel]

SweepList(p) ==
    LET q == queue[prom[p].chat] IN
    /\ prom[p].pc = "list"
    /\ IF q = <<>> THEN Idle(p)
       ELSE prom' = [prom EXCEPT ![p].pc = "prepare", ![p].snap = Head(q)]
    /\ UNCHANGED <<queue, turn, paused, model, dead, req, todo, clock, gone, faults>>

\* The accepted turn's model when there is one, else the chat's model now
SweepModel(t, c) == IF t # NoTurn THEN t.model ELSE model[c]

\* Mutant: a message that cannot run is left in place, like one without a model.
SweepPrepare_KeepsDead(p) ==
    LET c == prom[p].chat  t == turn[prom[p].snap.id] IN
    /\ prom[p].pc = "prepare"
    /\ IF Unrunnable(prom[p].snap.content) \/ (t = NoTurn /\ model[c] = NoModel)
       THEN Idle(p)
       ELSE prom' = [prom EXCEPT ![p].pc = "promote", ![p].model = SweepModel(t, c)]
    /\ UNCHANGED <<queue, turn, paused, model, dead, req, todo, clock, gone, faults>>

\* The turn, the model, the skills and the images are looked at; the documents of
\* the message are not.
SweepPrepare(p) ==
    LET c == prom[p].chat  t == turn[prom[p].snap.id] IN
    /\ prom[p].pc = "prepare"
    /\ CASE t # NoTurn /\ t.chat # c -> prom' = [prom EXCEPT ![p].pc = "drop"]
         [] t = NoTurn /\ model[c] = NoModel -> Idle(p)
         [] OTHER -> prom' = [prom EXCEPT
                ![p].pc = IF Unrunnable(prom[p].snap.content) THEN "drop" ELSE "promote",
                ![p].model = SweepModel(t, c)]
    /\ UNCHANGED <<queue, turn, paused, model, dead, req, todo, clock, gone, faults>>

\* Mutant: the head is recognised by its id alone.
HeadIs_ById(q, snap) == q # <<>> /\ Head(q).id = snap.id

\* Beneath the lock the head must be the whole snapshot, timestamps included.
HeadIs(q, snap) == q # <<>> /\ Head(q) = snap

\* Mutant: the row is deleted first, and the chat found busy afterwards.
Promote_DeletesFirst(p) ==
    LET c == prom[p].chat  snap == prom[p].snap IN
    /\ prom[p].pc = "promote" /\ HeadIs(queue[c], snap)
    /\ Idle(p)
    /\ queue' = [queue EXCEPT ![c] = Tail(queue[c])]
    /\ turn' = IF turn[snap.id] # NoTurn \/ Busy(c) THEN turn
               ELSE [turn EXCEPT ![snap.id] = NewTurn(c, prom[p].model, snap.content)]
    /\ UNCHANGED <<paused, model, dead, req, todo, clock, gone, faults>>

\* promote_turn.  When a document is gone the insertion fails: the row stays, and
\* the error ends the whole sweep.
Promote(p) ==
    LET c == prom[p].chat  snap == prom[p].snap  t == turn[snap.id]  q == queue[c] IN
    /\ prom[p].pc = "promote"
    /\ Idle(p)
    /\ \/ ~HeadIs(q, snap) /\ UNCHANGED <<queue, turn, todo>>
       \/ /\ HeadIs(q, snap) /\ t # NoTurn
          /\ queue' = IF ExactTurn(t, c, prom[p].model, snap.content)
                      THEN [queue EXCEPT ![c] = Tail(q)] ELSE queue
          /\ UNCHANGED <<turn, todo>>
       \/ HeadIs(q, snap) /\ t = NoTurn /\ Busy(c) /\ UNCHANGED <<queue, turn, todo>>
       \/ /\ HeadIs(q, snap) /\ t = NoTurn /\ ~Busy(c) /\ Lost(snap.content)
          /\ todo' = [todo EXCEPT ![p] = {}]
          /\ UNCHANGED <<queue, turn>>
       \/ /\ HeadIs(q, snap) /\ t = NoTurn /\ ~Busy(c) /\ ~Lost(snap.content)
          /\ turn' = [turn EXCEPT ![snap.id] = NewTurn(c, prom[p].model, snap.content)]
          /\ queue' = [queue EXCEPT ![c] = Tail(q)]
          /\ UNCHANGED todo
    /\ UNCHANGED <<paused, model, dead, req, clock, gone, faults>>

\* delete_turn_if_current
SweepDrop(p) ==
    LET c == prom[p].chat  snap == prom[p].snap  q == queue[c] IN
    /\ prom[p].pc = "drop"
    /\ Idle(p)
    /\ IF HeadIs(q, snap)
       THEN queue' = [queue EXCEPT ![c] = Tail(q)] /\ gone' = gone \cup {snap.id}
       ELSE UNCHANGED <<queue, gone>>
    /\ UNCHANGED <<turn, paused, model, dead, req, todo, clock, faults>>

---------------------------------------------------------------------------
(* The environment: the turn's engine, the model catalog, deleted blobs *)

EndTurn(i) ==
    /\ turn[i] # NoTurn /\ turn[i].active
    /\ turn' = [turn EXCEPT ![i].active = FALSE]
    /\ UNCHANGED <<queue, paused, model, dead, req, prom, todo, clock, gone, faults>>

ChangeModel(c, m) ==
    /\ model[c] # m /\ Fault
    /\ model' = [model EXCEPT ![c] = m]
    /\ UNCHANGED <<queue, turn, paused, dead, req, prom, todo, clock, gone>>

Unresolve(ref) ==
    /\ ref \notin dead /\ Fault
    /\ dead' = dead \cup {ref}
    /\ UNCHANGED <<queue, turn, paused, model, req, prom, todo, clock, gone>>

Admit(r) ==
    Submit(r) \/ Enter(r) \/ BeginTurn(r) \/ BeginQueue(r) \/ Prepare(r) \/ Accept(r) \/ Enqueue(r)
Sweep(p) ==
    \/ SweepBegin(p) \/ \E c \in Chats : SweepChat(p, c)
    \/ SweepList(p) \/ SweepPrepare(p) \/ Promote(p) \/ SweepDrop(p)
User ==
    \E c \in Chats :
        \/ \E i \in Ids, content \in Contents, target \in 1..MaxPerChat :
               target <= Len(queue[c]) /\ UpdateQueued(c, i, content, target)
        \/ \E i \in Ids : DeleteQueued(c, i)
        \/ SetPaused(c)
Environment ==
    \/ \E i \in Ids : EndTurn(i)
    \/ \E c \in Chats, m \in Models \cup {NoModel} : ChangeModel(c, m)
    \/ \E ref \in Refs : Unresolve(ref)

Next ==
    \/ \E r \in Reqs : Admit(r) \/ Disconnect(r)
    \/ \E p \in Procs : Sweep(p)
    \/ User
    \/ Environment

Spec == Init /\ [][Next]_vars

(* The promoter runs forever (its floor timer, and the worker supervisor   *)
(* restarts it); a turn ends (TurnLease); an admission in progress goes on.*)
Fairness ==
    /\ \A p \in Procs : WF_vars(Sweep(p))
    /\ \A i \in Ids : WF_vars(EndTurn(i))
    /\ \A r \in Reqs : WF_vars(InGate(r) /\ Admit(r))

FairSpec == Spec /\ Fairness

---------------------------------------------------------------------------
(* Properties *)

(***************************************************************************)
(* Types, and in particular that a promoter past its snapshot has one, and *)
(* that what a promoter or a submission is about to start has a model.     *)
(***************************************************************************)
QueueTypeOK ==
    /\ queue \in [Chats -> Seq(Row)]
    /\ turn \in [Ids -> Turn \cup {NoTurn}]
    /\ paused \in [Chats -> BOOLEAN]
    /\ model \in [Chats -> Models \cup {NoModel}]
    /\ dead \subseteq Refs
    /\ req \in [Reqs -> ReqState]
    /\ prom \in [Procs -> PromState]
    /\ todo \in [Procs -> SUBSET Chats]
    /\ \A p \in Procs : prom[p].pc \in {"prepare", "promote", "drop"} => prom[p].snap # NoTurn
    /\ \A p \in Procs : prom[p].pc = "promote" => prom[p].model \in Models
    /\ \A r \in Reqs : req[r].pc \in {"accept", "enqueue"} => req[r].model \in Models
    /\ clock \in 0..MaxClock
    /\ gone \subseteq Ids /\ faults \in 0..MaxFaults

(***************************************************************************)
(* The order of a chat's queue is total: positions are strictly ascending  *)
(* through enqueues, edits, moves, retractions and promotions, and an id   *)
(* queues once (queued.rs: position = last + 1, and the renumbering).      *)
(***************************************************************************)
OrderIsTotal ==
    \A c \in Chats : \A j, k \in DOMAIN queue[c] :
        j < k => queue[c][j].position < queue[c][k].position /\ queue[c][j].id # queue[c][k].id

(***************************************************************************)
(* A submission answered 202 is never lost: its id has a turn, or waits in *)
(* a queue, or was retracted by the user, or was dropped by a promoter     *)
(* that found it unrunnable.                                               *)
(***************************************************************************)
NothingLost ==
    \A r \in Reqs : req[r].answer \in {"accepted", "queued"} =>
        turn[req[r].id] # NoTurn \/ QueuedRow(req[r].id) # {} \/ req[r].id \in gone

(***************************************************************************)
(* With one process, an id is owned once: a message still in the queue has *)
(* not run (the gate around two unlocked reads and three transactions).    *)
(***************************************************************************)
QueuedHasNotRun == \A e \in AllRows : turn[e.id] = NoTurn

(***************************************************************************)
(* A stale promoter snapshot neither executes nor deletes: the row a       *)
(* promoter step consumes is the head as it stands, and the turn it starts *)
(* carries that row's content and not the one read before an edit.         *)
(***************************************************************************)
PromotesTheHead ==
    [][\A p \in Procs, c \in Chats :
        prom[p].pc \in {"promote", "drop"} /\ prom'[p].pc = "idle" /\ queue'[c] # queue[c] =>
            /\ queue'[c] = Tail(queue[c])
            /\ LET e == Head(queue[c]) IN
               turn'[e.id] # turn[e.id] => turn'[e.id].content = e.content]_vars

(***************************************************************************)
(* An exact retry converges (admission.rs: "An exact retry must not        *)
(* consult the model catalog"): a submission is answered with a conflict   *)
(* only if its id was used with another content or in another chat, or its *)
(* queued message was edited.  The code breaks it: see ConflictHasCause.   *)
(***************************************************************************)
UsedOtherwise(r) ==
    \/ \E s \in Reqs : req[s].id = req[r].id
           /\ (req[s].content # req[r].content \/ req[s].chat # req[r].chat)
    \/ turn[req[r].id] # NoTurn /\ turn[req[r].id].content # req[r].content

ExactRetryConverges == \A r \in Reqs : req[r].answer = "conflict" => UsedOtherwise(r)

(***************************************************************************)
(* What else an exact retry is refused for, whatever the interleaving of   *)
(* the reads of `begin', the acceptance and the promoter: the promoter     *)
(* started the turn after `begin' looked, with another model than the one  *)
(* resolved for the retry, or a document of the message has been deleted.  *)
(***************************************************************************)
Cause(r) ==
    LET t == turn[req[r].id] IN
    \/ UsedOtherwise(r)
    \/ t # NoTurn /\ req[r].model \in Models /\ t.model # req[r].model
    \/ t # NoTurn /\ Lost(req[r].content)

ConflictHasCause == \A r \in Reqs : req[r].answer = "conflict" => Cause(r)

(***************************************************************************)
(* docs/decisions/0009-queued-turns.md: "a row whose attachments or skills *)
(* no longer resolve is dropped".  So a queue that is not paused and whose *)
(* chat has a usable model drains.  The code breaks it for documents.      *)
(***************************************************************************)
Drains(c) == <>[](~paused[c] /\ model[c] # NoModel) => <>[](queue[c] = <<>>)
QueueDrains == \A c \in Chats : Drains(c)

(***************************************************************************)
(* Nothing else stops a queue: an unpaused queue with a usable model       *)
(* drains past pauses, disconnections, catalog changes, busy chats and     *)
(* messages whose skills or images are gone, or the head of some queue     *)
(* names a deleted document and ends every sweep that comes to it.         *)
(***************************************************************************)
OnlyLostDocumentsBlock ==
    \/ QueueDrains
    \/ \E c \in Chats : <>[](queue[c] # <<>> /\ Lost(Head(queue[c]).content))

---------------------------------------------------------------------------
(* Inductive invariants behind the properties above                        *)

\* An id queues once in all chats (the primary key of code_queued_turn).
IdsAreUnique ==
    \A c, d \in Chats : \A j \in DOMAIN queue[c], k \in DOMAIN queue[d] :
        queue[c][j].id = queue[d][k].id => c = d /\ j = k

OrderInv == QueueTypeOK /\ OrderIsTotal /\ IdsAreUnique

\* Two submissions inside the gate of one process have different ids.
GateIsHeld ==
    \A r, s \in Reqs : InGate(r) /\ InGate(s) /\ r # s =>
        req[r].id # req[s].id \/ req[r].proc # req[s].proc

\* What the unlocked reads found stays true while the gate is held.
ReadsStayTrue ==
    \A r \in Reqs :
        /\ req[r].pc \in {"prepare", "accept", "enqueue"} => QueuedRow(req[r].id) = {}
        /\ req[r].pc = "enqueue" => turn[req[r].id] = NoTurn

OwnerInv == OrderInv /\ GateIsHeld /\ ReadsStayTrue /\ QueuedHasNotRun

\* Every queued row and every turn is that of some submission of its chat.
WereAsked ==
    /\ \A c \in Chats : \A k \in DOMAIN queue[c] : \E s \in Reqs :
           req[s].id = queue[c][k].id /\ req[s].chat = c /\ req[s].content = queue[c][k].fp
    /\ \A i \in Ids : turn[i] # NoTurn => \E s \in Reqs :
           req[s].id = i /\ req[s].chat = turn[i].chat

\* A conflict is the answer of a submission that is over.
ConflictIsFinal == \A r \in Reqs : req[r].answer = "conflict" => req[r].pc = "done"

RetryInv == QueueTypeOK /\ WereAsked /\ ConflictIsFinal /\ ConflictHasCause
=============================================================================
