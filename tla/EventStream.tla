----------------------------- MODULE EventStream -----------------------------
(***************************************************************************)
(* The resumable event stream of a sandbox run.  The agent in the sandbox  *)
(* emits numbered events; they are buffered until the host acknowledges    *)
(* them, sent live on the installed connection, and replayed from the      *)
(* host's cursor when it attaches again.  The terminal event is how the    *)
(* host learns that the run is over.                                       *)
(*                                                                         *)
(* Source, under crates/: tidebreak-sandbox-protocol/src/wire/sandbox.rs   *)
(* (SandboxRun, serve_connection), wire/host.rs, and the driver's          *)
(* drive_events and drain_connection in                                    *)
(* tidebreak-sandbox-runtime/src/container_run/mod.rs.                     *)
(*                                                                         *)
(* Connections are numbered in the order the host dials them.  Each is     *)
(* served by a task of its own (supervisor.rs, serve_accepted): an old     *)
(* serve loop may outlive its connection's host end, the next connection   *)
(* may be installed before it notices, and two connections are installed   *)
(* in either order.  A queue stands for a channel and the socket behind    *)
(* it; `seen' is the progress log and the terminal event, keyed by         *)
(* sequence, that the host made durable.                                   *)
(***************************************************************************)
EXTENDS Naturals, Sequences, FiniteSets

CONSTANTS
    MaxConns,   \* reattach_attempts + 1
    Cap,        \* MAX_BUFFERED_EVENTS
    MaxEvents   \* bound: emissions of the agent, the terminal one included

ASSUME StreamConstants ==
    MaxConns \in Nat \ {0} /\ Cap \in Nat \ {0} /\ MaxEvents \in Nat \ {0}

Conns == 1..MaxConns
Seqs == 1..MaxEvents

VARIABLES
    agent,     \* the agent loop: "waiting" for its init, "working", "done"
    tried,     \* emissions so far
    nextSeq,   \* EventBuffer.next_seq
    acked,     \* EventBuffer.acked_through
    unsent,    \* the event emit() buffered and has not handed to a connection, or 0
    term,      \* sequence of the terminal event, or 0
    live,      \* the installed connection, or 0
    serve,     \* by connection: where serve_connection stands
    replay,    \* by connection: what its replay has left to queue
    toHost,    \* by connection: queued events
    toBox,     \* by connection: queued acknowledgements
    hconn,     \* the connection the host drains, or 0
    dialled,   \* connections the host has dialled
    resume,    \* by connection: the cursor of its attach request
    cursor,    \* the host's EventCursor
    drive,     \* "draining", "ended" (terminal event) or "unreachable"
    seen,      \* the events the host has taken
    overtaken, \* history: events still to be replayed when a later one was sent
    displaced  \* history: connections whose live slot an older one took

box == <<agent, tried, nextSeq, acked, unsent, term>>
link == <<live, serve, replay, toHost, toBox>>
hostState == <<hconn, dialled, resume, cursor, drive, seen>>
history == <<overtaken, displaced>>
vars == <<box, link, hostState, history>>

\* The buffer holds what is emitted and not acknowledged, in order.
Buffered == {s \in Seqs : acked < s /\ s < nextSeq}

Max2(a, b) == IF a < b THEN b ELSE a

-----------------------------------------------------------------------------
(* The agent.                                                              *)

\* The loop starts when the init of an attached host is read.
ReadInit(c) ==
    /\ serve[c] = "serving" /\ agent = "waiting"
    /\ agent' = "working"
    /\ UNCHANGED <<tried, nextSeq, acked, unsent, term, link, hostState, history>>

\* buffer_event: numbered and kept, or refused when the buffer is full; the
\* agent carries on either way.  The terminal event is the last one.
Emit(terminal) ==
    /\ agent = "working" /\ unsent = 0
    /\ tried < MaxEvents
    /\ tried' = tried + 1
    /\ agent' = IF terminal THEN "done" ELSE "working"
    /\ IF (nextSeq - 1) - acked >= Cap
       THEN UNCHANGED <<nextSeq, unsent, term>>
       ELSE /\ nextSeq' = nextSeq + 1
            /\ unsent' = nextSeq
            /\ term' = IF terminal THEN nextSeq ELSE term
    /\ UNCHANGED <<acked, link, hostState, history>>

\* The events in a queue.
Queued(q) == {q[i] : i \in 1..Len(q)}

\* What the replay of a connection has still to queue; before its snapshot, what
\* the snapshot would copy.
ToReplay(c) ==
    IF serve[c] = "installed" THEN {s \in Buffered : resume[c] < s}
    ELSE Queued(replay[c])

\* emit(), second half: the live connection of this moment gets the event, ahead
\* of what its replay has left.
SendLive ==
    /\ unsent # 0
    /\ unsent' = 0
    /\ IF live # 0
       THEN /\ toHost' = [toHost EXCEPT ![live] = Append(@, unsent)]
            /\ overtaken' = overtaken \cup {s \in ToReplay(live) : s < unsent}
       ELSE UNCHANGED <<toHost, overtaken>>
    /\ UNCHANGED <<agent, tried, nextSeq, acked, term, live, serve, replay, toBox, hostState, displaced>>

-----------------------------------------------------------------------------
(* serve_connection.                                                       *)

\* The handshake is accepted and the connection published as the live one,
\* whichever was.  The host may have given up on it and dialled the next.
Install(c) ==
    /\ c \in dialled /\ serve[c] = "none"
    /\ serve' = [serve EXCEPT ![c] = "installed"]
    /\ live' = c
    /\ displaced' = IF c < live THEN displaced \cup {live} ELSE displaced
    /\ UNCHANGED <<box, replay, toHost, toBox, hostState, overtaken>>

\* Mutant: the buffer is pruned one past the acknowledged event.
Acknowledge_OffByOne(n) == acked' = Max2(acked, IF n < nextSeq - 1 THEN n + 1 ELSE n)

\* SandboxRun::acknowledge, with the pruning of the buffer.
Acknowledge(n) == acked' = Max2(acked, n)

\* The numbers lo+1 .. hi as a sequence.
After(lo, hi) == [i \in 1..(IF lo < hi THEN hi - lo ELSE 0) |-> lo + i]

\* Mutant: the buffer's head, not the host's cursor, counts as acknowledged.
Snapshot_AcksHead(c) ==
    /\ serve[c] = "installed"
    /\ serve' = [serve EXCEPT ![c] = "replaying"]
    /\ Acknowledge(nextSeq - 1)
    /\ replay' = [replay EXCEPT ![c] = After(Max2(acked, resume[c]), nextSeq - 1)]
    /\ UNCHANGED <<agent, tried, nextSeq, unsent, term, live, toHost, toBox, hostState, history>>

\* The resume cursor counts as an acknowledgement; what is buffered past it is
\* copied for the replay.
Snapshot(c) ==
    /\ serve[c] = "installed"
    /\ serve' = [serve EXCEPT ![c] = "replaying"]
    /\ Acknowledge(resume[c])
    /\ replay' = [replay EXCEPT ![c] = After(Max2(acked, resume[c]), nextSeq - 1)]
    /\ UNCHANGED <<agent, tried, nextSeq, unsent, term, live, toHost, toBox, hostState, history>>

ReplayOne(c) ==
    /\ serve[c] = "replaying" /\ replay[c] # << >>
    /\ toHost' = [toHost EXCEPT ![c] = Append(@, Head(replay[c]))]
    /\ replay' = [replay EXCEPT ![c] = Tail(@)]
    /\ UNCHANGED <<box, live, serve, toBox, hostState, history>>

ReplayDone(c) ==
    /\ serve[c] = "replaying" /\ replay[c] = << >>
    /\ serve' = [serve EXCEPT ![c] = "serving"]
    /\ UNCHANGED <<box, live, replay, toHost, toBox, hostState, history>>

\* Only the live connection may advance the acknowledgement.
ReadAck(c) ==
    /\ serve[c] = "serving" /\ toBox[c] # << >>
    /\ IF live = c THEN Acknowledge(Head(toBox[c])) ELSE UNCHANGED acked
    /\ toBox' = [toBox EXCEPT ![c] = Tail(@)]
    /\ UNCHANGED <<agent, tried, nextSeq, unsent, term, live, serve, replay, toHost, hostState, history>>

\* Mutant: a superseded serve loop clears the slot of its successor.
LiveAfter_Clears(c) == 0

\* The live slot after connection c has ended: a newer one stays.
LiveAfter(c) == IF live = c THEN 0 ELSE live

\* The serve loop notices that the host's end is gone.
EndServe(c) ==
    /\ serve[c] \in {"installed", "replaying", "serving"}
    /\ hconn # c
    /\ serve' = [serve EXCEPT ![c] = "ended"]
    /\ live' = LiveAfter(c)
    /\ UNCHANGED <<box, replay, toHost, toBox, hostState, history>>

-----------------------------------------------------------------------------
(* The host.                                                               *)

\* A fresh connection resumes from the cursor.
Dial(c) ==
    /\ drive = "draining" /\ hconn = 0
    /\ c \notin dialled /\ \A d \in Conns : d < c => d \in dialled
    /\ hconn' = c
    /\ dialled' = dialled \cup {c}
    /\ resume' = [resume EXCEPT ![c] = cursor]
    /\ UNCHANGED <<box, link, cursor, drive, seen, history>>

\* drain_connection takes one event: the cursor is set to it, it is
\* acknowledged, and a terminal event ends the drive.
HostRead(c) ==
    /\ drive = "draining" /\ hconn = c
    /\ toHost[c] # << >>
    /\ LET s == Head(toHost[c]) IN
       /\ cursor' = s
       /\ seen' = seen \cup {s}
       /\ toBox' = [toBox EXCEPT ![c] = Append(@, s)]
       /\ drive' = IF s = term THEN "ended" ELSE drive
       /\ hconn' = IF s = term THEN 0 ELSE hconn
    /\ toHost' = [toHost EXCEPT ![c] = Tail(@)]
    /\ UNCHANGED <<box, live, serve, replay, dialled, resume, history>>

\* The connection breaks; what it still carried is gone.  The driver dials
\* again while its budget lasts.
HostDrop(c) ==
    /\ drive = "draining" /\ hconn = c
    /\ hconn' = 0
    /\ drive' = IF c = MaxConns THEN "unreachable" ELSE drive
    /\ toHost' = [toHost EXCEPT ![c] = << >>]
    /\ UNCHANGED <<box, live, serve, replay, toBox, dialled, resume, cursor, seen, history>>

-----------------------------------------------------------------------------
Init ==
    /\ agent = "waiting" /\ tried = 0
    /\ nextSeq = 1 /\ acked = 0 /\ unsent = 0 /\ term = 0
    /\ live = 0
    /\ serve = [c \in Conns |-> "none"]
    /\ replay = [c \in Conns |-> << >>]
    /\ toHost = [c \in Conns |-> << >>]
    /\ toBox = [c \in Conns |-> << >>]
    /\ hconn = 0 /\ dialled = {}
    /\ resume = [c \in Conns |-> 0]
    /\ cursor = 0 /\ drive = "draining" /\ seen = {}
    /\ overtaken = {} /\ displaced = {}

Serve(c) == Install(c) \/ Snapshot(c) \/ ReplayOne(c) \/ ReplayDone(c) \/ ReadAck(c) \/ EndServe(c)

Next ==
    \/ \E c \in Conns : ReadInit(c) \/ Serve(c) \/ Dial(c) \/ HostRead(c) \/ HostDrop(c)
    \/ \E terminal \in BOOLEAN : Emit(terminal)
    \/ SendLive

Spec == Init /\ [][Next]_vars

\* The runtimes of both sides poll their tasks and the driver dials and drains
\* until it has an end.  The agent need not emit and connections need not drop.
FairSpec ==
    /\ Spec
    /\ WF_vars(SendLive)
    /\ \A c \in Conns : WF_vars(Serve(c)) /\ WF_vars(Dial(c)) /\ WF_vars(HostRead(c))

-----------------------------------------------------------------------------
(* Properties.                                                             *)

\* Every variable has its type.
StreamTypeOK ==
    /\ agent \in {"waiting", "working", "done"}
    /\ tried \in 0..MaxEvents
    /\ nextSeq \in 1..(MaxEvents + 1)
    /\ acked \in 0..MaxEvents /\ unsent \in 0..MaxEvents /\ term \in 0..MaxEvents
    /\ live \in 0..MaxConns /\ hconn \in 0..MaxConns
    /\ serve \in [Conns -> {"none", "installed", "replaying", "serving", "ended"}]
    /\ replay \in [Conns -> Seq(Seqs)]
    /\ toHost \in [Conns -> Seq(Seqs)]
    /\ toBox \in [Conns -> Seq(Seqs)]
    /\ dialled \subseteq Conns
    /\ resume \in [Conns -> 0..MaxEvents]
    /\ cursor \in 0..MaxEvents
    /\ drive \in {"draining", "ended", "unreachable"}
    /\ seen \subseteq Seqs
    /\ overtaken \subseteq Seqs /\ displaced \subseteq Conns

\* However often the host reattaches, and whatever was overtaken, the buffer
\* lets go of the terminal event only after the host took it.
TerminalIsNotLost == term # 0 => term \in seen \/ term \in Buffered

\* What TerminalIsNotLost rests on.  The terminal event is the last one numbered;
\* what travels to the host was numbered before; what travels back, and what a
\* resume cursor or the buffer takes for acknowledged, was taken by the host.
Numbered == 1..(nextSeq - 1)

TerminalIsLast == term # 0 => agent = "done" /\ nextSeq = term + 1

SentWasNumbered ==
    /\ nextSeq <= tried + 1
    /\ unsent < nextSeq
    /\ seen \subseteq Numbered
    /\ \A c \in Conns : replay[c] \in Seq(Numbered) /\ toHost[c] \in Seq(Numbered)

AckedWasSeen ==
    /\ acked \in seen \cup {0}
    /\ cursor \in seen \cup {0}
    /\ \A c \in Conns : toBox[c] \in Seq(seen) /\ resume[c] \in seen \cup {0}

StreamInv == StreamTypeOK /\ TerminalIsLast /\ SentWasNumbered /\ AckedWasSeen


\* However often the host reattaches and in whatever order its connections are
\* installed, an event is skipped only that way: it was waiting to be replayed on
\* a connection when serve_connection's live slot let a later one pass.
SkipsOnlyOvertaken == \A s \in Seqs : s <= acked \/ s <= cursor => s \in seen \cup overtaken

\* What SkipsOnlyOvertaken rests on.  Whatever lies before an event the host has
\* taken was taken or overtaken; on the connection the host drains, what lies
\* before a queued event was also queued before it, and what lies before a replayed
\* event was also queued or is replayed before it; and the live connection has
\* queued, or has left to replay, all that was handed over.
Accounted == seen \cup overtaken

Closed(A, q) == \A i \in 1..Len(q) : 1..q[i] \subseteq A \cup {q[j] : j \in 1..i}

SeenIsClosed == \A m \in seen : 1..m \subseteq Accounted

QueueIsClosed(c) ==
    /\ Closed(Accounted, toHost[c])
    /\ Closed(Accounted \cup Queued(toHost[c]), replay[c])
    /\ live = c /\ serve[c] # "installed" =>
          Numbered \ {unsent} \subseteq Accounted \cup Queued(toHost[c]) \cup Queued(replay[c])

UnusedIsEmpty ==
    /\ live \in dialled \cup {0}
    /\ \A c \in Conns \ dialled : serve[c] = "none" /\ toHost[c] = << >>
    /\ \A c \in Conns : serve[c] \in {"none", "installed"} => replay[c] = << >>

ClosedInv ==
    /\ SeenIsClosed
    /\ UnusedIsEmpty
    /\ \A c \in Conns : hconn = c => QueueIsClosed(c)

\* The terminal event reaches the driver, unless the driver ran out of
\* reattachments, or drains a connection whose live slot was taken by one it had
\* given up on (it then waits for the run's deadline).
TerminalArrives == (term # 0) ~> (drive # "draining" \/ hconn \in displaced)
=============================================================================
