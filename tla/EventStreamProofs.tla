-------------------------- MODULE EventStreamProofs --------------------------
(***************************************************************************)
(* Proofs about EventStream, for any number of connections, any buffer and *)
(* any number of events, in whatever order connections are installed.      *)
(***************************************************************************)
EXTENDS EventStream, SequenceTheorems, TLAPS

-----------------------------------------------------------------------------
(* Sequences.                                                              *)

\* A sequence over a set is one over every larger set.
LEMMA SeqWider ==
    ASSUME NEW S, NEW T, S \subseteq T, NEW s \in Seq(S)
    PROVE  s \in Seq(T)
<1>1. Len(s) \in Nat /\ s \in [1..Len(s) -> S]
    BY LenProperties
<1>2. s \in [1..Len(s) -> T]
    BY <1>1
<1> QED BY <1>1, <1>2

\* Taking the head of a queue and adding at its end.
LEMMA QueueOps ==
    ASSUME NEW S, NEW s \in Seq(S)
    PROVE  /\ s # << >> => Head(s) \in S /\ Tail(s) \in Seq(S)
           /\ \A e \in S : Append(s, e) \in Seq(S)
BY HeadTailProperties, AppendProperties

\* What a replay copies was numbered.
LEMMA AfterType ==
    ASSUME NEW lo \in Nat, NEW hi \in Nat
    PROVE  After(lo, hi) \in Seq(1..hi)
<1> DEFINE n == IF lo < hi THEN hi - lo ELSE 0
<1>1. n \in Nat
    OBVIOUS
<1>2. \A i \in 1..n : lo + i \in 1..hi
    OBVIOUS
<1>3. After(lo, hi) \in [1..n -> 1..hi]
    BY <1>2 DEF After
<1> QED BY <1>1, <1>3

LEMMA IntervalWider ==
    ASSUME NEW a \in Nat, NEW b \in Nat, a <= b
    PROVE  1..(a - 1) \subseteq 1..(b - 1)
OBVIOUS

LEMMA Max2Type ==
    ASSUME NEW a, NEW b, NEW S, a \in S, b \in S
    PROVE  Max2(a, b) \in S
BY DEF Max2

-----------------------------------------------------------------------------
(* The invariant.                                                          *)

LEMMA StreamInit == Init => StreamInv
<1> SUFFICES ASSUME Init PROVE StreamInv
    OBVIOUS
<1>1. << >> \in Seq(Seqs) /\ << >> \in Seq(Numbered) /\ << >> \in Seq(seen)
    OBVIOUS
<1>2. StreamTypeOK
    BY <1>1, StreamConstants DEF Init, StreamTypeOK, Conns, Seqs
<1>3. SentWasNumbered
    BY <1>1 DEF Init, SentWasNumbered
<1>4. AckedWasSeen
    BY <1>1 DEF Init, AckedWasSeen
<1> QED BY <1>2, <1>3, <1>4 DEF Init, StreamInv, TerminalIsLast

\* Steps of the agent.
LEMMA AgentStep ==
    ASSUME StreamInv,
           \/ \E c \in Conns : ReadInit(c)
           \/ \E terminal \in BOOLEAN : Emit(terminal)
           \/ SendLive
    PROVE  StreamInv'
<1> USE StreamConstants
<1>1. ASSUME NEW c \in Conns, ReadInit(c) PROVE StreamInv'
    BY <1>1 DEF ReadInit, StreamInv, StreamTypeOK, TerminalIsLast, SentWasNumbered, AckedWasSeen,
        Numbered, link, hostState, history
<1>2. ASSUME NEW terminal \in BOOLEAN, Emit(terminal) PROVE StreamInv'
    <2>1. term = 0 /\ nextSeq \in Nat /\ acked \in Nat /\ tried \in 0..MaxEvents
        BY <1>2 DEF Emit, StreamInv, StreamTypeOK, TerminalIsLast
    <2>2. /\ nextSeq' \in {nextSeq, nextSeq + 1}
          /\ tried' = tried + 1 /\ tried' \in 0..MaxEvents
          /\ agent' = IF terminal THEN "done" ELSE "working"
          /\ UNCHANGED <<acked, link, hostState, history>>
          /\ \/ nextSeq' = nextSeq /\ unsent' = unsent /\ term' = 0
             \/ /\ nextSeq' = nextSeq + 1 /\ unsent' = nextSeq
                /\ term' = IF terminal THEN nextSeq ELSE 0
        BY <1>2, <2>1 DEF Emit
    <2>3. nextSeq <= tried + 1 /\ unsent < nextSeq /\ unsent \in 0..MaxEvents
          /\ nextSeq \in 1..(MaxEvents + 1)
        BY DEF StreamInv, SentWasNumbered, StreamTypeOK
    <2>4. nextSeq' <= tried' + 1 /\ unsent' < nextSeq' /\ unsent' \in 0..MaxEvents
          /\ nextSeq' \in 1..(MaxEvents + 1) /\ term' \in 0..MaxEvents
        BY <2>1, <2>2, <2>3
    <2>5. StreamTypeOK'
        BY <2>2, <2>4 DEF StreamInv, StreamTypeOK, link, hostState, history
    <2>6. Numbered \subseteq Numbered'
        <3>1. nextSeq \in Nat /\ nextSeq' \in Nat /\ nextSeq <= nextSeq'
            <4>1. nextSeq \in Nat
                BY <2>3
            <4>2. nextSeq' = nextSeq \/ nextSeq' = nextSeq + 1
                BY <2>2
            <4> QED BY <4>1, <4>2
        <3> QED BY <3>1, IntervalWider DEF Numbered
    <2>7. SentWasNumbered'
        <3>1. ASSUME NEW c \in Conns
              PROVE  replay'[c] \in Seq(Numbered') /\ toHost'[c] \in Seq(Numbered')
            <4>1. replay[c] \in Seq(Numbered) /\ toHost[c] \in Seq(Numbered)
                BY DEF StreamInv, SentWasNumbered
            <4>2. replay[c] \in Seq(Numbered') /\ toHost[c] \in Seq(Numbered')
                BY <2>6, <4>1, SeqWider
            <4> QED BY <2>2, <4>2 DEF link
        <3>2. seen' \subseteq Numbered'
            BY <2>2, <2>6 DEF StreamInv, SentWasNumbered, hostState, history
        <3> QED BY <2>4, <3>1, <3>2 DEF SentWasNumbered
    <2>8. TerminalIsLast'
        BY <2>1, <2>2 DEF TerminalIsLast
    <2>9. AckedWasSeen'
        BY <2>2 DEF StreamInv, AckedWasSeen, link, hostState
    <2> QED BY <2>5, <2>7, <2>8, <2>9 DEF StreamInv
<1>3. CASE SendLive
    <2>1. unsent \in Seqs /\ unsent \in Numbered
        BY <1>3 DEF SendLive, StreamInv, StreamTypeOK, SentWasNumbered, Seqs, Numbered
    <2>2. ASSUME NEW c \in Conns
          PROVE  toHost'[c] \in Seq(Seqs) /\ toHost'[c] \in Seq(Numbered)
        <3>1. toHost[c] \in Seq(Seqs) /\ toHost[c] \in Seq(Numbered)
            BY DEF StreamInv, StreamTypeOK, SentWasNumbered
        <3>2. Append(toHost[c], unsent) \in Seq(Seqs) /\ Append(toHost[c], unsent) \in Seq(Numbered)
            BY <2>1, <3>1, QueueOps
        <3> QED BY <1>3, <3>1, <3>2 DEF SendLive, StreamInv, StreamTypeOK
    <2>3. DOMAIN toHost' = Conns /\ toHost' = [c \in Conns |-> toHost'[c]]
        BY <1>3 DEF SendLive, StreamInv, StreamTypeOK
    <2>4. toHost' \in [Conns -> Seq(Seqs)]
        BY <2>2, <2>3
    <2>5. overtaken' \subseteq Seqs
        <3>1. \A d \in Conns : Queued(replay[d]) \subseteq Seqs
            BY DEF StreamInv, StreamTypeOK, Queued
        <3>2. live # 0 => ToReplay(live) \subseteq Seqs
            BY <3>1 DEF ToReplay, Buffered, StreamInv, StreamTypeOK, Conns
        <3> QED BY <1>3, <3>2 DEF SendLive, StreamInv, StreamTypeOK
    <2> QED BY <1>3, <2>2, <2>4, <2>5 DEF SendLive, StreamInv, StreamTypeOK, TerminalIsLast,
            SentWasNumbered, AckedWasSeen, Numbered, hostState, history
<1> QED BY <1>1, <1>2, <1>3

\* An acknowledgement of what the host has taken.
LEMMA AcknowledgeSeen ==
    ASSUME StreamInv, NEW n \in seen \cup {0}, Acknowledge(n)
    PROVE  acked' \in seen \cup {0} /\ acked' \in 0..MaxEvents
<1>1. acked \in seen \cup {0} /\ seen \subseteq 1..MaxEvents
    BY DEF StreamInv, AckedWasSeen, StreamTypeOK, Seqs
<1>2. acked' \in seen \cup {0}
    BY <1>1, Max2Type DEF Acknowledge
<1> QED BY <1>1, <1>2, StreamConstants

\* Steps of a serve loop.
LEMMA ServeStep ==
    ASSUME StreamInv, NEW c \in Conns, Serve(c)
    PROVE  StreamInv'
<1> USE StreamConstants
<1>0. c \in 0..MaxConns
    BY DEF Conns
<1>1. CASE Install(c)
    <2>1. displaced' \subseteq Conns
        BY <1>0, <1>1 DEF Install, StreamInv, StreamTypeOK, Conns
    <2> QED BY <1>0, <1>1, <2>1 DEF Install, StreamInv, StreamTypeOK, TerminalIsLast, SentWasNumbered,
        AckedWasSeen, Numbered, box, hostState, history
<1>2. CASE Snapshot(c)
    <2>1. resume[c] \in seen \cup {0} /\ resume[c] \in Nat /\ acked \in Nat /\ nextSeq - 1 \in Nat
          /\ nextSeq - 1 <= MaxEvents
        BY DEF StreamInv, AckedWasSeen, StreamTypeOK
    <2>2. acked' \in seen \cup {0} /\ acked' \in 0..MaxEvents
        BY <1>2, <2>1, AcknowledgeSeen DEF Snapshot
    <2>3. Max2(acked, resume[c]) \in Nat
        BY <2>1, Max2Type
    <2>4. After(Max2(acked, resume[c]), nextSeq - 1) \in Seq(Numbered)
        BY <2>1, <2>3, AfterType DEF Numbered
    <2>5. Numbered \subseteq Seqs
        BY <2>1 DEF Numbered, Seqs
    <2>6. After(Max2(acked, resume[c]), nextSeq - 1) \in Seq(Seqs)
        BY <2>4, <2>5, SeqWider
    <2>7. /\ replay' \in [Conns -> Seq(Seqs)]
          /\ \A d \in Conns : replay'[d] \in Seq(Numbered)
        BY <1>2, <2>4, <2>6 DEF Snapshot, StreamInv, StreamTypeOK, SentWasNumbered
    <2>8. serve' \in [Conns -> {"none", "installed", "replaying", "serving", "ended"}]
        BY <1>2 DEF Snapshot, StreamInv, StreamTypeOK
    <2> QED BY <1>2, <2>2, <2>7, <2>8 DEF Snapshot, StreamInv, StreamTypeOK, TerminalIsLast,
            SentWasNumbered, AckedWasSeen, Numbered, hostState, history
<1>3. CASE ReplayOne(c)
    <2>1. /\ replay[c] \in Seq(Seqs) /\ replay[c] \in Seq(Numbered)
          /\ toHost[c] \in Seq(Seqs) /\ toHost[c] \in Seq(Numbered)
        BY DEF StreamInv, StreamTypeOK, SentWasNumbered
    <2>2. /\ Head(replay[c]) \in Seqs /\ Tail(replay[c]) \in Seq(Seqs)
          /\ Head(replay[c]) \in Numbered /\ Tail(replay[c]) \in Seq(Numbered)
        BY <1>3, <2>1, QueueOps DEF ReplayOne
    <2>3. /\ Append(toHost[c], Head(replay[c])) \in Seq(Seqs)
          /\ Append(toHost[c], Head(replay[c])) \in Seq(Numbered)
        BY <2>1, <2>2, QueueOps
    <2>4. replay' = [replay EXCEPT ![c] = Tail(replay[c])]
          /\ toHost' = [toHost EXCEPT ![c] = Append(toHost[c], Head(replay[c]))]
        BY <1>3 DEF ReplayOne
    <2>5. /\ replay' \in [Conns -> Seq(Seqs)] /\ toHost' \in [Conns -> Seq(Seqs)]
          /\ \A d \in Conns : replay'[d] \in Seq(Numbered) /\ toHost'[d] \in Seq(Numbered)
        BY <2>2, <2>3, <2>4 DEF StreamInv, StreamTypeOK, SentWasNumbered
    <2> QED BY <1>3, <2>5 DEF ReplayOne, StreamInv, StreamTypeOK, TerminalIsLast,
            SentWasNumbered, AckedWasSeen, Numbered, box, hostState, history
<1>4. CASE ReplayDone(c)
    BY <1>4 DEF ReplayDone, StreamInv, StreamTypeOK, TerminalIsLast, SentWasNumbered,
        AckedWasSeen, Numbered, box, hostState, history
<1>5. CASE ReadAck(c)
    <2>1. toBox[c] \in Seq(Seqs) /\ toBox[c] \in Seq(seen)
        BY DEF StreamInv, StreamTypeOK, AckedWasSeen
    <2>2. Head(toBox[c]) \in seen /\ Tail(toBox[c]) \in Seq(seen) /\ Tail(toBox[c]) \in Seq(Seqs)
        BY <1>5, <2>1, QueueOps DEF ReadAck
    <2>3. acked' \in seen \cup {0} /\ acked' \in 0..MaxEvents
        <3>1. CASE live = c
            BY <1>5, <2>2, <3>1, AcknowledgeSeen DEF ReadAck
        <3>2. CASE live # c
            BY <1>5, <3>2 DEF ReadAck, StreamInv, StreamTypeOK, AckedWasSeen
        <3> QED BY <3>1, <3>2
    <2>4. toBox' = [toBox EXCEPT ![c] = Tail(toBox[c])]
        BY <1>5 DEF ReadAck
    <2>5. toBox' \in [Conns -> Seq(Seqs)] /\ \A d \in Conns : toBox'[d] \in Seq(seen)
        BY <2>2, <2>4 DEF StreamInv, StreamTypeOK, AckedWasSeen
    <2>6. UNCHANGED <<agent, tried, nextSeq, unsent, term, live, serve, replay, toHost, hostState, history>>
        BY <1>5 DEF ReadAck
    <2> QED BY <2>3, <2>5, <2>6 DEF StreamInv, StreamTypeOK, TerminalIsLast,
            SentWasNumbered, AckedWasSeen, Numbered, hostState, history
<1>6. CASE EndServe(c)
    BY <1>6 DEF EndServe, LiveAfter, StreamInv, StreamTypeOK, TerminalIsLast, SentWasNumbered,
        AckedWasSeen, Numbered, box, hostState, history
<1> QED BY <1>1, <1>2, <1>3, <1>4, <1>5, <1>6 DEF Serve

\* Steps of the host.
LEMMA HostStep ==
    ASSUME StreamInv, NEW c \in Conns, Dial(c) \/ HostRead(c) \/ HostDrop(c)
    PROVE  StreamInv'
<1> USE StreamConstants
<1>0. c \in 0..MaxConns
    BY DEF Conns
<1>1. CASE Dial(c)
    BY <1>0, <1>1 DEF Dial, StreamInv, StreamTypeOK, TerminalIsLast, SentWasNumbered,
        AckedWasSeen, Numbered, box, link, history
<1>2. CASE HostRead(c)
    <2> DEFINE s == Head(toHost[c])
    <2>1. toHost[c] \in Seq(Seqs) /\ toHost[c] \in Seq(Numbered)
        BY DEF StreamInv, StreamTypeOK, SentWasNumbered
    <2>2. /\ s \in Seqs /\ Tail(toHost[c]) \in Seq(Seqs)
          /\ s \in Numbered /\ Tail(toHost[c]) \in Seq(Numbered)
        BY <1>2, <2>1, QueueOps DEF HostRead
    <2>3. /\ cursor' = s /\ seen' = seen \cup {s}
          /\ toBox' = [toBox EXCEPT ![c] = Append(toBox[c], s)]
          /\ toHost' = [toHost EXCEPT ![c] = Tail(toHost[c])]
          /\ drive' \in {"ended", drive} /\ hconn' \in {0, hconn}
          /\ UNCHANGED <<box, live, serve, replay, dialled, resume, history>>
        BY <1>2 DEF HostRead
    <2> HIDE DEF s
    <2>4. ASSUME NEW d \in Conns PROVE toBox'[d] \in Seq(seen') /\ toBox'[d] \in Seq(Seqs)
        <3>1. toBox[d] \in Seq(seen) /\ toBox[d] \in Seq(Seqs)
            BY DEF StreamInv, StreamTypeOK, AckedWasSeen
        <3>2. toBox[d] \in Seq(seen') /\ s \in seen'
            BY <2>3, <3>1, SeqWider
        <3>3. Append(toBox[d], s) \in Seq(seen') /\ Append(toBox[d], s) \in Seq(Seqs)
            BY <2>2, <3>1, <3>2, QueueOps
        <3> QED BY <2>3, <3>1, <3>2, <3>3 DEF StreamInv, StreamTypeOK
    <2>5. toBox' \in [Conns -> Seq(Seqs)]
        <3>1. toBox' = [d \in Conns |-> toBox'[d]]
            BY <2>3 DEF StreamInv, StreamTypeOK
        <3> QED BY <2>4, <3>1
    <2>6. toHost' \in [Conns -> Seq(Seqs)] /\ \A d \in Conns : toHost'[d] \in Seq(Numbered)
        BY <2>2, <2>3 DEF StreamInv, StreamTypeOK, SentWasNumbered
    <2>7. seen' \subseteq Seqs /\ seen' \subseteq Numbered /\ cursor' \in 0..MaxEvents
        BY <2>2, <2>3 DEF StreamInv, StreamTypeOK, SentWasNumbered, Seqs
    <2>8. StreamTypeOK'
        BY <2>3, <2>5, <2>6, <2>7 DEF StreamInv, StreamTypeOK, box, history
    <2>9. SentWasNumbered' /\ TerminalIsLast'
        BY <2>3, <2>6, <2>7 DEF StreamInv, SentWasNumbered, TerminalIsLast, Numbered, box
    <2>10. AckedWasSeen'
        BY <2>3, <2>4 DEF StreamInv, AckedWasSeen, box
    <2> QED BY <2>8, <2>9, <2>10 DEF StreamInv
<1>3. CASE HostDrop(c)
    <2>1. << >> \in Seq(Seqs) /\ << >> \in Seq(Numbered)
        OBVIOUS
    <2>2. /\ toHost' \in [Conns -> Seq(Seqs)] /\ \A d \in Conns : toHost'[d] \in Seq(Numbered)
          /\ drive' \in {"draining", "ended", "unreachable"} /\ hconn' \in 0..MaxConns
        BY <1>3, <2>1 DEF HostDrop, StreamInv, StreamTypeOK, SentWasNumbered
    <2> QED BY <1>3, <2>2 DEF HostDrop, StreamInv, StreamTypeOK, TerminalIsLast,
            SentWasNumbered, AckedWasSeen, Numbered, box, history
<1> QED BY <1>1, <1>2, <1>3

LEMMA StreamNext == StreamInv /\ [Next]_vars => StreamInv'
<1> SUFFICES ASSUME StreamInv, [Next]_vars PROVE StreamInv'
    OBVIOUS
<1>1. CASE UNCHANGED vars
    BY <1>1 DEF vars, box, link, hostState, history, StreamInv, StreamTypeOK, TerminalIsLast,
        SentWasNumbered, AckedWasSeen, Numbered
<1> QED BY <1>1, AgentStep, ServeStep, HostStep DEF Next

LEMMA StreamInvariant == Spec => []StreamInv
BY StreamInit, StreamNext, PTL DEF Spec

\* Every reachable state of the stream is well typed.
THEOREM StreamTypeCorrect == Spec => []StreamTypeOK
<1>1. StreamInv => StreamTypeOK
    BY DEF StreamInv
<1> QED BY <1>1, StreamInvariant, PTL

\* The sandbox forgets the terminal event only after the host took it, even when
\* an old serve task publishes its connection over a newer one: the news that the
\* run is over is never lost.
THEOREM TerminalSurvives == Spec => []TerminalIsNotLost
<1>1. StreamInv => TerminalIsNotLost
    <2> SUFFICES ASSUME StreamInv, term # 0, term \notin seen PROVE term \in Buffered
        BY DEF TerminalIsNotLost
    <2>1. term \in Seqs /\ nextSeq = term + 1 /\ term \in Nat
        BY StreamConstants DEF StreamInv, StreamTypeOK, TerminalIsLast, Seqs
    <2>2. acked \in seen \cup {0} /\ seen \subseteq 1..term
        BY <2>1 DEF StreamInv, SentWasNumbered, AckedWasSeen, Numbered
    <2>3. acked < term
        BY <2>1, <2>2
    <2> QED BY <2>1, <2>3 DEF Buffered
<1> QED BY <1>1, StreamInvariant, PTL

-----------------------------------------------------------------------------
(* What the host skips was overtaken.                                      *)

\* A queue stays closed over a larger set.
LEMMA ClosedWider ==
    ASSUME NEW A, NEW B, A \subseteq B, NEW q, Closed(A, q)
    PROVE  Closed(B, q)
BY DEF Closed

LEMMA ClosedEmpty ==
    ASSUME NEW A
    PROVE  Closed(A, << >>) /\ Queued(<< >>) = {}
BY DEF Closed, Queued

\* Adding an event all of whose predecessors are there.
LEMMA ClosedAppend ==
    ASSUME NEW A, NEW q \in Seq(Nat), NEW e \in Nat, Closed(A, q),
           1..e \subseteq A \cup Queued(q) \cup {e}
    PROVE  Closed(A, Append(q, e)) /\ Queued(Append(q, e)) = Queued(q) \cup {e}
<1> DEFINE n == Len(q)  p == Append(q, e)
<1>1. /\ n \in Nat /\ p \in Seq(Nat) /\ Len(p) = n + 1
      /\ \A i \in 1..n : p[i] = q[i]
      /\ p[n + 1] = e
    BY LenProperties, AppendProperties
<1> HIDE DEF n, p
<1>2. 1..(n + 1) = (1..n) \cup {n + 1}
    BY <1>1
<1>3. ASSUME NEW i \in 1..n PROVE {p[j] : j \in 1..i} = {q[j] : j \in 1..i}
    <2>1. \A j \in 1..i : p[j] = q[j]
        BY <1>1
    <2> QED BY <2>1
<1>4. {p[j] : j \in 1..(n + 1)} = {q[j] : j \in 1..n} \cup {e}
    BY <1>1, <1>2
<1>5. Queued(p) = Queued(q) \cup {e}
    BY <1>1, <1>4 DEF Queued, n
<1>6. ASSUME NEW i \in 1..n PROVE 1..p[i] \subseteq A \cup {p[j] : j \in 1..i}
    BY <1>1, <1>3 DEF Closed, n
<1>7. 1..p[n + 1] \subseteq A \cup {p[j] : j \in 1..(n + 1)}
    BY <1>1, <1>4 DEF Queued, n
<1>8. \A i \in 1..(n + 1) : 1..p[i] \subseteq A \cup {p[j] : j \in 1..i}
    BY <1>2, <1>6, <1>7
<1> QED BY <1>1, <1>5, <1>8 DEF Closed, p

\* Taking the head: nothing lies before it that is not in the set.
LEMMA ClosedTake ==
    ASSUME NEW A, NEW q \in Seq(Nat), q # << >>, Closed(A, q)
    PROVE  /\ 1..Head(q) \subseteq A \cup {Head(q)}
           /\ Closed(A \cup {Head(q)}, Tail(q))
           /\ Queued(q) = {Head(q)} \cup Queued(Tail(q))
<1> DEFINE n == Len(q)  h == Head(q)  p == Tail(q)
<1>1. /\ n \in Nat /\ n >= 1 /\ p \in Seq(Nat) /\ Len(p) = n - 1 /\ h = q[1]
      /\ \A i \in 1..(n - 1) : p[i] = q[i + 1]
    BY LenProperties, HeadTailProperties, EmptySeq
<1>2. \A i \in 1..n : 1..q[i] \subseteq A \cup {q[j] : j \in 1..i}
    BY DEF Closed
<1> HIDE DEF n, h, p
<1>3. 1..h \subseteq A \cup {h}
    BY <1>1, <1>2
<1>4. ASSUME NEW i \in 0..(n - 1) PROVE {q[j] : j \in 1..(i + 1)} = {h} \cup {p[j] : j \in 1..i}
    <2>1. \A j \in 1..(i + 1) : j = 1 \/ (j - 1 \in 1..i /\ q[j] = p[j - 1])
        BY <1>1
    <2>2. \A j \in 1..i : j + 1 \in 1..(i + 1) /\ p[j] = q[j + 1]
        BY <1>1
    <2>3. 1 \in 1..(i + 1)
        BY <1>1
    <2>4. ASSUME NEW x \in {q[j] : j \in 1..(i + 1)} PROVE x \in {h} \cup {p[j] : j \in 1..i}
        <3>1. PICK j \in 1..(i + 1) : x = q[j]
            OBVIOUS
        <3>2. CASE j = 1
            BY <1>1, <3>1, <3>2
        <3>3. CASE j - 1 \in 1..i /\ q[j] = p[j - 1]
            BY <3>1, <3>3
        <3> QED BY <2>1, <3>2, <3>3
    <2>5. ASSUME NEW x \in {h} \cup {p[j] : j \in 1..i} PROVE x \in {q[j] : j \in 1..(i + 1)}
        <3>1. CASE x = h
            BY <1>1, <2>3, <3>1
        <3>2. CASE x \in {p[j] : j \in 1..i}
            <4>1. PICK j \in 1..i : x = p[j]
                BY <3>2
            <4>2. j + 1 \in 1..(i + 1) /\ x = q[j + 1]
                BY <2>2, <4>1
            <4> QED BY <4>2
        <3> QED BY <3>1, <3>2
    <2> QED BY <2>4, <2>5
<1>5. ASSUME NEW i \in 1..(n - 1) PROVE 1..p[i] \subseteq (A \cup {h}) \cup {p[j] : j \in 1..i}
    <2>1. i + 1 \in 1..n /\ i \in 0..(n - 1)
        BY <1>1
    <2>2. 1..q[i + 1] \subseteq A \cup {q[j] : j \in 1..(i + 1)}
        BY <1>2, <2>1
    <2>3. {q[j] : j \in 1..(i + 1)} = {h} \cup {p[j] : j \in 1..i}
        BY <1>4, <2>1
    <2>4. p[i] = q[i + 1]
        BY <1>1
    <2> QED BY <2>2, <2>3, <2>4
<1>6. Queued(q) = {h} \cup Queued(p)
    <2>1. n - 1 \in 0..(n - 1) /\ (n - 1) + 1 = n
        BY <1>1
    <2>2. {q[j] : j \in 1..n} = {h} \cup {p[j] : j \in 1..(n - 1)}
        BY <1>4, <2>1
    <2> QED BY <1>1, <2>2 DEF Queued, n
<1>7. Closed(A \cup {h}, p)
    BY <1>1, <1>5 DEF Closed
<1> QED BY <1>3, <1>6, <1>7 DEF h, p

\* A copy of the buffer from a number on.
LEMMA ClosedAfter ==
    ASSUME NEW A, NEW lo \in Nat, NEW hi \in Nat, 1..lo \subseteq A
    PROVE  Closed(A, After(lo, hi)) /\ 1..hi \subseteq A \cup Queued(After(lo, hi))
<1> DEFINE n == IF lo < hi THEN hi - lo ELSE 0  q == After(lo, hi)
<1>1. n \in Nat
    OBVIOUS
<1>2. q = [i \in 1..n |-> lo + i] /\ Len(q) = n
    BY <1>1 DEF After
<1>2a. hi <= lo + n
    OBVIOUS
<1> HIDE DEF n, q
<1>3. \A i \in 1..n : q[i] = lo + i
    BY <1>2
<1>4. ASSUME NEW i \in 0..n PROVE 1..(lo + i) \subseteq A \cup {q[j] : j \in 1..i}
    <2> SUFFICES ASSUME NEW s \in 1..(lo + i), s \notin A PROVE s \in {q[j] : j \in 1..i}
        OBVIOUS
    <2>1. s \in Nat /\ s > lo
        OBVIOUS
    <2>2. s - lo \in 1..i /\ s - lo \in 1..n /\ lo + (s - lo) = s
        BY <1>1, <2>1
    <2>3. q[s - lo] = s
        BY <1>3, <2>2
    <2> QED BY <2>2, <2>3
<1>5. Closed(A, q)
    <2> SUFFICES ASSUME NEW i \in 1..n PROVE 1..q[i] \subseteq A \cup {q[j] : j \in 1..i}
        BY <1>2 DEF Closed
    <2>1. i \in 0..n
        BY <1>1
    <2> QED BY <1>3, <1>4, <2>1
<1>6. 1..(lo + n) \subseteq A \cup Queued(q)
    BY <1>1, <1>2, <1>4 DEF Queued
<1>7. 1..hi \subseteq 1..(lo + n)
    BY <1>1, <1>2a
<1> QED BY <1>5, <1>6, <1>7 DEF q

LEMMA ClosedInit == Init => ClosedInv
<1> SUFFICES ASSUME Init PROVE ClosedInv
    OBVIOUS
<1>1. 0 \notin Conns
    BY DEF Conns
<1> QED BY <1>1 DEF Init, ClosedInv, SeenIsClosed, UnusedIsEmpty

\* Queues over numbers, and the numbers themselves.
LEMMA StreamNumbers ==
    ASSUME StreamInv
    PROVE  /\ nextSeq \in Nat /\ nextSeq >= 1 /\ acked \in Nat /\ unsent \in Nat /\ cursor \in Nat
           /\ unsent < nextSeq
           /\ \A c \in Conns : resume[c] \in Nat /\ toHost[c] \in Seq(Nat) /\ replay[c] \in Seq(Nat)
<1>1. /\ nextSeq \in Nat /\ nextSeq >= 1 /\ acked \in Nat /\ unsent \in Nat /\ cursor \in Nat
      /\ unsent < nextSeq
      /\ \A c \in Conns : resume[c] \in Nat
    BY StreamConstants DEF StreamInv, StreamTypeOK, SentWasNumbered
<1>2. Seqs \subseteq Nat
    BY StreamConstants DEF Seqs
<1>3. \A c \in Conns : toHost[c] \in Seq(Seqs) /\ replay[c] \in Seq(Seqs)
    BY DEF StreamInv, StreamTypeOK
<1>4. \A c \in Conns : toHost[c] \in Seq(Nat) /\ replay[c] \in Seq(Nat)
    BY <1>2, <1>3, SeqWider
<1> QED BY <1>1, <1>4

\* All that lies at or before an event the host took, or a cursor it sent.
LEMMA UpToSeen ==
    ASSUME SeenIsClosed, NEW m \in seen \cup {0}
    PROVE  1..m \subseteq Accounted
<1>1. CASE m = 0
    BY <1>1
<1>2. CASE m \in seen
    BY <1>2 DEF SeenIsClosed
<1> QED BY <1>1, <1>2

\* A new event is numbered before it is handed over; it may then pass the replay.
LEMMA ClosedAgent ==
    ASSUME StreamInv, ClosedInv,
           \/ \E c \in Conns : ReadInit(c)
           \/ \E terminal \in BOOLEAN : Emit(terminal)
           \/ SendLive
    PROVE  ClosedInv'
<1>1. ASSUME NEW c \in Conns, ReadInit(c) PROVE ClosedInv'
    BY <1>1 DEF ReadInit, link, hostState, history, ClosedInv, SeenIsClosed, UnusedIsEmpty,
        QueueIsClosed, Accounted, Numbered
<1>2. ASSUME NEW terminal \in BOOLEAN, Emit(terminal) PROVE ClosedInv'
    <2>1. /\ unsent = 0
          /\ \/ nextSeq' = nextSeq /\ unsent' = unsent
             \/ nextSeq' = nextSeq + 1 /\ unsent' = nextSeq
          /\ UNCHANGED <<live, serve, replay, toHost, hconn, dialled, seen, overtaken>>
        BY <1>2 DEF Emit, link, hostState, history
    <2>2. Numbered' \ {unsent'} \subseteq Numbered \ {unsent}
        BY <2>1, StreamNumbers DEF Numbered
    <2>3. Accounted' = Accounted
        BY <2>1 DEF Accounted
    <2> QED BY <2>1, <2>2, <2>3 DEF ClosedInv, SeenIsClosed, UnusedIsEmpty, QueueIsClosed
<1>3. CASE SendLive
    <2>1. /\ unsent # 0 /\ unsent' = 0
          /\ toHost' = IF live # 0 THEN [toHost EXCEPT ![live] = Append(toHost[live], unsent)]
                                   ELSE toHost
          /\ overtaken' = IF live # 0 THEN overtaken \cup {s \in ToReplay(live) : s < unsent}
                                      ELSE overtaken
          /\ UNCHANGED <<nextSeq, live, serve, replay, hconn, dialled, seen>>
        BY <1>3 DEF SendLive, hostState
    <2>2. Accounted \subseteq Accounted' /\ Numbered' = Numbered
        BY <2>1 DEF Accounted, Numbered
    <2>3. toHost \in [Conns -> Seq(Seqs)]
        BY DEF StreamInv, StreamTypeOK
    <2>4. SeenIsClosed'
        BY <2>1, <2>2 DEF ClosedInv, SeenIsClosed
    <2>5. UnusedIsEmpty'
        <3>1. \A c \in Conns \ dialled : toHost'[c] = toHost[c]
            BY <2>1, <2>3 DEF ClosedInv, UnusedIsEmpty
        <3> QED BY <2>1, <3>1 DEF ClosedInv, UnusedIsEmpty
    <2>6. ASSUME NEW c \in Conns, hconn = c PROVE QueueIsClosed(c)'
        <3>0. QueueIsClosed(c) /\ c # 0
            BY <2>6 DEF ClosedInv, Conns
        <3>1. Closed(Accounted', toHost[c])
            BY <2>2, <3>0, ClosedWider DEF QueueIsClosed
        <3>2. CASE live # c
            <4>1. toHost'[c] = toHost[c]
                BY <2>1, <2>3, <3>2
            <4>2. Closed(Accounted' \cup Queued(toHost[c]), replay[c])
                <5>1. Accounted \cup Queued(toHost[c]) \subseteq Accounted' \cup Queued(toHost[c])
                    BY <2>2
                <5> QED BY <3>0, <5>1, ClosedWider DEF QueueIsClosed
            <4> QED BY <2>1, <3>1, <3>2, <4>1, <4>2 DEF QueueIsClosed
        <3>3. CASE live = c
            <4>1. toHost'[c] = Append(toHost[c], unsent) /\ toHost[c] \in Seq(Nat)
                BY <2>1, <2>3, <3>0, <3>3, StreamNumbers
            <4>2. 1..unsent \subseteq Accounted' \cup Queued(toHost[c]) \cup {unsent}
                <5> SUFFICES ASSUME NEW s \in 1..unsent, s # unsent, s \notin Accounted',
                                    s \notin Queued(toHost[c])
                             PROVE  FALSE
                    OBVIOUS
                <5>1. s \in Nat /\ s >= 1 /\ s < unsent /\ s < nextSeq /\ s \in Numbered
                    BY StreamNumbers DEF Numbered
                <5>2. s \notin ToReplay(c)
                    BY <2>1, <3>0, <3>3, <5>1 DEF Accounted
                <5>3. s \notin Accounted
                    BY <2>2
                <5>4. CASE serve[c] = "installed"
                    <6>1. acked \in seen \cup {0} /\ resume[c] \in seen \cup {0}
                        BY DEF StreamInv, AckedWasSeen
                    <6>2. s \notin 1..acked /\ s \notin 1..resume[c]
                        BY <5>3, <6>1, UpToSeen DEF ClosedInv
                    <6>3. acked < s /\ resume[c] < s
                        BY <5>1, <6>2, StreamNumbers
                    <6>4. s \in Seqs
                        BY <5>1, StreamConstants DEF StreamInv, StreamTypeOK, Seqs
                    <6> QED BY <5>1, <5>2, <5>4, <6>3, <6>4 DEF ToReplay, Buffered
                <5>5. CASE serve[c] # "installed"
                    BY <3>0, <3>3, <5>1, <5>2, <5>3, <5>5 DEF QueueIsClosed, ToReplay
                <5> QED BY <5>4, <5>5
            <4>3. Closed(Accounted', toHost'[c]) /\ Queued(toHost'[c]) = Queued(toHost[c]) \cup {unsent}
                <5>1. unsent \in Nat
                    BY StreamNumbers
                <5>2. /\ Closed(Accounted', Append(toHost[c], unsent))
                      /\ Queued(Append(toHost[c], unsent)) = Queued(toHost[c]) \cup {unsent}
                    BY ONLY <3>1, <4>1, <4>2, <5>1, ClosedAppend
                <5> QED BY <4>1, <5>2
            <4>4. Closed(Accounted' \cup Queued(toHost'[c]), replay[c])
                <5>1. Accounted \cup Queued(toHost[c]) \subseteq Accounted' \cup Queued(toHost'[c])
                    BY <2>2, <4>3
                <5> QED BY <3>0, <5>1, ClosedWider DEF QueueIsClosed
            <4>5. ASSUME serve[c] # "installed"
                  PROVE  Numbered \subseteq Accounted' \cup Queued(toHost'[c]) \cup Queued(replay[c])
                BY <2>2, <3>0, <3>3, <4>3, <4>5 DEF QueueIsClosed
            <4> QED BY <2>1, <2>2, <4>3, <4>4, <4>5 DEF QueueIsClosed
        <3> QED BY <3>2, <3>3
    <2> QED BY <2>1, <2>4, <2>5, <2>6 DEF ClosedInv
<1> QED BY <1>1, <1>2, <1>3

\* Installing and ending a connection leave the one the host drains without a
\* replay or untouched; a snapshot starts where the host, or the sandbox, knows of.
LEMMA ClosedServe ==
    ASSUME StreamInv, ClosedInv, NEW c \in Conns, Serve(c)
    PROVE  ClosedInv'
<1>0. /\ serve \in [Conns -> {"none", "installed", "replaying", "serving", "ended"}]
      /\ replay \in [Conns -> Seq(Seqs)] /\ toHost \in [Conns -> Seq(Seqs)]
      /\ 0 \notin Conns
    BY DEF StreamInv, StreamTypeOK, Conns
<1>1. c \in dialled
    BY DEF Serve, Install, Snapshot, ReplayOne, ReplayDone, ReadAck, EndServe, ClosedInv, UnusedIsEmpty
<1>2. CASE Install(c)
    <2>1. /\ serve[c] = "none" /\ serve' = [serve EXCEPT ![c] = "installed"] /\ live' = c
          /\ UNCHANGED <<nextSeq, unsent, replay, toHost, hconn, dialled, seen, overtaken>>
        BY <1>2 DEF Install, box, hostState
    <2> QED BY <1>0, <1>1, <2>1 DEF ClosedInv, SeenIsClosed, UnusedIsEmpty, QueueIsClosed,
            Accounted, Numbered
<1>3. CASE Snapshot(c)
    <2> DEFINE lo == Max2(acked, resume[c])  hi == nextSeq - 1
    <2>1. /\ serve[c] = "installed" /\ serve' = [serve EXCEPT ![c] = "replaying"]
          /\ replay' = [replay EXCEPT ![c] = After(lo, hi)]
          /\ UNCHANGED <<nextSeq, unsent, live, toHost, hconn, dialled, seen, overtaken>>
        BY <1>3 DEF Snapshot, hostState, history
    <2>2. lo \in Nat /\ hi \in Nat /\ lo \in seen \cup {0} /\ Numbered = 1..hi
        <3>1. acked \in Nat /\ resume[c] \in Nat /\ hi \in Nat
            BY StreamNumbers
        <3>2. acked \in seen \cup {0} /\ resume[c] \in seen \cup {0}
            BY DEF StreamInv, AckedWasSeen
        <3>3. lo \in Nat
            BY <3>1, Max2Type
        <3>4. lo \in seen \cup {0}
            BY <3>2, Max2Type
        <3> QED BY <3>1, <3>3, <3>4 DEF Numbered
    <2>3. Accounted' = Accounted /\ Numbered' = Numbered
        BY <2>1 DEF Accounted, Numbered
    <2> HIDE DEF lo, hi
    <2>4. 1..lo \subseteq Accounted \cup Queued(toHost[c])
        BY <2>2, UpToSeen DEF ClosedInv
    <2>5. /\ Closed(Accounted \cup Queued(toHost[c]), After(lo, hi))
          /\ 1..hi \subseteq (Accounted \cup Queued(toHost[c])) \cup Queued(After(lo, hi))
        BY <2>2, <2>4, ClosedAfter
    <2>6. SeenIsClosed' /\ UnusedIsEmpty'
        BY <1>0, <1>1, <2>1, <2>3 DEF ClosedInv, SeenIsClosed, UnusedIsEmpty
    <2>7. ASSUME NEW d \in Conns, hconn = d PROVE QueueIsClosed(d)'
        <3>1. CASE d = c
            <4>1. replay'[c] = After(lo, hi)
                BY <1>0, <2>1
            <4>2. Closed(Accounted, toHost[c])
                BY <2>7, <3>1 DEF ClosedInv, QueueIsClosed
            <4> QED BY <2>1, <2>2, <2>3, <2>5, <3>1, <4>1, <4>2 DEF QueueIsClosed
        <3>2. CASE d # c
            <4>1. replay'[d] = replay[d] /\ serve'[d] = serve[d]
                BY <1>0, <2>1, <3>2
            <4>2. QueueIsClosed(d)
                BY <2>7 DEF ClosedInv
            <4> QED BY <2>1, <2>3, <4>1, <4>2 DEF QueueIsClosed
        <3> QED BY <3>1, <3>2
    <2> QED BY <2>1, <2>6, <2>7 DEF ClosedInv
<1>4. CASE ReplayOne(c)
    <2> DEFINE h == Head(replay[c])
    <2>1. /\ serve[c] = "replaying" /\ replay[c] # << >>
          /\ toHost' = [toHost EXCEPT ![c] = Append(toHost[c], h)]
          /\ replay' = [replay EXCEPT ![c] = Tail(replay[c])]
          /\ UNCHANGED <<nextSeq, unsent, live, serve, hconn, dialled, seen, overtaken>>
        BY <1>4 DEF ReplayOne, box, hostState, history
    <2>2. toHost[c] \in Seq(Nat) /\ replay[c] \in Seq(Nat)
        BY StreamNumbers
    <2>3. h \in Nat
        BY <2>1, <2>2, QueueOps
    <2>4. Accounted' = Accounted /\ Numbered' = Numbered
        BY <2>1 DEF Accounted, Numbered
    <2> HIDE DEF h
    <2>5. SeenIsClosed' /\ UnusedIsEmpty'
        BY <1>0, <1>1, <2>1, <2>4 DEF ClosedInv, SeenIsClosed, UnusedIsEmpty
    <2>6. ASSUME NEW d \in Conns, hconn = d PROVE QueueIsClosed(d)'
        <3>0. QueueIsClosed(d)
            BY <2>6 DEF ClosedInv
        <3>1. CASE d = c
            <4>1. replay'[c] = Tail(replay[c]) /\ toHost'[c] = Append(toHost[c], h)
                BY <1>0, <2>1
            <4>2. Closed(Accounted \cup Queued(toHost[c]), replay[c])
                BY <3>0, <3>1 DEF QueueIsClosed
            <4>3. /\ 1..h \subseteq Accounted \cup Queued(toHost[c]) \cup {h}
                  /\ Closed((Accounted \cup Queued(toHost[c])) \cup {h}, Tail(replay[c]))
                  /\ Queued(replay[c]) = {h} \cup Queued(Tail(replay[c]))
                BY <2>1, <2>2, <4>2, ClosedTake DEF h
            <4>4. Closed(Accounted, toHost[c])
                BY <3>0, <3>1 DEF QueueIsClosed
            <4>5. /\ Closed(Accounted, Append(toHost[c], h))
                  /\ Queued(Append(toHost[c], h)) = Queued(toHost[c]) \cup {h}
                BY ONLY <2>2, <2>3, <4>3, <4>4, ClosedAppend
            <4>6. (Accounted \cup Queued(toHost[c])) \cup {h} = Accounted \cup Queued(toHost'[c])
                BY <4>1, <4>5
            <4>7. Closed(Accounted', toHost'[c])
                BY <2>4, <4>1, <4>5
            <4>8. Closed(Accounted' \cup Queued(toHost'[c]), replay'[c])
                BY <2>4, <4>1, <4>3, <4>6
            <4>9. Queued(toHost'[c]) \cup Queued(replay'[c]) = Queued(toHost[c]) \cup Queued(replay[c])
                BY <4>1, <4>3, <4>5
            <4> QED BY <2>1, <2>4, <3>0, <3>1, <4>7, <4>8, <4>9 DEF QueueIsClosed
        <3>2. CASE d # c
            <4>1. replay'[d] = replay[d] /\ toHost'[d] = toHost[d]
                BY <1>0, <2>1, <3>2
            <4> QED BY <2>1, <2>4, <3>0, <4>1 DEF QueueIsClosed
        <3> QED BY <3>1, <3>2
    <2> QED BY <2>1, <2>5, <2>6 DEF ClosedInv
<1>5. CASE ReplayDone(c)
    <2>1. /\ serve[c] = "replaying" /\ serve' = [serve EXCEPT ![c] = "serving"]
          /\ UNCHANGED <<nextSeq, unsent, live, replay, toHost, hconn, dialled, seen, overtaken>>
        BY <1>5 DEF ReplayDone, box, hostState, history
    <2> QED BY <1>0, <1>1, <2>1 DEF ClosedInv, SeenIsClosed, UnusedIsEmpty, QueueIsClosed,
            Accounted, Numbered
<1>6. CASE ReadAck(c)
    <2>1. UNCHANGED <<nextSeq, unsent, live, serve, replay, toHost, hconn, dialled, seen, overtaken>>
        BY <1>6 DEF ReadAck, hostState, history
    <2> QED BY <2>1 DEF ClosedInv, SeenIsClosed, UnusedIsEmpty, QueueIsClosed, Accounted, Numbered
<1>7. CASE EndServe(c)
    <2>1. /\ hconn # c /\ serve' = [serve EXCEPT ![c] = "ended"] /\ live' \in {0, live}
          /\ UNCHANGED <<nextSeq, unsent, replay, toHost, hconn, dialled, seen, overtaken>>
        BY <1>7 DEF EndServe, LiveAfter, box, hostState, history
    <2> QED BY <1>0, <1>1, <2>1 DEF ClosedInv, SeenIsClosed, UnusedIsEmpty, QueueIsClosed,
            Accounted, Numbered
<1> QED BY <1>2, <1>3, <1>4, <1>5, <1>6, <1>7 DEF Serve

LEMMA ClosedHost ==
    ASSUME StreamInv, ClosedInv, NEW c \in Conns, Dial(c) \/ HostRead(c) \/ HostDrop(c)
    PROVE  ClosedInv'
<1>0. toHost \in [Conns -> Seq(Seqs)] /\ 0 \notin Conns
    BY DEF StreamInv, StreamTypeOK, Conns
<1>1. CASE Dial(c)
    <2>1. /\ c \notin dialled /\ hconn' = c /\ dialled' = dialled \cup {c}
          /\ UNCHANGED <<nextSeq, unsent, live, serve, replay, toHost, seen, overtaken>>
        BY <1>1 DEF Dial, box, link, history
    <2>2. live # c /\ toHost[c] = << >> /\ replay[c] = << >>
        BY <1>0, <2>1 DEF ClosedInv, UnusedIsEmpty
    <2>3. QueueIsClosed(c)'
        BY <2>1, <2>2, ClosedEmpty DEF QueueIsClosed
    <2> QED BY <2>1, <2>3 DEF ClosedInv, SeenIsClosed, UnusedIsEmpty, Accounted
<1>2. CASE HostRead(c)
    <2> DEFINE h == Head(toHost[c])
    <2>1. /\ hconn = c /\ toHost[c] # << >> /\ seen' = seen \cup {h}
          /\ toHost' = [toHost EXCEPT ![c] = Tail(toHost[c])]
          /\ hconn' \in {0, hconn}
          /\ UNCHANGED <<nextSeq, unsent, live, serve, replay, dialled, overtaken>>
        BY <1>2 DEF HostRead, box, history
    <2>2. QueueIsClosed(c) /\ toHost[c] \in Seq(Nat)
        BY <2>1, StreamNumbers DEF ClosedInv
    <2>3. /\ 1..h \subseteq Accounted \cup {h}
          /\ Closed(Accounted \cup {h}, Tail(toHost[c]))
          /\ Queued(toHost[c]) = {h} \cup Queued(Tail(toHost[c]))
        BY <2>1, <2>2, ClosedTake DEF QueueIsClosed
    <2> HIDE DEF h
    <2>4. Accounted' = Accounted \cup {h} /\ Numbered' = Numbered
        BY <2>1 DEF Accounted, Numbered
    <2>5. SeenIsClosed'
        BY <2>1, <2>3, <2>4 DEF ClosedInv, SeenIsClosed
    <2>6. UnusedIsEmpty'
        BY <1>0, <2>1 DEF ClosedInv, UnusedIsEmpty
    <2>7. QueueIsClosed(c)'
        <3>1. toHost'[c] = Tail(toHost[c]) /\ replay'[c] = replay[c]
            BY <1>0, <2>1
        <3>2. Accounted' \cup Queued(toHost'[c]) = Accounted \cup Queued(toHost[c])
            BY <2>3, <2>4, <3>1
        <3>3. Closed(Accounted', toHost'[c])
            BY <2>3, <2>4, <3>1
        <3>4. Closed(Accounted' \cup Queued(toHost'[c]), replay'[c])
            BY <2>2, <3>1, <3>2 DEF QueueIsClosed
        <3> QED BY <2>1, <2>2, <2>4, <3>1, <3>2, <3>3, <3>4 DEF QueueIsClosed
    <2> QED BY <1>0, <2>1, <2>5, <2>6, <2>7 DEF ClosedInv
<1>3. CASE HostDrop(c)
    <2>1. /\ hconn' = 0 /\ toHost' = [toHost EXCEPT ![c] = << >>]
          /\ UNCHANGED <<live, serve, replay, dialled, seen, overtaken>>
        BY <1>3 DEF HostDrop, box, history
    <2> QED BY <1>0, <2>1 DEF ClosedInv, SeenIsClosed, UnusedIsEmpty, Accounted
<1> QED BY <1>1, <1>2, <1>3

LEMMA ClosedNext == StreamInv /\ ClosedInv /\ [Next]_vars => ClosedInv'
<1> SUFFICES ASSUME StreamInv, ClosedInv, [Next]_vars PROVE ClosedInv'
    OBVIOUS
<1>1. CASE UNCHANGED vars
    BY <1>1 DEF vars, box, link, hostState, history, ClosedInv, SeenIsClosed, UnusedIsEmpty,
        QueueIsClosed, Accounted, Numbered
<1> QED BY <1>1, ClosedAgent, ClosedServe, ClosedHost DEF Next

\* docs/sandbox-providers.md promises that a host which resumes from its cursor
\* never skips an event.  With any buffer, any number of reattachments and any
\* order of installation there is one way it does: serve_connection publishes the
\* connection before it replays, and emit() sent a later event past the replay.
\* Nothing else that is pruned or resumed past was left out.
THEOREM SkippedWasOvertaken == Spec => []SkipsOnlyOvertaken
<1>1. StreamInv /\ ClosedInv => SkipsOnlyOvertaken
    <2> SUFFICES ASSUME StreamInv, ClosedInv, NEW s \in Seqs, s <= acked \/ s <= cursor
                 PROVE  s \in Accounted
        BY DEF SkipsOnlyOvertaken, Accounted
    <2>1. acked \in seen \cup {0} /\ cursor \in seen \cup {0}
        BY DEF StreamInv, AckedWasSeen
    <2>2. s \in 1..acked \/ s \in 1..cursor
        BY StreamNumbers, StreamConstants DEF Seqs
    <2> QED BY <2>1, <2>2, UpToSeen DEF ClosedInv
<1> QED BY <1>1, ClosedInit, ClosedNext, StreamInvariant, PTL DEF Spec
=============================================================================
