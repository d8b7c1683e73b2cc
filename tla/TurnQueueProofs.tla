--------------------------- MODULE TurnQueueProofs ---------------------------
(***************************************************************************)
(* Proofs about TurnQueue, for any sets of chats, ids, submissions,        *)
(* contents and models, any queue limit and any number of processes unless *)
(* a theorem says otherwise.                                               *)
(***************************************************************************)
EXTENDS TurnQueue, SequenceTheorems, TLAPS

-----------------------------------------------------------------------------
(* Operations on one queue.                                                *)

\* One sequence after another.
LEMMA Joined ==
    ASSUME NEW S, NEW s \in Seq(S), NEW t \in Seq(S), NEW u, u = s \o t
    PROVE  /\ u \in Seq(S)
           /\ Len(u) = Len(s) + Len(t)
           /\ DOMAIN u = 1..(Len(s) + Len(t))
           /\ \A k \in 1..(Len(s) + Len(t)) : u[k] = IF k <= Len(s) THEN s[k] ELSE t[k - Len(s)]
<1>1. /\ s \o t \in Seq(S) /\ Len(s \o t) = Len(s) + Len(t)
      /\ \A k \in 1..(Len(s) + Len(t)) :
             (s \o t)[k] = IF k <= Len(s) THEN s[k] ELSE t[k - Len(s)]
    BY ConcatProperties
<1>2. DOMAIN (s \o t) = 1..Len(s \o t)
    BY <1>1, LenProperties
<1> QED BY <1>1, <1>2

\* Taking out the row at an index.
LEMMA RemoveAtOk ==
    ASSUME NEW S, NEW q \in Seq(S), NEW n \in DOMAIN q
    PROVE  /\ RemoveAt(q, n) \in Seq(S)
           /\ DOMAIN RemoveAt(q, n) = 1..(Len(q) - 1)
           /\ Len(RemoveAt(q, n)) = Len(q) - 1
           /\ \A k \in 1..(Len(q) - 1) :
                  RemoveAt(q, n)[k] = IF k < n THEN q[k] ELSE q[k + 1]
<1>1. /\ Len(q) \in Nat /\ n \in Int /\ n >= 1 /\ n <= Len(q)
      /\ \A k \in 1..Len(q) : q[k] \in S
    BY LenProperties
<1>2. PICK a : a = SubSeq(q, 1, n - 1)
    OBVIOUS
<1>3. PICK b : b = SubSeq(q, n + 1, Len(q))
    OBVIOUS
<1>4. PICK u : u = a \o b
    OBVIOUS
<1>5. a \in Seq(S) /\ Len(a) = n - 1 /\ \A k \in 1..(n - 1) : a[k] = q[k]
    BY <1>1, <1>2, SubSeqProperties
<1>6. b \in Seq(S) /\ Len(b) = Len(q) - n /\ \A k \in 1..(Len(q) - n) : b[k] = q[n + k]
    BY <1>1, <1>3, SubSeqProperties
<1>7. /\ u \in Seq(S) /\ Len(u) = Len(a) + Len(b) /\ DOMAIN u = 1..(Len(a) + Len(b))
      /\ \A k \in 1..(Len(a) + Len(b)) : u[k] = IF k <= Len(a) THEN a[k] ELSE b[k - Len(a)]
    <2>1. a \in Seq(S) /\ b \in Seq(S)
        BY <1>5, <1>6
    <2> QED BY <2>1, <1>4, Joined
<1>8. Len(a) + Len(b) = Len(q) - 1
    BY <1>1, <1>5, <1>6
<1>9. ASSUME NEW k \in 1..(Len(q) - 1)
      PROVE  u[k] = IF k < n THEN q[k] ELSE q[k + 1]
    <2>1. u[k] = IF k <= n - 1 THEN a[k] ELSE b[k - (n - 1)]
        BY <1>5, <1>7, <1>8
    <2>2. k < n => a[k] = q[k]
        BY <1>1, <1>5
    <2>3. k >= n => k - (n - 1) \in 1..(Len(q) - n) /\ n + (k - (n - 1)) = k + 1
        BY <1>1
    <2>4. k >= n => b[k - (n - 1)] = q[k + 1]
        BY <2>3, <1>6
    <2>5. k < n <=> k <= n - 1
        BY <1>1
    <2> QED BY <2>1, <2>2, <2>4, <2>5, <1>1
<1>10. u = RemoveAt(q, n)
    BY <1>2, <1>3, <1>4 DEF RemoveAt
<1> QED BY <1>7, <1>8, <1>9, <1>10

\* Putting a row in at an index.
LEMMA InsertAtOk ==
    ASSUME NEW S, NEW q \in Seq(S), NEW n \in 1..(Len(q) + 1), NEW e \in S
    PROVE  /\ InsertAt(q, n, e) \in Seq(S)
           /\ DOMAIN InsertAt(q, n, e) = 1..(Len(q) + 1)
           /\ \A k \in 1..(Len(q) + 1) :
                  InsertAt(q, n, e)[k] = IF k < n THEN q[k] ELSE IF k = n THEN e ELSE q[k - 1]
<1>1. /\ Len(q) \in Nat /\ n \in Int /\ n >= 1 /\ n <= Len(q) + 1
      /\ \A k \in 1..Len(q) : q[k] \in S
    BY LenProperties
<1>2. PICK a : a = SubSeq(q, 1, n - 1)
    OBVIOUS
<1>3. PICK b : b = SubSeq(q, n, Len(q))
    OBVIOUS
<1>4. PICK m : m = a \o <<e>>
    OBVIOUS
<1>5. PICK u : u = m \o b
    OBVIOUS
<1>6. a \in Seq(S) /\ Len(a) = n - 1 /\ \A k \in 1..(n - 1) : a[k] = q[k]
    BY <1>1, <1>2, SubSeqProperties
<1>7. b \in Seq(S) /\ Len(b) = Len(q) - n + 1 /\ \A k \in 1..(Len(q) - n + 1) : b[k] = q[n + k - 1]
    BY <1>1, <1>3, SubSeqProperties
<1>8. <<e>> \in Seq(S) /\ Len(<<e>>) = 1 /\ <<e>>[1] = e
    OBVIOUS
<1>9. /\ m \in Seq(S) /\ Len(m) = Len(a) + 1
      /\ \A k \in 1..(Len(a) + 1) : m[k] = IF k <= Len(a) THEN a[k] ELSE <<e>>[k - Len(a)]
    BY <1>4, <1>6, <1>8, Joined
<1>10. Len(m) = n /\ m[n] = e /\ \A k \in 1..(n - 1) : m[k] = q[k]
    <2>1. Len(a) + 1 = n
        BY <1>1, <1>6
    <2>2. n \in 1..(Len(a) + 1) /\ ~(n <= Len(a)) /\ n - Len(a) = 1
        BY <2>1, <1>1, <1>6
    <2>3. m[n] = e
        BY <2>2, <1>8, <1>9
    <2>4. \A k \in 1..(n - 1) : k \in 1..(Len(a) + 1) /\ k <= Len(a)
        BY <2>1, <1>1, <1>6
    <2> QED BY <2>1, <2>3, <2>4, <1>6, <1>9
<1>11. /\ u \in Seq(S) /\ DOMAIN u = 1..(Len(m) + Len(b))
       /\ \A k \in 1..(Len(m) + Len(b)) : u[k] = IF k <= Len(m) THEN m[k] ELSE b[k - Len(m)]
    <2>1. m \in Seq(S) /\ b \in Seq(S)
        BY <1>7, <1>9
    <2> QED BY <2>1, <1>5, Joined
<1>12. Len(m) + Len(b) = Len(q) + 1
    BY <1>1, <1>7, <1>10
<1>13. ASSUME NEW k \in 1..(Len(q) + 1)
       PROVE  u[k] = IF k < n THEN q[k] ELSE IF k = n THEN e ELSE q[k - 1]
    <2>1. u[k] = IF k <= n THEN m[k] ELSE b[k - n]
        BY <1>10, <1>11, <1>12
    <2>2. k < n => m[k] = q[k]
        BY <1>1, <1>10
    <2>3. k > n => k - n \in 1..(Len(q) - n + 1) /\ n + (k - n) - 1 = k - 1
        BY <1>1
    <2>4. k > n => b[k - n] = q[k - 1]
        BY <2>3, <1>7
    <2>5. (k < n => k <= n) /\ (k = n => k <= n /\ ~(k < n)) /\ (k < n \/ k = n \/ k > n)
          /\ (k > n => ~(k <= n) /\ ~(k < n) /\ k # n)
        BY <1>1
    <2> QED BY <2>1, <2>2, <2>4, <2>5, <1>10
<1>14. u = InsertAt(q, n, e)
    BY <1>3, <1>2, <1>4, <1>5 DEF InsertAt
<1> QED BY <1>11, <1>12, <1>13, <1>14

-----------------------------------------------------------------------------
(* What an operation keeps of a queue.                                     *)

Sorted(q) == \A j, k \in DOMAIN q : j < k => q[j].position < q[k].position
Distinct(q) == \A j, k \in DOMAIN q : q[j].id = q[k].id => j = k
Good(q) == q \in Seq(Row) /\ Sorted(q) /\ Distinct(q)

\* Every row of new is a row of q, edited or renumbered perhaps.
From(new, q) ==
    \A k \in DOMAIN new : \E j \in DOMAIN q : new[k].id = q[j].id /\ new[k].fp = q[j].fp

\* New has the ids of q.
SameIds(new, q) == \A j : j \in IdsOf(new) <=> j \in IdsOf(q)

\* New is q with one more row.
Extended(new, q, e) ==
    /\ \A j : j \in IdsOf(new) <=> j \in IdsOf(q) \/ j = e.id
    /\ \A k \in DOMAIN new : new[k] = e \/ \E j \in DOMAIN q : new[k] = q[j]

LEMMA RowFields ==
    ASSUME NEW e \in Row
    PROVE  e.id \in Ids /\ e.content \in Contents /\ e.fp \in Contents
           /\ e.position \in Nat /\ e.updated \in Nat
BY DEF Row

\* The rows of a sequence.
LEMMA RowsOf ==
    ASSUME NEW q \in Seq(Row)
    PROVE  /\ Len(q) \in Nat /\ DOMAIN q = 1..Len(q)
           /\ \A k \in DOMAIN q : q[k] \in Row
           /\ \A i : i \in IdsOf(q) <=> \E k \in DOMAIN q : q[k].id = i
BY LenProperties DEF IdsOf

LEMMA PlaceOfOk ==
    ASSUME NEW q, NEW i \in IdsOf(q)
    PROVE  PlaceOf(q, i) \in DOMAIN q /\ q[PlaceOf(q, i)].id = i
BY DEF IdsOf, PlaceOf

\* Taking the head.
LEMMA TailGood ==
    ASSUME NEW q, Good(q), q # << >>
    PROVE  /\ Good(Tail(q)) /\ From(Tail(q), q)
           /\ Head(q) \in Row /\ Head(q) = q[1] /\ 1 \in DOMAIN q
           /\ Head(q).id \notin IdsOf(Tail(q))
           /\ \A i : i \in IdsOf(q) <=> i = Head(q).id \/ i \in IdsOf(Tail(q))
<1>1. q \in Seq(Row) /\ Len(q) \in Nat /\ DOMAIN q = 1..Len(q) /\ Len(q) # 0
    BY RowsOf, EmptySeq DEF Good
<1>2. PICK t : t = Tail(q)
    OBVIOUS
<1>3. t \in Seq(Row) /\ Len(t) = Len(q) - 1 /\ \A k \in 1..Len(t) : t[k] = q[k + 1]
    BY <1>1, <1>2, HeadTailProperties
<1>4. DOMAIN t = 1..(Len(q) - 1) /\ \A k \in DOMAIN t : t[k] = q[k + 1] /\ k + 1 \in DOMAIN q
    BY <1>1, <1>3, LenProperties
<1>5. Head(q) \in Row /\ Head(q) = q[1] /\ 1 \in DOMAIN q
    BY <1>1, HeadTailProperties
<1>6. Sorted(t)
    BY <1>1, <1>4 DEF Good, Sorted
<1>7. Distinct(t)
    BY <1>1, <1>4 DEF Good, Distinct
<1>8. From(t, q)
    BY <1>4 DEF From
<1>9. Head(q).id \notin IdsOf(t)
    <2>1. \A k \in DOMAIN t : q[k + 1].id # q[1].id
        <3> SUFFICES ASSUME NEW k \in DOMAIN t, q[k + 1].id = q[1].id PROVE FALSE
            OBVIOUS
        <3>1. k + 1 = 1
            BY <1>4, <1>5 DEF Good, Distinct
        <3> QED BY <3>1, <1>1, <1>4
    <2>2. \A k \in DOMAIN t : t[k].id # Head(q).id
        BY <2>1, <1>4, <1>5
    <2> QED BY <2>2 DEF IdsOf
<1>10. ASSUME NEW i PROVE i \in IdsOf(q) <=> i = Head(q).id \/ i \in IdsOf(t)
    <2>1. ASSUME i \in IdsOf(q) PROVE i = Head(q).id \/ i \in IdsOf(t)
        <3>1. PICK k \in DOMAIN q : q[k].id = i
            BY <2>1, <1>1, RowsOf
        <3>2. k # 1 => k - 1 \in DOMAIN t /\ (k - 1) + 1 = k
            BY <1>1, <1>4
        <3>3. k # 1 => t[k - 1].id = i
            BY <3>1, <3>2, <1>4
        <3> QED BY <3>1, <3>2, <3>3, <1>3, <1>5, RowsOf
    <2>2. ASSUME i \in IdsOf(t) PROVE i \in IdsOf(q)
        <3>1. PICK k \in DOMAIN t : t[k].id = i
            BY <2>2, <1>3, RowsOf
        <3> QED BY <3>1, <1>1, <1>4, RowsOf
    <2>3. Head(q).id \in IdsOf(q)
        BY <1>1, <1>5, RowsOf
    <2> QED BY <2>1, <2>2, <2>3
<1> QED BY <1>2, <1>3, <1>5, <1>6, <1>7, <1>8, <1>9, <1>10 DEF Good

\* A retraction takes out one row.
LEMMA RemoveGood ==
    ASSUME NEW q, Good(q), NEW i \in IdsOf(q), NEW r, r = RemoveAt(q, PlaceOf(q, i))
    PROVE  /\ Good(r) /\ From(r, q)
           /\ \A j : j \in IdsOf(r) <=> j \in IdsOf(q) /\ j # i
<1>1. q \in Seq(Row) /\ Len(q) \in Nat /\ DOMAIN q = 1..Len(q)
    BY RowsOf DEF Good
<1>2. PICK n \in DOMAIN q : n = PlaceOf(q, i) /\ q[n].id = i
    BY PlaceOfOk
<1>3. /\ r \in Seq(Row) /\ DOMAIN r = 1..(Len(q) - 1)
      /\ \A k \in 1..(Len(q) - 1) : r[k] = IF k < n THEN q[k] ELSE q[k + 1]
    BY <1>1, <1>2, RemoveAtOk
<1> DEFINE src(k) == IF k < n THEN k ELSE k + 1
<1>4. \A k \in DOMAIN r : src(k) \in DOMAIN q /\ src(k) # n /\ r[k] = q[src(k)]
    BY <1>1, <1>2, <1>3
<1>5. \A j, k \in DOMAIN r : (j < k => src(j) < src(k)) /\ (src(j) = src(k) => j = k)
    BY <1>1, <1>2, <1>3
<1>6. ASSUME NEW m \in DOMAIN q, m # n PROVE \E k \in DOMAIN r : src(k) = m
    <2>1. CASE m < n
        <3>1. m \in DOMAIN r /\ src(m) = m
            BY <2>1, <1>1, <1>2, <1>3
        <3> QED BY <3>1
    <2>2. CASE m > n
        <3>1. m - 1 \in DOMAIN r /\ src(m - 1) = m
            BY <2>2, <1>1, <1>2, <1>3
        <3> QED BY <3>1
    <2> QED BY <2>1, <2>2, <1>6, <1>1
<1> HIDE DEF src
<1>7. Sorted(r)
    BY <1>4, <1>5 DEF Good, Sorted
<1>8. Distinct(r)
    BY <1>4, <1>5 DEF Good, Distinct
<1>9. From(r, q)
    BY <1>4 DEF From
<1>10. ASSUME NEW j PROVE j \in IdsOf(r) <=> j \in IdsOf(q) /\ j # i
    <2>1. j \in IdsOf(r) <=> \E k \in DOMAIN r : r[k].id = j
        BY <1>3, RowsOf
    <2>2. j \in IdsOf(q) <=> \E k \in DOMAIN q : q[k].id = j
        BY <1>1, RowsOf
    <2>3. ASSUME NEW k \in DOMAIN r, r[k].id = j PROVE j \in IdsOf(q) /\ j # i
        BY <2>2, <2>3, <1>2, <1>4 DEF Good, Distinct
    <2>4. ASSUME NEW k \in DOMAIN q, q[k].id = j, j # i PROVE j \in IdsOf(r)
        BY <2>1, <2>4, <1>2, <1>4, <1>6
    <2> QED BY <2>1, <2>2, <2>3, <2>4
<1> QED BY <1>3, <1>7, <1>8, <1>9, <1>10 DEF Good

\* An enqueue adds a row behind the others.
LEMMA AppendGood ==
    ASSUME NEW q, Good(q), NEW e \in Row, e.id \notin IdsOf(q), e.position = NextPosition(q),
           NEW a, a = Append(q, e)
    PROVE  Good(a) /\ Extended(a, q, e)
<1>1. q \in Seq(Row) /\ Len(q) \in Nat /\ DOMAIN q = 1..Len(q) /\ \A k \in DOMAIN q : q[k] \in Row
    BY RowsOf DEF Good
<1>2. /\ a \in Seq(Row) /\ Len(a) = Len(q) + 1
      /\ \A k \in 1..Len(q) : a[k] = q[k]
      /\ a[Len(q) + 1] = e
    BY <1>1, AppendProperties
<1>3. DOMAIN a = 1..(Len(q) + 1)
    BY <1>2, LenProperties
<1>4. \A k \in DOMAIN a : (k \in DOMAIN q /\ a[k] = q[k]) \/ (k = Len(q) + 1 /\ a[k] = e)
    BY <1>1, <1>2, <1>3
<1>5. \A k \in DOMAIN q : k \in DOMAIN a /\ k < Len(q) + 1
    BY <1>1, <1>3
<1>6. \A k \in DOMAIN q : q[k].position < e.position
    <2> SUFFICES ASSUME NEW k \in DOMAIN q PROVE q[k].position < e.position
        OBVIOUS
    <2>1. Len(q) \in DOMAIN q /\ q # << >> /\ k <= Len(q)
        BY <1>1, EmptySeq
    <2>2. e.position = q[Len(q)].position + 1
        BY <2>1 DEF NextPosition, Last
    <2>3. q[k].position \in Nat /\ q[Len(q)].position \in Nat
        BY <2>1, <1>1, RowFields
    <2>4. k = Len(q) \/ q[k].position < q[Len(q)].position
        BY <2>1, <1>1 DEF Good, Sorted
    <2> QED BY <2>2, <2>3, <2>4
<1>7. \A k \in DOMAIN q : q[k].id # e.id
    BY <1>1, RowsOf
<1>8. Sorted(a)
    <2> SUFFICES ASSUME NEW j \in DOMAIN a, NEW k \in DOMAIN a, j < k
                 PROVE  a[j].position < a[k].position
        BY DEF Sorted
    <2>1. j \in DOMAIN q /\ a[j] = q[j]
        BY <1>1, <1>2, <1>3
    <2>2. CASE k \in DOMAIN q /\ a[k] = q[k]
        BY <2>1, <2>2 DEF Good, Sorted
    <2>3. CASE a[k] = e
        BY <2>1, <2>3, <1>6
    <2> QED BY <2>2, <2>3, <1>4
<1>9. Distinct(a)
    <2> SUFFICES ASSUME NEW j \in DOMAIN a, NEW k \in DOMAIN a, a[j].id = a[k].id
                 PROVE  j = k
        BY DEF Distinct
    <2>1. CASE j \in DOMAIN q /\ a[j] = q[j] /\ k \in DOMAIN q /\ a[k] = q[k]
        BY <2>1 DEF Good, Distinct
    <2>2. CASE j = Len(q) + 1 /\ a[j] = e /\ k = Len(q) + 1 /\ a[k] = e
        BY <2>2
    <2>3. ~(j \in DOMAIN q /\ a[j] = q[j] /\ a[k] = e) /\ ~(k \in DOMAIN q /\ a[k] = q[k] /\ a[j] = e)
        BY <1>7
    <2> QED BY <2>1, <2>2, <2>3, <1>4
<1>10. ASSUME NEW j PROVE j \in IdsOf(a) <=> j \in IdsOf(q) \/ j = e.id
    <2>1. j \in IdsOf(a) <=> \E k \in DOMAIN a : a[k].id = j
        BY <1>2, RowsOf
    <2>2. j \in IdsOf(q) <=> \E k \in DOMAIN q : q[k].id = j
        BY <1>1, RowsOf
    <2>3. Len(q) + 1 \in DOMAIN a
        BY <1>1, <1>3
    <2>4. ASSUME NEW k \in DOMAIN q, q[k].id = j PROVE j \in IdsOf(a)
        BY <2>1, <2>4, <1>2, <1>1, <1>5
    <2>5. e.id \in IdsOf(a)
        BY <2>3, <1>2, RowsOf
    <2>6. ASSUME NEW k \in DOMAIN a, a[k].id = j PROVE j \in IdsOf(q) \/ j = e.id
        BY <2>2, <2>6, <1>4
    <2> QED BY <2>1, <2>2, <2>4, <2>5, <2>6
<1> QED BY <1>2, <1>4, <1>8, <1>9, <1>10 DEF Good, Extended

\* An edit or a move keeps the rows and their ids, and numbers them anew.
LEMMA MoveGood ==
    ASSUME NEW q, Good(q), NEW i \in IdsOf(q), NEW content \in Contents, NEW time \in Nat,
           NEW target \in 1..Len(q), NEW row, NEW m,
           row = [q[PlaceOf(q, i)] EXCEPT !.content = content, !.updated = time],
           m = Densify(InsertAt(RemoveAt(q, PlaceOf(q, i)), target, row))
    PROVE  Good(m) /\ From(m, q) /\ SameIds(m, q)
<1>1. q \in Seq(Row) /\ Len(q) \in Nat /\ DOMAIN q = 1..Len(q) /\ \A k \in DOMAIN q : q[k] \in Row
    BY RowsOf DEF Good
<1>2. PICK n \in DOMAIN q : n = PlaceOf(q, i) /\ q[n].id = i
    BY PlaceOfOk
<1>3. PICK r : r = RemoveAt(q, n)
    OBVIOUS
<1>4. /\ r \in Seq(Row) /\ DOMAIN r = 1..(Len(q) - 1) /\ Len(r) = Len(q) - 1
      /\ \A k \in 1..(Len(q) - 1) : r[k] = IF k < n THEN q[k] ELSE q[k + 1]
    BY <1>1, <1>2, <1>3, RemoveAtOk
<1>5. row \in Row /\ row.id = i /\ row.fp = q[n].fp
    BY <1>1, <1>2 DEF Row
<1>6. PICK z : z = InsertAt(r, target, row)
    OBVIOUS
<1>7. target \in 1..(Len(r) + 1) /\ Len(r) + 1 = Len(q)
    BY <1>1, <1>4
<1>8. /\ z \in Seq(Row) /\ DOMAIN z = 1..Len(q)
      /\ \A k \in 1..Len(q) :
             z[k] = IF k < target THEN r[k] ELSE IF k = target THEN row ELSE r[k - 1]
    <2>1. /\ z \in Seq(Row) /\ DOMAIN z = 1..(Len(r) + 1)
          /\ \A k \in 1..(Len(r) + 1) :
                 z[k] = IF k < target THEN r[k] ELSE IF k = target THEN row ELSE r[k - 1]
        <3>1. r \in Seq(Row) /\ row \in Row /\ target \in 1..(Len(r) + 1)
            BY <1>4, <1>5, <1>7
        <3>2. /\ InsertAt(r, target, row) \in Seq(Row)
              /\ DOMAIN InsertAt(r, target, row) = 1..(Len(r) + 1)
              /\ \A k \in 1..(Len(r) + 1) : InsertAt(r, target, row)[k] =
                     IF k < target THEN r[k] ELSE IF k = target THEN row ELSE r[k - 1]
            BY ONLY <3>1, InsertAtOk
        <3> QED BY <3>2, <1>6
    <2> QED BY <2>1, <1>7
<1> DEFINE skip(k) == IF k < n THEN k ELSE k + 1
           src(k) == IF k < target THEN skip(k) ELSE IF k = target THEN n ELSE skip(k - 1)
<1>9. target \in Int /\ target >= 1 /\ target <= Len(q) /\ n \in Int /\ n >= 1 /\ n <= Len(q)
    BY <1>1
<1>10. \A k \in DOMAIN q : k # target =>
           IF k < target THEN k \in 1..(Len(q) - 1) ELSE k - 1 \in 1..(Len(q) - 1)
    BY <1>1, <1>9
<1>11. \A k \in 1..(Len(q) - 1) : r[k] = q[skip(k)]
    BY <1>4
<1>12. \A k \in DOMAIN q : src(k) \in DOMAIN q
    BY <1>1, <1>9
<1>13. \A k \in DOMAIN q : z[k].id = q[src(k)].id /\ z[k].fp = q[src(k)].fp /\ z[k] \in Row
    <2> SUFFICES ASSUME NEW k \in DOMAIN q
                 PROVE  z[k].id = q[src(k)].id /\ z[k].fp = q[src(k)].fp /\ z[k] \in Row
        OBVIOUS
    <2>1. CASE k = target
        <3>1. z[k] = row /\ src(k) = n
            BY <2>1, <1>1, <1>8, <1>9
        <3> QED BY <3>1, <1>2, <1>5
    <2>2. CASE k # target
        <3>1. z[k] = q[src(k)]
            BY <2>2, <1>1, <1>8, <1>9, <1>10, <1>11
        <3> QED BY <3>1, <1>1, <1>12
    <2> QED BY <2>1, <2>2
<1>14. \A j, k \in DOMAIN q : src(j) = src(k) => j = k
    BY <1>1, <1>9
<1>15. ASSUME NEW k \in DOMAIN q PROVE \E j \in DOMAIN q : src(j) = k
    <2> DEFINE back == IF k < n THEN k ELSE k - 1
               to == IF k = n THEN target ELSE IF back < target THEN back ELSE back + 1
    <2>1. to \in DOMAIN q /\ src(to) = k
        BY <1>1, <1>9
    <2> QED BY <2>1
<1> HIDE DEF src, skip
<1>16. DOMAIN m = DOMAIN q /\ \A k \in DOMAIN q : m[k] = [z[k] EXCEPT !.position = k - 1]
    BY <1>1, <1>2, <1>3, <1>6, <1>8 DEF Densify
<1>17. \A k \in DOMAIN q : /\ m[k] \in Row /\ m[k].position = k - 1
                           /\ m[k].id = q[src(k)].id /\ m[k].fp = q[src(k)].fp
    <2> SUFFICES ASSUME NEW k \in DOMAIN q
                 PROVE  /\ m[k] \in Row /\ m[k].position = k - 1
                        /\ m[k].id = q[src(k)].id /\ m[k].fp = q[src(k)].fp
        OBVIOUS
    <2>1. k - 1 \in Nat /\ z[k] \in Row /\ m[k] = [z[k] EXCEPT !.position = k - 1]
        BY <1>1, <1>13, <1>16
    <2>2. m[k] \in Row /\ m[k].position = k - 1 /\ m[k].id = z[k].id /\ m[k].fp = z[k].fp
        BY <2>1 DEF Row
    <2> QED BY <2>2, <1>13
<1>18. m \in Seq(Row)
    <2>1. m \in [1..Len(q) -> Row]
        <3>1. m = [k \in DOMAIN z |-> [z[k] EXCEPT !.position = k - 1]]
            BY <1>2, <1>3, <1>6 DEF Densify
        <3> QED BY <3>1, <1>1, <1>8, <1>16, <1>17
    <2> QED BY <2>1, <1>1, SeqDef
<1>19. Sorted(m)
    BY <1>1, <1>16, <1>17 DEF Sorted
<1>20. Distinct(m)
    BY <1>12, <1>14, <1>16, <1>17 DEF Good, Distinct
<1>21. From(m, q)
    BY <1>12, <1>16, <1>17 DEF From
<1>22. ASSUME NEW j PROVE j \in IdsOf(m) <=> j \in IdsOf(q)
    <2>1. j \in IdsOf(m) <=> \E k \in DOMAIN q : q[src(k)].id = j
        <3>1. j \in IdsOf(m) <=> \E k \in DOMAIN m : m[k].id = j
            BY <1>18, RowsOf
        <3> QED BY <3>1, <1>16, <1>17
    <2>2. j \in IdsOf(q) <=> \E k \in DOMAIN q : q[k].id = j
        BY <1>1, RowsOf
    <2> QED BY <2>1, <2>2, <1>12, <1>15
<1> QED BY <1>18, <1>19, <1>20, <1>21, <1>22 DEF Good, SameIds

-----------------------------------------------------------------------------
(* What a step does to the queues: nothing, or one chat loses one row, has *)
(* its rows edited or moved, or gains one row.                             *)

Queued(i) == \E c \in Chats : i \in IdsOf(queue[c])

AllGood ==
    /\ queue \in [Chats -> Seq(Row)]
    /\ \A c \in Chats : Good(queue[c])
    /\ \A c, d \in Chats : \A i : i \in IdsOf(queue[c]) /\ i \in IdsOf(queue[d]) => c = d

Becomes(c, q) == c \in Chats /\ Good(q) /\ queue' = [queue EXCEPT ![c] = q]

Drops(c, i) ==
    \E q : /\ Becomes(c, q) /\ From(q, queue[c]) /\ i \in IdsOf(queue[c])
           /\ \A j : j \in IdsOf(q) <=> j \in IdsOf(queue[c]) /\ j # i

Keeps(c) ==
    \E q : Becomes(c, q) /\ From(q, queue[c]) /\ SameIds(q, queue[c])

Adds(c, e) ==
    ~Queued(e.id) /\ \E q : Becomes(c, q) /\ Extended(q, queue[c], e)

\* QueuedRow finds the rows of the queues.
LEMMA QueuedIff ==
    ASSUME NEW i
    PROVE  /\ QueuedRow(i) = {} <=> ~Queued(i)
           /\ (QueuedRow(i) = {})' <=> ~Queued(i)'
BY DEF QueuedRow, AllRows, Range, Queued, IdsOf

\* The invariant, per queue.
LEMMA OrderIffGood ==
    /\ QueueTypeOK => (OrderInv <=> AllGood)
    /\ QueueTypeOK' => (OrderInv' <=> AllGood')
<1>1. QueueTypeOK => (OrderInv <=> AllGood)
    <2> SUFFICES ASSUME QueueTypeOK PROVE OrderInv <=> AllGood
        OBVIOUS
    <2>1. \A c \in Chats : queue[c] \in Seq(Row) /\ DOMAIN queue[c] \subseteq Int
        BY LenProperties DEF QueueTypeOK
    <2>2. ASSUME OrderInv PROVE AllGood
        <3>1. \A c \in Chats : Sorted(queue[c])
            BY <2>2 DEF OrderInv, OrderIsTotal, Sorted
        <3>2. \A c \in Chats : Distinct(queue[c])
            BY <2>2 DEF OrderInv, IdsAreUnique, Distinct
        <3>3. \A c, d \in Chats : \A i : i \in IdsOf(queue[c]) /\ i \in IdsOf(queue[d]) => c = d
            BY <2>2 DEF OrderInv, IdsAreUnique, IdsOf
        <3> QED BY <2>1, <3>1, <3>2, <3>3 DEF AllGood, Good, QueueTypeOK
    <2>3. ASSUME AllGood PROVE OrderIsTotal
        <3>1. ASSUME NEW c \in Chats, NEW j \in DOMAIN queue[c], NEW k \in DOMAIN queue[c], j < k
              PROVE  queue[c][j].position < queue[c][k].position
                     /\ queue[c][j].id # queue[c][k].id
            <4>1. Sorted(queue[c]) /\ Distinct(queue[c])
                BY <2>3 DEF AllGood, Good
            <4>2. j # k
                BY <2>1, <3>1
            <4> QED BY <4>1, <4>2, <3>1 DEF Sorted, Distinct
        <3> QED BY <3>1 DEF OrderIsTotal
    <2>4. ASSUME AllGood PROVE IdsAreUnique
        <3>1. ASSUME NEW c \in Chats, NEW d \in Chats,
                     NEW j \in DOMAIN queue[c], NEW k \in DOMAIN queue[d],
                     queue[c][j].id = queue[d][k].id
              PROVE  c = d /\ j = k
            <4>1. queue[c][j].id \in IdsOf(queue[c]) /\ queue[d][k].id \in IdsOf(queue[d])
                BY DEF IdsOf
            <4>2. c = d
                BY <2>4, <3>1, <4>1 DEF AllGood
            <4>3. Distinct(queue[c])
                BY <2>4 DEF AllGood, Good
            <4> QED BY <4>2, <4>3, <3>1 DEF Distinct
        <3> QED BY <3>1 DEF IdsAreUnique
    <2> QED BY <2>2, <2>3, <2>4 DEF OrderInv
<1>2. QueueTypeOK' => (OrderInv' <=> AllGood')
    <2> SUFFICES ASSUME QueueTypeOK' PROVE OrderInv' <=> AllGood'
        OBVIOUS
    <2>1. \A c \in Chats : queue'[c] \in Seq(Row) /\ DOMAIN queue'[c] \subseteq Int
        BY LenProperties DEF QueueTypeOK
    <2>2. ASSUME OrderInv' PROVE AllGood'
        <3>1. \A c \in Chats : Sorted(queue'[c])
            BY <2>2 DEF OrderInv, OrderIsTotal, Sorted
        <3>2. \A c \in Chats : Distinct(queue'[c])
            BY <2>2 DEF OrderInv, IdsAreUnique, Distinct
        <3>3. \A c, d \in Chats : \A i : i \in IdsOf(queue'[c]) /\ i \in IdsOf(queue'[d]) => c = d
            BY <2>2 DEF OrderInv, IdsAreUnique, IdsOf
        <3> QED BY <2>1, <3>1, <3>2, <3>3 DEF AllGood, Good, QueueTypeOK
    <2>3. ASSUME AllGood' PROVE OrderIsTotal'
        <3>1. ASSUME NEW c \in Chats, NEW j \in DOMAIN queue'[c], NEW k \in DOMAIN queue'[c], j < k
              PROVE  queue'[c][j].position < queue'[c][k].position
                     /\ queue'[c][j].id # queue'[c][k].id
            <4>1. Sorted(queue'[c]) /\ Distinct(queue'[c])
                BY <2>3 DEF AllGood, Good
            <4>2. j # k
                BY <2>1, <3>1
            <4> QED BY <4>1, <4>2, <3>1 DEF Sorted, Distinct
        <3> QED BY <3>1 DEF OrderIsTotal
    <2>4. ASSUME AllGood' PROVE IdsAreUnique'
        <3>1. ASSUME NEW c \in Chats, NEW d \in Chats,
                     NEW j \in DOMAIN queue'[c], NEW k \in DOMAIN queue'[d],
                     queue'[c][j].id = queue'[d][k].id
              PROVE  c = d /\ j = k
            <4>1. queue'[c][j].id \in IdsOf(queue'[c]) /\ queue'[d][k].id \in IdsOf(queue'[d])
                BY DEF IdsOf
            <4>2. c = d
                BY <2>4, <3>1, <4>1 DEF AllGood
            <4>3. Distinct(queue'[c])
                BY <2>4 DEF AllGood, Good
            <4> QED BY <4>2, <4>3, <3>1 DEF Distinct
        <3> QED BY <3>1 DEF IdsAreUnique
    <2> QED BY <2>2, <2>3, <2>4 DEF OrderInv
<1> QED BY <1>1, <1>2

LEMMA BecomesOk ==
    ASSUME AllGood, NEW c, NEW q, Becomes(c, q)
    PROVE  /\ c \in Chats /\ queue'[c] = q /\ \A d \in Chats : d # c => queue'[d] = queue[d]
           /\ queue' \in [Chats -> Seq(Row)] /\ \A d \in Chats : Good(queue'[d])
<1>1. q \in Seq(Row) /\ queue \in [Chats -> Seq(Row)]
    BY DEF Becomes, Good, AllGood
<1>2. c \in Chats /\ queue'[c] = q /\ \A d \in Chats : d # c => queue'[d] = queue[d]
    BY <1>1 DEF Becomes
<1>3. queue' \in [Chats -> Seq(Row)]
    BY <1>1 DEF Becomes
<1>4. \A d \in Chats : Good(queue'[d])
    <2> SUFFICES ASSUME NEW d \in Chats PROVE Good(queue'[d])
        OBVIOUS
    <2>1. CASE d = c
        BY <2>1, <1>2 DEF Becomes
    <2>2. CASE d # c
        <3>1. queue'[d] = queue[d]
            BY <2>2, <1>2
        <3> QED BY <3>1 DEF AllGood
    <2> QED BY <2>1, <2>2
<1> QED BY <1>2, <1>3, <1>4

LEMMA DropsOk ==
    ASSUME AllGood, NEW c, NEW i, Drops(c, i)
    PROVE  AllGood' /\ Queued(i) /\ \A j : Queued(j)' <=> Queued(j) /\ j # i
<1>1. PICK q : /\ Becomes(c, q) /\ i \in IdsOf(queue[c])
               /\ \A j : j \in IdsOf(q) <=> j \in IdsOf(queue[c]) /\ j # i
    BY DEF Drops
<1>2. /\ c \in Chats /\ queue'[c] = q /\ \A d \in Chats : d # c => queue'[d] = queue[d]
      /\ queue' \in [Chats -> Seq(Row)] /\ \A d \in Chats : Good(queue'[d])
    BY <1>1, BecomesOk
<1>3. \A d \in Chats : \A j : j \in IdsOf(queue'[d]) => j \in IdsOf(queue[d]) /\ j # i
    <2> SUFFICES ASSUME NEW d \in Chats, NEW j, j \in IdsOf(queue'[d])
                 PROVE  j \in IdsOf(queue[d]) /\ j # i
        OBVIOUS
    <2>1. CASE d = c
        BY <2>1, <1>1, <1>2
    <2>2. CASE d # c
        <3>1. j \in IdsOf(queue[d])
            BY <2>2, <1>2
        <3> QED BY <2>2, <3>1, <1>1, <1>2 DEF AllGood
    <2> QED BY <2>1, <2>2
<1>4. \A d \in Chats : \A j : j \in IdsOf(queue[d]) /\ j # i => j \in IdsOf(queue'[d])
    <2> SUFFICES ASSUME NEW d \in Chats, NEW j, j \in IdsOf(queue[d]), j # i
                 PROVE  j \in IdsOf(queue'[d])
        OBVIOUS
    <2>1. CASE d = c
        BY <2>1, <1>1, <1>2
    <2>2. CASE d # c
        BY <2>2, <1>2
    <2> QED BY <2>1, <2>2
<1>5. AllGood'
    BY <1>2, <1>3 DEF AllGood
<1> QED BY <1>1, <1>2, <1>3, <1>4, <1>5 DEF Queued

LEMMA KeepsOk ==
    ASSUME AllGood, NEW c, Keeps(c)
    PROVE  AllGood' /\ \A j : Queued(j)' <=> Queued(j)
<1>1. PICK q : Becomes(c, q) /\ \A j : j \in IdsOf(q) <=> j \in IdsOf(queue[c])
    BY DEF Keeps, SameIds
<1>2. /\ c \in Chats /\ queue'[c] = q /\ \A d \in Chats : d # c => queue'[d] = queue[d]
      /\ queue' \in [Chats -> Seq(Row)] /\ \A d \in Chats : Good(queue'[d])
    BY <1>1, BecomesOk
<1>3. \A d \in Chats : \A j : j \in IdsOf(queue'[d]) <=> j \in IdsOf(queue[d])
    <2> SUFFICES ASSUME NEW d \in Chats, NEW j
                 PROVE  j \in IdsOf(queue'[d]) <=> j \in IdsOf(queue[d])
        OBVIOUS
    <2>1. CASE d = c
        BY <2>1, <1>1, <1>2
    <2>2. CASE d # c
        BY <2>2, <1>2
    <2> QED BY <2>1, <2>2
<1>4. AllGood'
    BY <1>2, <1>3 DEF AllGood
<1> QED BY <1>3, <1>4 DEF Queued

LEMMA AddsOk ==
    ASSUME AllGood, NEW c, NEW e, Adds(c, e)
    PROVE  AllGood' /\ ~Queued(e.id) /\ \A j : Queued(j)' <=> Queued(j) \/ j = e.id
<1>1. PICK q : Becomes(c, q) /\ ~Queued(e.id)
               /\ \A j : j \in IdsOf(q) <=> j \in IdsOf(queue[c]) \/ j = e.id
    BY DEF Adds, Extended
<1>2. /\ c \in Chats /\ queue'[c] = q /\ \A d \in Chats : d # c => queue'[d] = queue[d]
      /\ queue' \in [Chats -> Seq(Row)] /\ \A d \in Chats : Good(queue'[d])
    BY <1>1, BecomesOk
<1>3. \A d \in Chats : \A j :
          j \in IdsOf(queue'[d]) <=> j \in IdsOf(queue[d]) \/ (d = c /\ j = e.id)
    <2> SUFFICES ASSUME NEW d \in Chats, NEW j
                 PROVE  j \in IdsOf(queue'[d]) <=> j \in IdsOf(queue[d]) \/ (d = c /\ j = e.id)
        OBVIOUS
    <2>1. CASE d = c
        BY <2>1, <1>1, <1>2
    <2>2. CASE d # c
        BY <2>2, <1>2
    <2> QED BY <2>1, <2>2
<1>4. \A d \in Chats : e.id \notin IdsOf(queue[d])
    BY <1>1 DEF Queued
<1>5. AllGood'
    <2>1. ASSUME NEW d1 \in Chats, NEW d2 \in Chats, NEW j,
                 j \in IdsOf(queue'[d1]), j \in IdsOf(queue'[d2])
          PROVE  d1 = d2
        <3>1. CASE j = e.id
            BY <2>1, <3>1, <1>3, <1>4
        <3>2. CASE j # e.id
            BY <2>1, <3>2, <1>3 DEF AllGood
        <3> QED BY <3>1, <3>2
    <2> QED BY <2>1, <1>2 DEF AllGood
<1> QED BY <1>1, <1>2, <1>3, <1>5 DEF Queued

-----------------------------------------------------------------------------
(* The effect of each operation that writes a queue.                       *)

\* The row enqueue_turn_inner inserts for a submission.
Fresh(r) ==
    [id |-> req[r].id, content |-> req[r].content, fp |-> req[r].content,
     position |-> NextPosition(queue[req[r].chat]), updated |-> clock + 1]

LEMMA ReqFields ==
    ASSUME QueueTypeOK, NEW r \in Reqs
    PROVE  /\ req[r] \in ReqState
           /\ req[r].pc \in ReqPc /\ req[r].id \in Ids /\ req[r].chat \in Chats
           /\ req[r].content \in Contents /\ req[r].queue \in BOOLEAN /\ req[r].proc \in Procs
           /\ req[r].model \in Models \cup {NoModel} /\ req[r].answer \in Answer
<1>1. req[r] \in ReqState
    BY DEF QueueTypeOK
<1> QED BY <1>1 DEF ReqState

LEMMA PromFields ==
    ASSUME QueueTypeOK, NEW p \in Procs
    PROVE  /\ prom[p] \in PromState
           /\ prom[p].pc \in {"idle", "list", "prepare", "promote", "drop"} /\ prom[p].chat \in Chats
           /\ prom[p].snap \in Row \cup {NoTurn} /\ prom[p].model \in Models \cup {NoModel}
           /\ prom[p].pc \in {"prepare", "promote", "drop"} => prom[p].snap \in Row
<1>1. prom[p] \in PromState /\ (prom[p].pc \in {"prepare", "promote", "drop"} => prom[p].snap # NoTurn)
    BY DEF QueueTypeOK
<1> QED BY <1>1 DEF PromState

LEMMA NextPositionType ==
    ASSUME NEW q \in Seq(Row)
    PROVE  NextPosition(q) \in Nat
<1>1. CASE q = << >>
    BY <1>1 DEF NextPosition
<1>2. CASE q # << >>
    <2>1. Len(q) \in DOMAIN q
        BY <1>2, EmptySeq, LenProperties
    <2>2. q[Len(q)].position \in Nat
        BY <2>1, RowsOf, RowFields
    <2> QED BY <1>2, <2>2 DEF NextPosition, Last
<1> QED BY <1>1, <1>2

\* An enqueue adds the submission's row, or leaves the queues alone.
LEMMA EnqueueEffect ==
    ASSUME QueueTypeOK, AllGood, NEW r \in Reqs, Enqueue(r)
    PROVE  \/ queue' = queue /\ gone' = gone /\ clock' = clock
           \/ /\ Adds(req[r].chat, Fresh(r)) /\ Fresh(r) \in Row /\ Fresh(r).id = req[r].id
              /\ gone' = gone \ {req[r].id} /\ clock' \in 0..MaxClock
<1> DEFINE c == req[r].chat
           q == queue[c]
<1> SUFFICES ASSUME ~(queue' = queue /\ gone' = gone /\ clock' = clock)
             PROVE  /\ Adds(c, Fresh(r)) /\ Fresh(r) \in Row /\ Fresh(r).id = req[r].id
                    /\ gone' = gone \ {req[r].id} /\ clock' \in 0..MaxClock
    OBVIOUS
<1>1. /\ QueuedRow(req[r].id) = {} /\ clock < MaxClock /\ clock' = clock + 1
      /\ queue' = [queue EXCEPT ![c] = Append(q, Fresh(r))]
      /\ gone' = gone \ {req[r].id}
    BY DEF Enqueue, Fresh
<1>2. c \in Chats /\ q \in Seq(Row) /\ Good(q) /\ clock \in Nat /\ clock' \in 0..MaxClock
    BY <1>1, ReqFields, QueueAssumption DEF AllGood, QueueTypeOK
<1>3. Fresh(r) \in Row /\ Fresh(r).id = req[r].id /\ Fresh(r).position = NextPosition(q)
    <2>1. NextPosition(q) \in Nat
        BY <1>2, NextPositionType
    <2>2. req[r].id \in Ids /\ req[r].content \in Contents /\ clock + 1 \in Nat
        BY <1>2, ReqFields
    <2> QED BY <2>1, <2>2 DEF Fresh, Row
<1>4. ~Queued(Fresh(r).id) /\ Fresh(r).id \notin IdsOf(q)
    BY <1>1, <1>2, <1>3, QueuedIff DEF Queued
<1>5. Good(Append(q, Fresh(r))) /\ Extended(Append(q, Fresh(r)), q, Fresh(r))
    BY <1>2, <1>3, <1>4, AppendGood
<1>6. Becomes(c, Append(q, Fresh(r)))
    BY <1>1, <1>2, <1>5 DEF Becomes
<1>7. Adds(c, Fresh(r))
    BY <1>4, <1>5, <1>6 DEF Adds
<1> QED BY <1>1, <1>2, <1>3, <1>7

\* An edit or a move keeps the rows.
LEMMA UpdateEffect ==
    ASSUME QueueTypeOK, AllGood, NEW c \in Chats, NEW i \in Ids, NEW content \in Contents,
           NEW target \in 1..MaxPerChat, target <= Len(queue[c]), UpdateQueued(c, i, content, target)
    PROVE  Keeps(c) /\ clock' \in 0..MaxClock
<1> DEFINE q == queue[c]
           row == [q[PlaceOf(q, i)] EXCEPT !.content = content, !.updated = clock']
           m == Densify(InsertAt(RemoveAt(q, PlaceOf(q, i)), target, row))
<1>1. /\ i \in IdsOf(q) /\ clock < MaxClock /\ clock' = clock + 1
      /\ queue' = [queue EXCEPT ![c] = m]
    BY DEF UpdateQueued
<1>2. Good(q) /\ clock' \in Nat /\ clock' \in 0..MaxClock /\ Len(q) \in Nat /\ target \in 1..Len(q)
    BY <1>1, QueueAssumption, LenProperties DEF AllGood, QueueTypeOK
<1>3. Good(m) /\ From(m, q) /\ SameIds(m, q)
    BY <1>1, <1>2, MoveGood
<1> HIDE DEF m
<1>4. Becomes(c, m)
    BY <1>1, <1>3 DEF Becomes
<1> QED BY <1>2, <1>3, <1>4 DEF Keeps

\* A retraction takes out the row of its id.
LEMMA DeleteEffect ==
    ASSUME QueueTypeOK, AllGood, NEW c \in Chats, NEW i \in Ids, DeleteQueued(c, i)
    PROVE  Drops(c, i) /\ gone' = gone \cup {i}
<1> DEFINE q == queue[c]
           m == RemoveAt(q, PlaceOf(q, i))
<1>1. i \in IdsOf(q) /\ queue' = [queue EXCEPT ![c] = m] /\ gone' = gone \cup {i}
    BY DEF DeleteQueued
<1>2. Good(q)
    BY DEF AllGood
<1>3. Good(m) /\ From(m, q) /\ \A j : j \in IdsOf(m) <=> j \in IdsOf(q) /\ j # i
    BY <1>1, <1>2, RemoveGood
<1> HIDE DEF m
<1>4. Becomes(c, m)
    BY <1>1, <1>3 DEF Becomes
<1> QED BY <1>1, <1>3, <1>4 DEF Drops

\* Consuming the head takes out the row of its id.
LEMMA HeadEffect ==
    ASSUME AllGood, NEW c \in Chats, queue[c] # << >>,
           queue' = [queue EXCEPT ![c] = Tail(queue[c])]
    PROVE  Drops(c, Head(queue[c]).id) /\ Head(queue[c]) \in Row
<1>1. Good(queue[c])
    BY DEF AllGood
<1>2. /\ Good(Tail(queue[c])) /\ From(Tail(queue[c]), queue[c])
      /\ Head(queue[c]) \in Row
      /\ Head(queue[c]).id \notin IdsOf(Tail(queue[c]))
      /\ \A i : i \in IdsOf(queue[c]) <=> i = Head(queue[c]).id \/ i \in IdsOf(Tail(queue[c]))
    BY <1>1, TailGood
<1>3. Becomes(c, Tail(queue[c]))
    BY <1>2 DEF Becomes
<1> QED BY <1>2, <1>3 DEF Drops

-----------------------------------------------------------------------------
(* The effect of each step on the submissions and on the promoters.        *)

\* Submission r is now at pc, answered a, with model m; nothing else moves.
ReqMoves(r, pc, a, m) ==
    /\ req' \in [Reqs -> ReqState]
    /\ \A s \in Reqs : s # r => req'[s] = req[s]
    /\ \A s \in Reqs : /\ req'[s].id = req[s].id /\ req'[s].chat = req[s].chat
                       /\ req'[s].content = req[s].content /\ req'[s].proc = req[s].proc
    /\ req'[r].pc = pc /\ req'[r].answer = a /\ req'[r].model = m

PromMoves(p, pc, c, snap, m) ==
    /\ prom' \in [Procs -> PromState]
    /\ \A o \in Procs : o # p => prom'[o] = prom[o]
    /\ prom'[p].pc = pc /\ prom'[p].chat = c /\ prom'[p].snap = snap /\ prom'[p].model = m

LEMMA ReqBecomes ==
    ASSUME QueueTypeOK, NEW r \in Reqs, NEW n \in ReqState, req' = [req EXCEPT ![r] = n],
           n.id = req[r].id, n.chat = req[r].chat, n.content = req[r].content, n.proc = req[r].proc
    PROVE  ReqMoves(r, n.pc, n.answer, n.model)
<1>1. req \in [Reqs -> ReqState]
    BY DEF QueueTypeOK
<1>2. req' \in [Reqs -> ReqState] /\ req'[r] = n /\ \A s \in Reqs : s # r => req'[s] = req[s]
    BY <1>1
<1>3. \A s \in Reqs : /\ req'[s].id = req[s].id /\ req'[s].chat = req[s].chat
                      /\ req'[s].content = req[s].content /\ req'[s].proc = req[s].proc
    BY <1>2
<1> QED BY <1>2, <1>3 DEF ReqMoves

LEMMA GotoMoves ==
    ASSUME QueueTypeOK, NEW r \in Reqs, NEW pc \in ReqPc, Goto(r, pc)
    PROVE  ReqMoves(r, pc, req[r].answer, req[r].model)
<1>1. PICK n : n = [req[r] EXCEPT !.pc = pc]
    OBVIOUS
<1>2. n \in ReqState /\ n.id = req[r].id /\ n.chat = req[r].chat /\ n.content = req[r].content
      /\ n.proc = req[r].proc /\ n.pc = pc /\ n.answer = req[r].answer /\ n.model = req[r].model
    BY <1>1, ReqFields DEF ReqState
<1>3. req' = [req EXCEPT ![r] = n]
    BY <1>1 DEF Goto, QueueTypeOK
<1> QED BY <1>2, <1>3, ReqBecomes

LEMMA ReplyMoves ==
    ASSUME QueueTypeOK, NEW r \in Reqs, NEW a \in Answer, Reply(r, a)
    PROVE  ReqMoves(r, "done", a, req[r].model)
<1>1. PICK n : n = [req[r] EXCEPT !.pc = "done", !.answer = a]
    OBVIOUS
<1>2. n \in ReqState /\ n.id = req[r].id /\ n.chat = req[r].chat /\ n.content = req[r].content
      /\ n.proc = req[r].proc /\ n.pc = "done" /\ n.answer = a /\ n.model = req[r].model
    BY <1>1, ReqFields DEF ReqState, ReqPc
<1>3. req' = [req EXCEPT ![r] = n]
    BY <1>1 DEF Reply, QueueTypeOK
<1> QED BY <1>2, <1>3, ReqBecomes

LEMMA PromBecomes ==
    ASSUME QueueTypeOK, NEW p \in Procs, NEW n \in PromState, prom' = [prom EXCEPT ![p] = n]
    PROVE  PromMoves(p, n.pc, n.chat, n.snap, n.model)
<1>1. prom \in [Procs -> PromState]
    BY DEF QueueTypeOK
<1>2. prom' \in [Procs -> PromState] /\ prom'[p] = n /\ \A o \in Procs : o # p => prom'[o] = prom[o]
    BY <1>1
<1> QED BY <1>2 DEF PromMoves

LEMMA IdleMoves ==
    ASSUME QueueTypeOK, NEW p \in Procs, Idle(p)
    PROVE  PromMoves(p, "idle", prom[p].chat, NoTurn, NoModel)
<1>1. PICK n : n = [prom[p] EXCEPT !.pc = "idle", !.snap = NoTurn, !.model = NoModel]
    OBVIOUS
<1>2. n \in PromState /\ n.pc = "idle" /\ n.chat = prom[p].chat /\ n.snap = NoTurn /\ n.model = NoModel
    BY <1>1, PromFields DEF PromState
<1>3. prom' = [prom EXCEPT ![p] = n]
    BY <1>1 DEF Idle, QueueTypeOK
<1> QED BY <1>2, <1>3, PromBecomes

\* A sweep comes to a chat, and passes over a paused one.
LEMMA SweepChatMoves ==
    ASSUME QueueTypeOK, NEW p \in Procs, NEW c \in Chats, SweepChat(p, c)
    PROVE  prom' = prom \/ PromMoves(p, "list", c, prom[p].snap, prom[p].model)
<1> SUFFICES ASSUME ~paused[c]
             PROVE  PromMoves(p, "list", c, prom[p].snap, prom[p].model)
    BY DEF SweepChat
<1>1. PICK n : n = [prom[p] EXCEPT !.pc = "list", !.chat = c]
    OBVIOUS
<1>2. n \in PromState /\ n.pc = "list" /\ n.chat = c /\ n.snap = prom[p].snap /\ n.model = prom[p].model
    BY <1>1, PromFields DEF PromState
<1>3. prom' = [prom EXCEPT ![p] = n]
    BY <1>1 DEF SweepChat, QueueTypeOK
<1> QED BY <1>2, <1>3, PromBecomes

\* The head is read, or the queue was empty.
LEMMA SweepListMoves ==
    ASSUME QueueTypeOK, NEW p \in Procs, SweepList(p)
    PROVE  \/ PromMoves(p, "idle", prom[p].chat, NoTurn, NoModel)
           \/ /\ Head(queue[prom[p].chat]) \in Row
              /\ PromMoves(p, "prepare", prom[p].chat, Head(queue[prom[p].chat]), prom[p].model)
<1> DEFINE q == queue[prom[p].chat]
<1>1. CASE q = << >>
    BY <1>1, IdleMoves DEF SweepList
<1>2. CASE q # << >>
    <2>1. q \in Seq(Row) /\ Head(q) \in Row
        BY <1>2, PromFields, HeadTailProperties DEF QueueTypeOK
    <2>2. PICK n : n = [prom[p] EXCEPT !.pc = "prepare", !.snap = Head(q)]
        OBVIOUS
    <2>3. n \in PromState /\ n.pc = "prepare" /\ n.chat = prom[p].chat /\ n.snap = Head(q)
          /\ n.model = prom[p].model
        <3> HIDE DEF q
        <3>1. Head(q) \in Row \cup {NoTurn}
            BY <2>1
        <3> QED BY <3>1, <2>2, PromFields DEF PromState
    <2>4. prom' = [prom EXCEPT ![p] = n]
        BY <1>2, <2>2 DEF SweepList, QueueTypeOK
    <2> QED BY <2>1, <2>3, <2>4, PromBecomes
<1> QED BY <1>1, <1>2

\* What a snapshot needs is resolved.
LEMMA SweepPrepareMoves ==
    ASSUME QueueTypeOK, NEW p \in Procs, SweepPrepare(p)
    PROVE  LET c == prom[p].chat  t == turn[prom[p].snap.id] IN
           \/ PromMoves(p, "idle", c, NoTurn, NoModel)
           \/ PromMoves(p, "drop", c, prom[p].snap, prom[p].model)
           \/ /\ SweepModel(t, c) \in Models /\ (t # NoTurn => t.chat = c)
              /\ \/ PromMoves(p, "drop", c, prom[p].snap, SweepModel(t, c))
                 \/ PromMoves(p, "promote", c, prom[p].snap, SweepModel(t, c))
<1> DEFINE c == prom[p].chat
           t == turn[prom[p].snap.id]
           m == SweepModel(t, c)
           pc == IF Unrunnable(prom[p].snap.content) THEN "drop" ELSE "promote"
<1>1. prom[p].pc = "prepare" /\ prom[p].snap \in Row /\ prom[p].snap # NoTurn
      /\ prom[p].snap.id \in Ids /\ c \in Chats
    BY PromFields, RowFields, QueueAssumption DEF SweepPrepare
<1>2. CASE t # NoTurn /\ t.chat # c
    <2>1. PICK n : n = [prom[p] EXCEPT !.pc = "drop"]
        OBVIOUS
    <2>2. n \in PromState /\ n.pc = "drop" /\ n.chat = c /\ n.snap = prom[p].snap /\ n.model = prom[p].model
        BY <2>1, PromFields DEF PromState
    <2>3. prom' = [prom EXCEPT ![p] = n]
        BY <1>2, <2>1 DEF SweepPrepare, QueueTypeOK
    <2>4. PromMoves(p, "drop", c, prom[p].snap, prom[p].model)
        BY <2>2, <2>3, PromBecomes
    <2> QED BY <2>4
<1>3. CASE t = NoTurn /\ model[c] = NoModel
    BY <1>3, IdleMoves DEF SweepPrepare
<1>4. CASE (t # NoTurn /\ t.chat = c) \/ (t = NoTurn /\ model[c] # NoModel)
    <2>1. m \in Models
        <3>1. t # NoTurn => t.model \in Models
            BY <1>1 DEF QueueTypeOK, Turn
        <3>2. t = NoTurn => model[c] \in Models
            BY <1>1, <1>4 DEF QueueTypeOK
        <3> QED BY <3>1, <3>2 DEF SweepModel
    <2>2. PICK n : n = [prom[p] EXCEPT !.pc = pc, !.model = m]
        OBVIOUS
    <2>3. n \in PromState /\ n.pc = pc /\ n.chat = c /\ n.snap = prom[p].snap /\ n.model = m
        <3> HIDE DEF m
        <3> QED BY <2>1, <2>2, PromFields DEF PromState
    <2>4. prom' = [prom EXCEPT ![p] = n]
        BY <1>4, <2>2 DEF SweepPrepare, QueueTypeOK
    <2>5. PromMoves(p, pc, c, prom[p].snap, m)
        BY <2>3, <2>4, PromBecomes
    <2> QED BY <2>1, <2>5, <1>4
<1> QED BY <1>2, <1>3, <1>4

LEMMA BeginTurnMoves ==
    ASSUME QueueTypeOK, NEW r \in Reqs, BeginTurn(r)
    PROVE  LET s == req[r]  t == turn[s.id] IN
           \/ t = NoTurn /\ ReqMoves(r, "begin2", s.answer, s.model)
           \/ t # NoTurn /\ ReqMoves(r, "done", "accepted", s.model)
           \/ /\ t # NoTurn /\ ~(t.chat = s.chat /\ t.content = s.content)
              /\ ReqMoves(r, "done", "conflict", s.model)
<1> DEFINE s == req[r]
           t == turn[s.id]
<1>1. "begin2" \in ReqPc /\ "accepted" \in Answer /\ "conflict" \in Answer
    BY DEF ReqPc, Answer
<1>2. CASE t = NoTurn
    <2>1. Goto(r, "begin2")
        BY <1>2 DEF BeginTurn
    <2> QED BY <2>1, <1>1, <1>2, GotoMoves
<1>3. CASE t # NoTurn /\ t.chat = s.chat /\ t.content = s.content
    <2>1. Reply(r, "accepted")
        BY <1>3 DEF BeginTurn
    <2> QED BY <2>1, <1>1, <1>3, ReplyMoves
<1>4. CASE t # NoTurn /\ ~(t.chat = s.chat /\ t.content = s.content)
    <2>1. Reply(r, "conflict")
        BY <1>4 DEF BeginTurn
    <2> QED BY <2>1, <1>1, <1>4, ReplyMoves
<1> QED BY <1>2, <1>3, <1>4

LEMMA BeginQueueMoves ==
    ASSUME QueueTypeOK, NEW r \in Reqs, BeginQueue(r)
    PROVE  LET s == req[r] IN
           \/ ~Queued(s.id) /\ ReqMoves(r, "prepare", s.answer, s.model)
           \/ Queued(s.id) /\ ReqMoves(r, "done", "queued", s.model)
           \/ /\ Queued(s.id) /\ ~(\E q \in Range(queue[s.chat]) : q.id = s.id /\ q.fp = s.content)
              /\ ReqMoves(r, "done", "conflict", s.model)
<1> DEFINE s == req[r]
           same == \E q \in Range(queue[s.chat]) : q.id = s.id /\ q.fp = s.content
<1>1. "prepare" \in ReqPc /\ "queued" \in Answer /\ "conflict" \in Answer
    BY DEF ReqPc, Answer
<1>2. CASE ~Queued(s.id)
    <2>1. Goto(r, "prepare")
        BY <1>2, QueuedIff DEF BeginQueue
    <2> QED BY <2>1, <1>1, <1>2, GotoMoves
<1>3. CASE Queued(s.id) /\ same
    <2>1. Reply(r, "queued")
        BY <1>3, QueuedIff DEF BeginQueue
    <2>2. ReqMoves(r, "done", "queued", s.model)
        BY <2>1, <1>1, ReplyMoves
    <2> QED BY <2>2, <1>3
<1>4. CASE Queued(s.id) /\ ~same
    <2>1. Reply(r, "conflict")
        BY <1>4, QueuedIff DEF BeginQueue
    <2>2. ReqMoves(r, "done", "conflict", s.model)
        BY <2>1, <1>1, ReplyMoves
    <2> QED BY <2>2, <1>4
<1> QED BY <1>2, <1>3, <1>4

LEMMA PrepareMoves ==
    ASSUME QueueTypeOK, NEW r \in Reqs, Prepare(r)
    PROVE  LET s == req[r] IN
           \/ ReqMoves(r, "done", "error", s.model)
           \/ model[s.chat] \in Models /\ ReqMoves(r, "accept", s.answer, model[s.chat])
<1> DEFINE s == req[r]
           m == model[s.chat]
<1>1. CASE m = NoModel \/ Lost(s.content) \/ Unrunnable(s.content)
    <2>1. Reply(r, "error")
        BY <1>1 DEF Prepare
    <2>2. "error" \in Answer
        BY DEF Answer
    <2> QED BY <2>1, <2>2, ReplyMoves
<1>2. CASE ~(m = NoModel \/ Lost(s.content) \/ Unrunnable(s.content))
    <2>1. m \in Models
        BY <1>2, ReqFields DEF QueueTypeOK
    <2>2. PICK n : n = [s EXCEPT !.pc = "accept", !.model = m]
        OBVIOUS
    <2>3. n \in ReqState /\ n.id = s.id /\ n.chat = s.chat /\ n.content = s.content
          /\ n.proc = s.proc /\ n.pc = "accept" /\ n.answer = s.answer /\ n.model = m
        <3> HIDE DEF m
        <3> QED BY <2>1, <2>2, ReqFields DEF ReqState, ReqPc
    <2>4. req' = [req EXCEPT ![r] = n]
        BY <1>2, <2>2 DEF Prepare, QueueTypeOK
    <2>5. ReqMoves(r, "accept", s.answer, m)
        BY <2>3, <2>4, ReqBecomes
    <2> QED BY <2>1, <2>5
<1> QED BY <1>1, <1>2

LEMMA AcceptMoves ==
    ASSUME QueueTypeOK, NEW r \in Reqs, Accept(r)
    PROVE  LET s == req[r]  t == turn[s.id] IN
           \/ t # NoTurn /\ turn' = turn /\ ReqMoves(r, "done", "accepted", s.model)
           \/ /\ t # NoTurn /\ turn' = turn /\ ~ExactTurn(t, s.chat, s.model, s.content)
              /\ ReqMoves(r, "done", "conflict", s.model)
           \/ t = NoTurn /\ turn' = turn /\ ReqMoves(r, "enqueue", s.answer, s.model)
           \/ turn' = turn /\ ReqMoves(r, "done", "error", s.model)
           \/ turn' = turn /\ ReqMoves(r, "done", "busy", s.model)
           \/ /\ t = NoTurn /\ turn' = [turn EXCEPT ![s.id] = NewTurn(s.chat, s.model, s.content)]
              /\ ReqMoves(r, "done", "accepted", s.model)
<1> DEFINE s == req[r]
           t == turn[s.id]
<1>1. "enqueue" \in ReqPc /\ "accepted" \in Answer /\ "conflict" \in Answer
      /\ "busy" \in Answer /\ "error" \in Answer
    BY DEF ReqPc, Answer
<1>2. CASE t # NoTurn /\ ExactTurn(t, s.chat, s.model, s.content)
    <2>1. Reply(r, "accepted") /\ turn' = turn
        BY <1>2 DEF Accept
    <2> QED BY <2>1, <1>1, <1>2, ReplyMoves
<1>3. CASE t # NoTurn /\ ~ExactTurn(t, s.chat, s.model, s.content)
    <2>1. Reply(r, "conflict") /\ turn' = turn
        BY <1>3 DEF Accept
    <2> QED BY <2>1, <1>1, <1>3, ReplyMoves
<1>4. CASE t = NoTurn
    <2>1. \/ (Goto(r, "enqueue") \/ Reply(r, "busy") \/ Reply(r, "error")) /\ turn' = turn
          \/ /\ Reply(r, "accepted")
             /\ turn' = [turn EXCEPT ![s.id] = NewTurn(s.chat, s.model, s.content)]
        BY <1>4 DEF Accept
    <2>2. Goto(r, "enqueue") => ReqMoves(r, "enqueue", s.answer, s.model)
        BY <1>1, GotoMoves
    <2>3. /\ Reply(r, "busy") => ReqMoves(r, "done", "busy", s.model)
          /\ Reply(r, "error") => ReqMoves(r, "done", "error", s.model)
          /\ Reply(r, "accepted") => ReqMoves(r, "done", "accepted", s.model)
        BY <1>1, ReplyMoves
    <2> QED BY <2>1, <2>2, <2>3, <1>4
<1> QED BY <1>2, <1>3, <1>4

LEMMA EnqueueMoves ==
    ASSUME QueueTypeOK, AllGood, NEW r \in Reqs, Enqueue(r)
    PROVE  LET s == req[r] IN
           \/ /\ Queued(s.id) /\ queue' = queue /\ gone' = gone /\ clock' = clock
              /\ ReqMoves(r, "done", "queued", s.model)
           \/ /\ queue' = queue /\ gone' = gone /\ clock' = clock
              /\ ReqMoves(r, "done", "error", s.model)
           \/ /\ Adds(s.chat, Fresh(r)) /\ Fresh(r) \in Row /\ Fresh(r).id = s.id
              /\ gone' = gone \ {s.id} /\ clock' \in 0..MaxClock
              /\ ReqMoves(r, "done", "queued", s.model)
<1> DEFINE s == req[r]
<1>1. "queued" \in Answer /\ "error" \in Answer
    BY DEF Answer
<1>2. CASE QueuedRow(s.id) # {}
    <2>1. /\ Reply(r, "queued") \/ Reply(r, "error")
          /\ queue' = queue /\ clock' = clock /\ gone' = gone
        BY <1>2 DEF Enqueue
    <2>2. Queued(s.id)
        BY <1>2, QueuedIff
    <2> QED BY <2>1, <2>2, <1>1, ReplyMoves
<1>3. CASE QueuedRow(s.id) = {} /\ ~HasRoom(queue[s.chat])
    <2>1. Reply(r, "error") /\ queue' = queue /\ clock' = clock /\ gone' = gone
        BY <1>3 DEF Enqueue
    <2> QED BY <2>1, <1>1, ReplyMoves
<1>4. CASE QueuedRow(s.id) = {} /\ HasRoom(queue[s.chat])
    <2>1. Reply(r, "queued") /\ clock' = clock + 1
        BY <1>4 DEF Enqueue
    <2>2. clock' # clock
        BY <2>1 DEF QueueTypeOK
    <2>3. /\ Adds(s.chat, Fresh(r)) /\ Fresh(r) \in Row /\ Fresh(r).id = s.id
          /\ gone' = gone \ {s.id} /\ clock' \in 0..MaxClock
        BY <2>2, EnqueueEffect
    <2>4. ReqMoves(r, "done", "queued", s.model)
        BY <2>1, <1>1, ReplyMoves
    <2> QED BY <2>3, <2>4
<1> QED BY <1>2, <1>3, <1>4

LEMMA PromoteMoves ==
    ASSUME QueueTypeOK, AllGood, NEW p \in Procs, Promote(p)
    PROVE  LET c == prom[p].chat  snap == prom[p].snap IN
           /\ PromMoves(p, "idle", c, NoTurn, NoModel)
           /\ \/ queue' = queue /\ turn' = turn
              \/ /\ queue[c] # << >> /\ snap = Head(queue[c]) /\ Drops(c, snap.id)
                 /\ queue' = [queue EXCEPT ![c] = Tail(queue[c])]
                 /\ \/ turn' = turn /\ turn[snap.id] # NoTurn
                    \/ /\ turn[snap.id] = NoTurn
                       /\ turn' = [turn EXCEPT ![snap.id] = NewTurn(c, prom[p].model, snap.content)]
<1> DEFINE c == prom[p].chat
           snap == prom[p].snap
           q == queue[c]
<1>1. PromMoves(p, "idle", c, NoTurn, NoModel)
    BY IdleMoves DEF Promote
<1>2. \/ queue' = queue /\ turn' = turn
      \/ /\ HeadIs(q, snap) /\ queue' = [queue EXCEPT ![c] = Tail(q)]
         /\ \/ turn' = turn /\ turn[snap.id] # NoTurn
            \/ /\ turn[snap.id] = NoTurn
               /\ turn' = [turn EXCEPT ![snap.id] = NewTurn(c, prom[p].model, snap.content)]
    BY DEF Promote
<1>3. c \in Chats
    BY PromFields
<1>4. ASSUME HeadIs(q, snap), queue' = [queue EXCEPT ![c] = Tail(q)]
      PROVE  q # << >> /\ snap = Head(q) /\ Drops(c, snap.id)
    BY <1>3, <1>4, HeadEffect DEF HeadIs
<1> QED BY <1>1, <1>2, <1>4

LEMMA SweepDropMoves ==
    ASSUME QueueTypeOK, AllGood, NEW p \in Procs, SweepDrop(p)
    PROVE  LET c == prom[p].chat  snap == prom[p].snap IN
           /\ PromMoves(p, "idle", c, NoTurn, NoModel)
           /\ \/ queue' = queue /\ gone' = gone
              \/ /\ queue[c] # << >> /\ snap = Head(queue[c]) /\ Drops(c, snap.id)
                 /\ queue' = [queue EXCEPT ![c] = Tail(queue[c])] /\ gone' = gone \cup {snap.id}
<1> DEFINE c == prom[p].chat
           snap == prom[p].snap
           q == queue[c]
<1>1. PromMoves(p, "idle", c, NoTurn, NoModel)
    BY IdleMoves DEF SweepDrop
<1>2. \/ queue' = queue /\ gone' = gone
      \/ HeadIs(q, snap) /\ queue' = [queue EXCEPT ![c] = Tail(q)] /\ gone' = gone \cup {snap.id}
    BY DEF SweepDrop
<1>3. c \in Chats
    BY PromFields
<1>4. ASSUME HeadIs(q, snap), queue' = [queue EXCEPT ![c] = Tail(q)]
      PROVE  q # << >> /\ snap = Head(q) /\ Drops(c, snap.id)
    BY <1>3, <1>4, HeadEffect DEF HeadIs
<1> QED BY <1>1, <1>2, <1>4

-----------------------------------------------------------------------------
(* Types and the order of the queues.                                      *)

ReqsTyped ==
    /\ req \in [Reqs -> ReqState]
    /\ \A r \in Reqs : req[r].pc \in {"accept", "enqueue"} => req[r].model \in Models
PromsTyped ==
    /\ prom \in [Procs -> PromState]
    /\ \A p \in Procs : prom[p].pc \in {"prepare", "promote", "drop"} => prom[p].snap # NoTurn
    /\ \A p \in Procs : prom[p].pc = "promote" => prom[p].model \in Models
TurnsTyped == turn \in [Ids -> Turn \cup {NoTurn}]
SettingsTyped ==
    /\ paused \in [Chats -> BOOLEAN] /\ model \in [Chats -> Models \cup {NoModel}]
    /\ dead \subseteq Refs /\ faults \in 0..MaxFaults
ClockTyped == clock \in 0..MaxClock /\ gone \subseteq Ids
TodoTyped == todo \in [Procs -> SUBSET Chats]

LEMMA TypeParts ==
    /\ QueueTypeOK <=> /\ queue \in [Chats -> Seq(Row)] /\ ReqsTyped /\ PromsTyped
                       /\ TurnsTyped /\ SettingsTyped /\ ClockTyped /\ TodoTyped
    /\ QueueTypeOK' <=> /\ queue' \in [Chats -> Seq(Row)] /\ ReqsTyped' /\ PromsTyped'
                        /\ TurnsTyped' /\ SettingsTyped' /\ ClockTyped' /\ TodoTyped'
BY DEF QueueTypeOK, ReqsTyped, PromsTyped, TurnsTyped, SettingsTyped, ClockTyped, TodoTyped

LEMMA ReqsStayTyped ==
    ASSUME QueueTypeOK, NEW r \in Reqs, NEW pc, NEW a, NEW m, ReqMoves(r, pc, a, m),
           pc \in {"accept", "enqueue"} => m \in Models
    PROVE  ReqsTyped'
<1>1. req' \in [Reqs -> ReqState]
    BY DEF ReqMoves
<1>2. ASSUME NEW s \in Reqs, req'[s].pc \in {"accept", "enqueue"} PROVE req'[s].model \in Models
    <2>1. CASE s = r
        BY <2>1, <1>2 DEF ReqMoves
    <2>2. CASE s # r
        <3>1. req'[s] = req[s]
            BY <2>2 DEF ReqMoves
        <3> QED BY <3>1, <1>2 DEF QueueTypeOK
    <2> QED BY <2>1, <2>2
<1> QED BY <1>1, <1>2 DEF ReqsTyped

LEMMA PromsStayTyped ==
    ASSUME QueueTypeOK, NEW p \in Procs, NEW pc, NEW c, NEW snap, NEW m, PromMoves(p, pc, c, snap, m),
           pc \in {"prepare", "promote", "drop"} => snap # NoTurn,
           pc = "promote" => m \in Models
    PROVE  PromsTyped'
<1>1. prom' \in [Procs -> PromState]
    BY DEF PromMoves
<1>2. ASSUME NEW o \in Procs
      PROVE  /\ prom'[o].pc \in {"prepare", "promote", "drop"} => prom'[o].snap # NoTurn
             /\ prom'[o].pc = "promote" => prom'[o].model \in Models
    <2>1. CASE o = p
        BY <2>1 DEF PromMoves
    <2>2. CASE o # p
        <3>1. prom'[o] = prom[o]
            BY <2>2 DEF PromMoves
        <3> QED BY <3>1 DEF QueueTypeOK
    <2> QED BY <2>1, <2>2
<1> QED BY <1>1, <1>2 DEF PromsTyped

LEMMA TurnsStayTyped ==
    ASSUME QueueTypeOK, NEW i \in Ids, NEW c \in Chats, NEW m \in Models, NEW content \in Contents,
           turn' = [turn EXCEPT ![i] = NewTurn(c, m, content)]
    PROVE  TurnsTyped'
<1>1. NewTurn(c, m, content) \in Turn
    BY DEF NewTurn, Turn
<1> QED BY <1>1 DEF QueueTypeOK, TurnsTyped

\* What stays the same stays typed.
LEMMA SameTyped ==
    ASSUME QueueTypeOK
    PROVE  /\ req' = req => ReqsTyped'
           /\ prom' = prom => PromsTyped'
           /\ turn' = turn => TurnsTyped'
           /\ UNCHANGED <<paused, model, dead, faults>> => SettingsTyped'
           /\ clock' = clock /\ gone' = gone => ClockTyped'
           /\ todo' = todo => TodoTyped'
BY DEF QueueTypeOK, ReqsTyped, PromsTyped, TurnsTyped, SettingsTyped, ClockTyped, TodoTyped

LEMMA SameGood ==
    ASSUME AllGood, queue' = queue
    PROVE  AllGood' /\ \A j : Queued(j)' <=> Queued(j)
BY DEF AllGood, Queued

LEMMA GoodTyped == AllGood' => queue' \in [Chats -> Seq(Row)]
BY DEF AllGood

LEMMA AdmitOrder ==
    ASSUME QueueTypeOK, AllGood, NEW r \in Reqs, Admit(r) \/ Disconnect(r)
    PROVE  QueueTypeOK' /\ AllGood'
<1> USE SameTyped, SameGood, GoodTyped, TypeParts
<1>1. CASE Submit(r)
    <2>1. ReqMoves(r, "gate", req[r].answer, req[r].model)
        BY <1>1, GotoMoves DEF Submit, ReqPc
    <2>2. ReqsTyped'
        BY <2>1, ReqsStayTyped
    <2> QED BY <2>2, <1>1 DEF Submit
<1>2. CASE Enter(r)
    <2>1. ReqMoves(r, "begin", req[r].answer, req[r].model)
        BY <1>2, GotoMoves DEF Enter, ReqPc
    <2>2. ReqsTyped'
        BY <2>1, ReqsStayTyped
    <2> QED BY <2>2, <1>2 DEF Enter
<1>3. CASE BeginTurn(r)
    <2>1. \/ ReqMoves(r, "begin2", req[r].answer, req[r].model)
          \/ ReqMoves(r, "done", "accepted", req[r].model)
          \/ ReqMoves(r, "done", "conflict", req[r].model)
        BY <1>3, BeginTurnMoves
    <2>2. ReqsTyped'
        BY <2>1, ReqsStayTyped
    <2> QED BY <2>2, <1>3 DEF BeginTurn
<1>4. CASE BeginQueue(r)
    <2>1. \/ ReqMoves(r, "prepare", req[r].answer, req[r].model)
          \/ ReqMoves(r, "done", "queued", req[r].model)
          \/ ReqMoves(r, "done", "conflict", req[r].model)
        BY <1>4, BeginQueueMoves
    <2>2. ReqsTyped'
        BY <2>1, ReqsStayTyped
    <2> QED BY <2>2, <1>4 DEF BeginQueue
<1>5. CASE Prepare(r)
    <2>1. \/ ReqMoves(r, "done", "error", req[r].model)
          \/ model[req[r].chat] \in Models /\ ReqMoves(r, "accept", req[r].answer, model[req[r].chat])
        BY <1>5, PrepareMoves
    <2>2. ReqsTyped'
        BY <2>1, ReqsStayTyped
    <2> QED BY <2>2, <1>5 DEF Prepare
<1>6. CASE Accept(r)
    <2>1. req[r].pc = "accept" /\ req[r].model \in Models
        BY <1>6 DEF Accept, QueueTypeOK
    <2>2. /\ \/ ReqMoves(r, "done", "accepted", req[r].model)
             \/ ReqMoves(r, "done", "conflict", req[r].model)
             \/ ReqMoves(r, "enqueue", req[r].answer, req[r].model)
             \/ ReqMoves(r, "done", "busy", req[r].model)
             \/ ReqMoves(r, "done", "error", req[r].model)
          /\ \/ turn' = turn
             \/ turn' = [turn EXCEPT ![req[r].id] = NewTurn(req[r].chat, req[r].model, req[r].content)]
        BY <1>6, AcceptMoves
    <2>3. ReqsTyped'
        BY <2>1, <2>2, ReqsStayTyped
    <2>4. TurnsTyped'
        BY <2>1, <2>2, ReqFields, TurnsStayTyped
    <2> QED BY <2>3, <2>4, <1>6 DEF Accept
<1>7. CASE Enqueue(r)
    <2>1. /\ \/ ReqMoves(r, "done", "queued", req[r].model)
             \/ ReqMoves(r, "done", "error", req[r].model)
          /\ \/ queue' = queue /\ gone' = gone /\ clock' = clock
             \/ /\ Adds(req[r].chat, Fresh(r))
                /\ gone' = gone \ {req[r].id} /\ clock' \in 0..MaxClock
        BY <1>7, EnqueueMoves
    <2>2. ReqsTyped'
        BY <2>1, ReqsStayTyped
    <2>3. AllGood'
        BY <2>1, AddsOk
    <2>4. ClockTyped'
        BY <2>1 DEF ClockTyped
    <2> QED BY <2>2, <2>3, <2>4, <1>7 DEF Enqueue
<1>8. CASE Disconnect(r)
    <2>1. ReqMoves(r, "done", "none", req[r].model)
        BY <1>8, ReplyMoves DEF Disconnect, Answer
    <2>2. ReqsTyped'
        BY <2>1, ReqsStayTyped
    <2>3. faults' \in 0..MaxFaults
        BY <1>8, QueueAssumption DEF Disconnect, Fault, QueueTypeOK
    <2>4. SettingsTyped'
        BY <2>3, <1>8 DEF Disconnect, SettingsTyped
    <2> QED BY <2>2, <2>4, <1>8 DEF Disconnect
<1> QED BY <1>1, <1>2, <1>3, <1>4, <1>5, <1>6, <1>7, <1>8 DEF Admit

LEMMA SweepOrder ==
    ASSUME QueueTypeOK, AllGood, NEW p \in Procs, Sweep(p)
    PROVE  QueueTypeOK' /\ AllGood'
<1> USE SameTyped, SameGood, GoodTyped, TypeParts
<1>1. ASSUME NEW c \in Chats, SweepChat(p, c) PROVE QueueTypeOK' /\ AllGood'
    <2>1. PromsTyped'
        BY <1>1, SweepChatMoves, PromsStayTyped
    <2>2. TodoTyped'
        BY <1>1 DEF SweepChat, QueueTypeOK, TodoTyped
    <2> QED BY <2>1, <2>2, <1>1 DEF SweepChat
<1>2. CASE SweepList(p)
    <2>1. PromsTyped'
        BY <1>2, SweepListMoves, PromsStayTyped, QueueAssumption
    <2> QED BY <2>1, <1>2 DEF SweepList
<1>3. CASE SweepPrepare(p)
    <2>1. prom[p].snap # NoTurn
        BY <1>3 DEF SweepPrepare, QueueTypeOK
    <2>2. PromsTyped'
        BY <2>1, <1>3, SweepPrepareMoves, PromsStayTyped
    <2> QED BY <2>2, <1>3 DEF SweepPrepare
<1>4. CASE Promote(p)
    <2>1. prom[p].model \in Models /\ prom[p].snap \in Row /\ prom[p].chat \in Chats
        BY <1>4, PromFields DEF Promote, QueueTypeOK
    <2>2. /\ PromMoves(p, "idle", prom[p].chat, NoTurn, NoModel)
          /\ queue' = queue \/ Drops(prom[p].chat, prom[p].snap.id)
          /\ \/ turn' = turn
             \/ turn' = [turn EXCEPT ![prom[p].snap.id] =
                             NewTurn(prom[p].chat, prom[p].model, prom[p].snap.content)]
        BY <1>4, PromoteMoves
    <2>3. PromsTyped'
        BY <2>2, PromsStayTyped
    <2>4. AllGood'
        BY <2>2, DropsOk
    <2>5. TurnsTyped'
        BY <2>1, <2>2, RowFields, TurnsStayTyped
    <2>6. TodoTyped'
        BY <1>4 DEF Promote, QueueTypeOK, TodoTyped
    <2> QED BY <2>3, <2>4, <2>5, <2>6, <1>4 DEF Promote
<1>5. CASE SweepDrop(p)
    <2>1. prom[p].snap \in Row
        BY <1>5, PromFields DEF SweepDrop
    <2>2. /\ PromMoves(p, "idle", prom[p].chat, NoTurn, NoModel)
          /\ queue' = queue \/ Drops(prom[p].chat, prom[p].snap.id)
          /\ gone' = gone \/ gone' = gone \cup {prom[p].snap.id}
        BY <1>5, SweepDropMoves
    <2>3. PromsTyped'
        BY <2>2, PromsStayTyped
    <2>4. AllGood'
        BY <2>2, DropsOk
    <2>5. ClockTyped'
        BY <2>1, <2>2, <1>5, RowFields DEF ClockTyped, SweepDrop
    <2> QED BY <2>3, <2>4, <2>5, <1>5 DEF SweepDrop
<1>6. CASE SweepBegin(p)
    <2>1. TodoTyped'
        BY <1>6 DEF SweepBegin, QueueTypeOK, TodoTyped
    <2> QED BY <2>1, <1>6 DEF SweepBegin
<1> QED BY <1>1, <1>2, <1>3, <1>4, <1>5, <1>6 DEF Sweep

LEMMA UserOrder ==
    ASSUME QueueTypeOK, AllGood, User
    PROVE  QueueTypeOK' /\ AllGood'
<1> USE SameTyped, SameGood, GoodTyped, TypeParts
<1>1. ASSUME NEW c \in Chats, NEW i \in Ids, NEW content \in Contents, NEW target \in 1..MaxPerChat,
             target <= Len(queue[c]), UpdateQueued(c, i, content, target)
      PROVE  QueueTypeOK' /\ AllGood'
    <2>1. Keeps(c) /\ clock' \in 0..MaxClock
        BY <1>1, UpdateEffect
    <2>2. AllGood'
        BY <2>1, KeepsOk
    <2>3. ClockTyped'
        BY <2>1, <1>1 DEF ClockTyped, UpdateQueued
    <2> QED BY <2>2, <2>3, <1>1 DEF UpdateQueued
<1>2. ASSUME NEW c \in Chats, NEW i \in Ids, DeleteQueued(c, i) PROVE QueueTypeOK' /\ AllGood'
    <2>1. Drops(c, i) /\ gone' = gone \cup {i}
        BY <1>2, DeleteEffect
    <2>2. AllGood'
        BY <2>1, DropsOk
    <2>3. ClockTyped'
        BY <2>1, <1>2 DEF ClockTyped, DeleteQueued
    <2> QED BY <2>2, <2>3, <1>2 DEF DeleteQueued
<1>3. ASSUME NEW c \in Chats, SetPaused(c) PROVE QueueTypeOK' /\ AllGood'
    <2>1. faults' \in 0..MaxFaults
        BY <1>3, QueueAssumption DEF SetPaused, Fault, QueueTypeOK
    <2>2. paused' \in [Chats -> BOOLEAN]
        BY <1>3 DEF SetPaused, QueueTypeOK
    <2>3. SettingsTyped'
        BY <2>1, <2>2, <1>3 DEF SetPaused, SettingsTyped
    <2> QED BY <2>3, <1>3 DEF SetPaused
<1> QED BY <1>1, <1>2, <1>3 DEF User

LEMMA EnvironmentOrder ==
    ASSUME QueueTypeOK, AllGood, Environment
    PROVE  QueueTypeOK' /\ AllGood'
<1> USE SameTyped, SameGood, GoodTyped, TypeParts
<1>1. ASSUME NEW i \in Ids, EndTurn(i) PROVE QueueTypeOK' /\ AllGood'
    <2>1. turn[i] \in Turn
        BY <1>1 DEF EndTurn, QueueTypeOK
    <2>2. [turn[i] EXCEPT !.active = FALSE] \in Turn
        BY <2>1 DEF Turn
    <2>3. TurnsTyped'
        BY <2>2, <1>1 DEF EndTurn, QueueTypeOK, TurnsTyped
    <2> QED BY <2>3, <1>1 DEF EndTurn
<1>2. ASSUME NEW c \in Chats, NEW m \in Models \cup {NoModel}, ChangeModel(c, m)
      PROVE  QueueTypeOK' /\ AllGood'
    <2>1. faults' \in 0..MaxFaults
        BY <1>2, QueueAssumption DEF ChangeModel, Fault, QueueTypeOK
    <2>2. model' \in [Chats -> Models \cup {NoModel}]
        BY <1>2 DEF ChangeModel, QueueTypeOK
    <2>3. SettingsTyped'
        BY <2>1, <2>2, <1>2 DEF ChangeModel, SettingsTyped
    <2> QED BY <2>3, <1>2 DEF ChangeModel
<1>3. ASSUME NEW ref \in Refs, Unresolve(ref) PROVE QueueTypeOK' /\ AllGood'
    <2>1. faults' \in 0..MaxFaults
        BY <1>3, QueueAssumption DEF Unresolve, Fault, QueueTypeOK
    <2>2. SettingsTyped'
        BY <2>1, <1>3 DEF Unresolve, SettingsTyped
    <2> QED BY <2>2, <1>3 DEF Unresolve
<1> QED BY <1>1, <1>2, <1>3 DEF Environment

LEMMA OrderStep == OrderInv /\ [Next]_vars => OrderInv'
<1> SUFFICES ASSUME OrderInv, [Next]_vars PROVE OrderInv'
    OBVIOUS
<1>1. QueueTypeOK /\ AllGood
    BY OrderIffGood DEF OrderInv
<1>2. QueueTypeOK' /\ AllGood'
    <2>1. CASE UNCHANGED vars
        BY <2>1, <1>1, SameTyped, SameGood, GoodTyped, TypeParts DEF vars
    <2> QED BY <2>1, <1>1, AdmitOrder, SweepOrder, UserOrder, EnvironmentOrder DEF Next
<1> QED BY <1>2, OrderIffGood

LEMMA OrderInit == Init => OrderInv
<1> SUFFICES ASSUME Init PROVE OrderInv
    OBVIOUS
<1>1. queue \in [Chats -> Seq(Row)] /\ \A c \in Chats : queue[c] = << >> /\ DOMAIN queue[c] = {}
    BY EmptySeq DEF Init
<1>2. ReqsTyped
    BY DEF Init, ReqsTyped
<1>3. PromsTyped
    BY DEF Init, PromsTyped, PromState
<1>4. TurnsTyped /\ SettingsTyped /\ ClockTyped /\ TodoTyped
    BY QueueAssumption DEF Init, TurnsTyped, SettingsTyped, ClockTyped, TodoTyped
<1>5. QueueTypeOK
    BY <1>1, <1>2, <1>3, <1>4, TypeParts
<1> QED BY <1>1, <1>5 DEF OrderInv, OrderIsTotal, IdsAreUnique

(***************************************************************************)
(* The order of every queue is total and an id queues once, for any number *)
(* of processes, submissions and edits (enqueue_turn_inner,                *)
(* update_queued_turn, delete_queued_turn, promote_turn).                  *)
(***************************************************************************)
THEOREM QueueOrderIsTotal == Spec => []OrderIsTotal
<1>1. OrderInv => OrderIsTotal
    BY DEF OrderInv
<1> QED BY <1>1, OrderInit, OrderStep, PTL DEF Spec

(***************************************************************************)
(* Every value of the queue's state is of its type; a snapshot and a model *)
(* are there whenever a promoter or a submission goes on to use them.      *)
(***************************************************************************)
THEOREM QueueTypesHold == Spec => []QueueTypeOK
<1>1. OrderInv => QueueTypeOK
    BY DEF OrderInv
<1> QED BY <1>1, OrderInit, OrderStep, PTL DEF Spec

-----------------------------------------------------------------------------
(* Nothing is lost.                                                        *)

\* What was said of a turn when it was accepted stays true of it.
TurnsKept ==
    \A i \in Ids : turn[i] # NoTurn =>
        /\ turn'[i] # NoTurn /\ turn'[i].chat = turn[i].chat
        /\ turn'[i].content = turn[i].content /\ turn'[i].model = turn[i].model

LEMMA NewTurnOk ==
    ASSUME QueueTypeOK, NEW i \in Ids, NEW c \in Chats, NEW m \in Models, NEW content \in Contents,
           turn[i] = NoTurn, turn' = [turn EXCEPT ![i] = NewTurn(c, m, content)]
    PROVE  /\ TurnsKept
           /\ turn'[i] # NoTurn /\ turn'[i].chat = c /\ turn'[i].model = m /\ turn'[i].content = content
           /\ \A j \in Ids : j # i => turn'[j] = turn[j]
<1>1. NewTurn(c, m, content) \in Turn /\ NewTurn(c, m, content) # NoTurn
    <2>1. NewTurn(c, m, content) \in Turn
        BY DEF NewTurn, Turn
    <2> QED BY <2>1, QueueAssumption
<1>2. turn'[i] = NewTurn(c, m, content) /\ \A j \in Ids : j # i => turn'[j] = turn[j]
    BY DEF QueueTypeOK
<1>3. TurnsKept
    BY <1>2 DEF TurnsKept
<1> QED BY <1>1, <1>2, <1>3 DEF NewTurn

\* Accept and Promote start turns with what they were given.
LEMMA AcceptTurns ==
    ASSUME QueueTypeOK, NEW r \in Reqs, Accept(r)
    PROVE  TurnsKept
<1>1. req[r].id \in Ids /\ req[r].chat \in Chats /\ req[r].content \in Contents /\ req[r].model \in Models
    BY ReqFields DEF Accept, QueueTypeOK
<1>2. \/ turn' = turn
      \/ /\ turn[req[r].id] = NoTurn
         /\ turn' = [turn EXCEPT ![req[r].id] = NewTurn(req[r].chat, req[r].model, req[r].content)]
    BY AcceptMoves
<1>3. CASE turn' = turn
    BY <1>3 DEF TurnsKept
<1> QED BY <1>1, <1>2, <1>3, NewTurnOk

LEMMA PromoteTurns ==
    ASSUME QueueTypeOK, AllGood, NEW p \in Procs, Promote(p)
    PROVE  /\ TurnsKept
           /\ queue' = queue \/ turn'[prom[p].snap.id] # NoTurn
<1>1. /\ prom[p].snap.id \in Ids /\ prom[p].chat \in Chats /\ prom[p].snap.content \in Contents
      /\ prom[p].model \in Models
    BY PromFields, RowFields DEF Promote, QueueTypeOK
<1>2. \/ queue' = queue /\ turn' = turn
      \/ turn' = turn /\ turn[prom[p].snap.id] # NoTurn
      \/ /\ turn[prom[p].snap.id] = NoTurn
         /\ turn' = [turn EXCEPT ![prom[p].snap.id] =
                         NewTurn(prom[p].chat, prom[p].model, prom[p].snap.content)]
    BY PromoteMoves
<1>3. CASE turn' = turn /\ (queue' = queue \/ turn[prom[p].snap.id] # NoTurn)
    BY <1>3 DEF TurnsKept
<1>4. CASE /\ turn[prom[p].snap.id] = NoTurn
           /\ turn' = [turn EXCEPT ![prom[p].snap.id] =
                           NewTurn(prom[p].chat, prom[p].model, prom[p].snap.content)]
    BY <1>1, <1>4, NewTurnOk
<1> QED BY <1>2, <1>3, <1>4

LEMMA EndTurnTurns ==
    ASSUME QueueTypeOK, NEW i \in Ids, EndTurn(i)
    PROVE  TurnsKept
<1>1. turn[i] \in Turn
    BY DEF EndTurn, QueueTypeOK
<1>2. PICK t : t = [turn[i] EXCEPT !.active = FALSE]
    OBVIOUS
<1>3. t \in Turn /\ t.chat = turn[i].chat /\ t.content = turn[i].content /\ t.model = turn[i].model
    BY <1>1, <1>2 DEF Turn
<1>4. t # NoTurn
    BY <1>3, QueueAssumption
<1>5. turn'[i] = t /\ \A j \in Ids : j # i => turn'[j] = turn[j]
    BY <1>2 DEF EndTurn, QueueTypeOK
<1> QED BY <1>3, <1>4, <1>5 DEF TurnsKept

LEMMA SameTurns == turn' = turn => TurnsKept
BY DEF TurnsKept

LEMMA TurnStep ==
    ASSUME QueueTypeOK, AllGood, [Next]_vars
    PROVE  TurnsKept
<1> USE SameTurns
<1>1. CASE UNCHANGED vars
    BY <1>1 DEF vars
<1>2. ASSUME NEW r \in Reqs, Admit(r) \/ Disconnect(r) PROVE TurnsKept
    BY <1>2, AcceptTurns DEF Admit, Submit, Enter, BeginTurn, BeginQueue, Prepare, Enqueue, Disconnect
<1>3. ASSUME NEW p \in Procs, Sweep(p) PROVE TurnsKept
    BY <1>3, PromoteTurns DEF Sweep, SweepBegin, SweepChat, SweepList, SweepPrepare, SweepDrop
<1>4. CASE User
    BY <1>4 DEF User, UpdateQueued, DeleteQueued, SetPaused
<1>5. CASE Environment
    BY <1>5, EndTurnTurns DEF Environment, ChangeModel, Unresolve
<1> QED BY <1>1, <1>2, <1>3, <1>4, <1>5 DEF Next

\* A turn, a place in a queue, or a retraction accounts for an id.
Held(i) == turn[i] # NoTurn \/ Queued(i) \/ i \in gone

LEMMA HeldStep ==
    ASSUME QueueTypeOK, AllGood, [Next]_vars, NEW i \in Ids, Held(i)
    PROVE  Held(i)'
<1>1. turn[i] # NoTurn => turn'[i] # NoTurn
    BY TurnStep DEF TurnsKept
<1>2. SUFFICES (Queued(i) => Queued(i)' \/ Held(i)') /\ (i \in gone => i \in gone' \/ Held(i)')
    BY <1>1 DEF Held
<1>3. CASE queue' = queue /\ gone' = gone
    BY <1>3, SameGood
<1>4. ASSUME NEW r \in Reqs, Enqueue(r), ~(queue' = queue /\ gone' = gone)
      PROVE  (Queued(i) => Queued(i)' \/ Held(i)') /\ (i \in gone => i \in gone' \/ Held(i)')
    <2>1. Adds(req[r].chat, Fresh(r)) /\ Fresh(r).id = req[r].id /\ gone' = gone \ {req[r].id}
        BY <1>4, EnqueueMoves
    <2>2. Queued(i)' <=> Queued(i) \/ i = req[r].id
        BY <2>1, AddsOk
    <2> QED BY <2>1, <2>2 DEF Held
<1>5. ASSUME NEW p \in Procs, Promote(p), ~(queue' = queue /\ gone' = gone)
      PROVE  (Queued(i) => Queued(i)' \/ Held(i)') /\ (i \in gone => i \in gone' \/ Held(i)')
    <2>1. queue' # queue /\ gone' = gone
        BY <1>5 DEF Promote
    <2>2. Drops(prom[p].chat, prom[p].snap.id) /\ turn'[prom[p].snap.id] # NoTurn
        BY <2>1, <1>5, PromoteMoves, PromoteTurns
    <2>3. Queued(i)' <=> Queued(i) /\ i # prom[p].snap.id
        BY <2>2, DropsOk
    <2> QED BY <2>1, <2>2, <2>3 DEF Held
<1>6. ASSUME NEW p \in Procs, SweepDrop(p), ~(queue' = queue /\ gone' = gone)
      PROVE  (Queued(i) => Queued(i)' \/ Held(i)') /\ (i \in gone => i \in gone' \/ Held(i)')
    <2>1. Drops(prom[p].chat, prom[p].snap.id) /\ gone' = gone \cup {prom[p].snap.id}
        BY <1>6, SweepDropMoves
    <2>2. Queued(i)' <=> Queued(i) /\ i # prom[p].snap.id
        BY <2>1, DropsOk
    <2> QED BY <2>1, <2>2 DEF Held
<1>7. ASSUME NEW c \in Chats, NEW j \in Ids, DeleteQueued(c, j)
      PROVE  (Queued(i) => Queued(i)' \/ Held(i)') /\ (i \in gone => i \in gone' \/ Held(i)')
    <2>1. Drops(c, j) /\ gone' = gone \cup {j}
        BY <1>7, DeleteEffect
    <2>2. Queued(i)' <=> Queued(i) /\ i # j
        BY <2>1, DropsOk
    <2> QED BY <2>1, <2>2 DEF Held
<1>8. ASSUME NEW c \in Chats, NEW j \in Ids, NEW content \in Contents, NEW target \in 1..MaxPerChat,
             target <= Len(queue[c]), UpdateQueued(c, j, content, target)
      PROVE  (Queued(i) => Queued(i)' \/ Held(i)') /\ (i \in gone => i \in gone' \/ Held(i)')
    <2>1. Keeps(c) /\ gone' = gone
        BY <1>8, UpdateEffect DEF UpdateQueued
    <2>2. Queued(i)' <=> Queued(i)
        BY <2>1, KeepsOk
    <2> QED BY <2>1, <2>2
<1>9. CASE UNCHANGED vars
    BY <1>3, <1>9 DEF vars
<1>10. ASSUME NEW r \in Reqs, Admit(r) \/ Disconnect(r) PROVE Enqueue(r) \/ (queue' = queue /\ gone' = gone)
    BY <1>10 DEF Admit, Submit, Enter, BeginTurn, BeginQueue, Prepare, Accept, Disconnect
<1>11. ASSUME NEW p \in Procs, Sweep(p) PROVE Promote(p) \/ SweepDrop(p) \/ (queue' = queue /\ gone' = gone)
    BY <1>11 DEF Sweep, SweepBegin, SweepChat, SweepList, SweepPrepare
<1>12. CASE User
    <2>1. ASSUME NEW c \in Chats, SetPaused(c) PROVE queue' = queue /\ gone' = gone
        BY <2>1 DEF SetPaused
    <2> QED BY <1>3, <1>7, <1>8, <1>12, <2>1 DEF User
<1>13. CASE Environment
    <2>1. queue' = queue /\ gone' = gone
        BY <1>13 DEF Environment, EndTurn, ChangeModel, Unresolve
    <2> QED BY <1>3, <2>1
<1> QED BY <1>3, <1>4, <1>5, <1>6, <1>9, <1>10, <1>11, <1>12, <1>13 DEF Next

\* An answer 202 is given for an id that is accounted for.
LEMMA AnswerStep ==
    ASSUME QueueTypeOK, AllGood, NEW r \in Reqs, Admit(r) \/ Disconnect(r)
    PROVE  /\ \A s \in Reqs : req'[s].id = req[s].id /\ (s # r => req'[s] = req[s])
           /\ \A i : i = req[r].id /\ req'[r].answer \in {"accepted", "queued"} =>
                  req'[r].answer = req[r].answer \/ Held(i)'
<1>0. PICK i : i = req[r].id
    OBVIOUS
<1> DEFINE Goal ==
        /\ \A s \in Reqs : req'[s].id = req[s].id /\ (s # r => req'[s] = req[s])
        /\ req'[r].answer \in {"accepted", "queued"} =>
               req'[r].answer = req[r].answer \/ Held(i)'
<1>1. ASSUME NEW pc, NEW a, NEW m, ReqMoves(r, pc, a, m),
             a \in {"accepted", "queued"} => a = req[r].answer \/ Held(i)'
      PROVE  Goal
    BY <1>1 DEF ReqMoves
<1>2. i \in Ids
    BY <1>0, ReqFields
<1> HIDE DEF Goal
<1>3. ASSUME Submit(r) PROVE Goal
    BY <1>1, <1>3, GotoMoves DEF Submit, ReqPc
<1>4. ASSUME Enter(r) PROVE Goal
    BY <1>1, <1>4, GotoMoves DEF Enter, ReqPc
<1>5. ASSUME BeginTurn(r) PROVE Goal
    <2>1. turn[i] # NoTurn => Held(i)'
        BY <1>5 DEF BeginTurn, Held
    <2> QED BY <1>1, <1>5, <2>1, <1>0, BeginTurnMoves
<1>6. ASSUME BeginQueue(r) PROVE Goal
    <2>1. Queued(i) => Held(i)'
        BY <1>6, SameGood DEF BeginQueue, Held
    <2> QED BY <1>1, <1>6, <2>1, <1>0, BeginQueueMoves
<1>7. ASSUME Prepare(r) PROVE Goal
    BY <1>1, <1>7, PrepareMoves
<1>8. ASSUME Accept(r) PROVE Goal
    <2>1. /\ turn[i] # NoTurn /\ turn' = turn => Held(i)'
          /\ turn' = [turn EXCEPT ![i] = NewTurn(req[r].chat, req[r].model, req[r].content)]
             /\ turn[i] = NoTurn => Held(i)'
        <3>1. req[r].chat \in Chats /\ req[r].content \in Contents /\ req[r].model \in Models
            BY <1>8, ReqFields DEF Accept, QueueTypeOK
        <3> QED BY <1>2, <3>1, NewTurnOk DEF Held
    <2> QED BY <1>1, <1>8, <2>1, <1>0, AcceptMoves
<1>9. ASSUME Enqueue(r) PROVE Goal
    <2>1. Queued(i) /\ queue' = queue => Held(i)'
        BY SameGood DEF Held
    <2>2. Adds(req[r].chat, Fresh(r)) /\ Fresh(r).id = i => Held(i)'
        BY AddsOk DEF Held
    <2> QED BY <1>1, <1>9, <2>1, <2>2, <1>0, EnqueueMoves
<1>10. ASSUME Disconnect(r) PROVE Goal
    BY <1>1, <1>10, ReplyMoves DEF Disconnect, Answer
<1>11. Goal
    BY <1>3, <1>4, <1>5, <1>6, <1>7, <1>8, <1>9, <1>10 DEF Admit
<1> QED BY <1>0, <1>11 DEF Goal

LEMMA NothingLostStep == OrderInv /\ NothingLost /\ [Next]_vars => NothingLost'
<1> SUFFICES ASSUME OrderInv, NothingLost, [Next]_vars PROVE NothingLost'
    OBVIOUS
<1>1. QueueTypeOK /\ AllGood
    BY OrderIffGood DEF OrderInv
<1>2. \A s \in Reqs : req[s].id \in Ids
    BY <1>1, ReqFields
<1>3. \A s \in Reqs : req[s].answer \in {"accepted", "queued"} => Held(req[s].id)
    BY QueuedIff DEF NothingLost, Held
<1>4. \A s \in Reqs : \A i : i = req[s].id /\ req[s].answer \in {"accepted", "queued"} => Held(i)'
    BY <1>1, <1>2, <1>3, HeldStep
<1> DEFINE Kept(s) ==
        /\ req'[s].id = req[s].id
        /\ \A i : i = req[s].id /\ req'[s].answer \in {"accepted", "queued"} => Held(i)'
<1>5. ASSUME \A s \in Reqs : Kept(s) PROVE NothingLost'
    <2> SUFFICES ASSUME NEW s \in Reqs, req'[s].answer \in {"accepted", "queued"}
                 PROVE  \/ turn'[req'[s].id] # NoTurn
                        \/ (QueuedRow(req[s].id) # {})'
                        \/ req'[s].id \in gone'
        BY DEF NothingLost
    <2>1. PICK i : i = req'[s].id
        OBVIOUS
    <2>2. Held(i)'
        BY <2>1, <1>5
    <2>3. turn'[i] # NoTurn \/ (QueuedRow(i) # {})' \/ i \in gone'
        BY <2>2, QueuedIff DEF Held
    <2> QED BY <2>1, <2>3 DEF QueuedRow
<1>6. ASSUME req' = req PROVE \A s \in Reqs : Kept(s)
    BY <1>4, <1>6
<1>7. ASSUME NEW r \in Reqs, Admit(r) \/ Disconnect(r)
      PROVE  \A s \in Reqs : Kept(s)
    BY <1>1, <1>4, <1>7, AnswerStep
<1>8. \/ req' = req
      \/ \E r \in Reqs : Admit(r) \/ Disconnect(r)
    BY DEF Next, vars, Sweep, SweepBegin, SweepChat, SweepList, SweepPrepare, Promote, SweepDrop,
        User, UpdateQueued, DeleteQueued, SetPaused, Environment, EndTurn, ChangeModel, Unresolve
<1> QED BY <1>5, <1>6, <1>7, <1>8

(***************************************************************************)
(* A submission answered 202 is never lost, whatever the interleaving of   *)
(* submissions, edits, retractions, promoters and catalog changes, and     *)
(* with any number of processes: its id has a turn, waits in a queue, or   *)
(* was taken out by the user or as unrunnable.                             *)
(***************************************************************************)
THEOREM NoAnswerIsLost == Spec => []NothingLost
<1>1. Init => NothingLost
    BY DEF Init, NothingLost
<1> QED BY <1>1, OrderInit, OrderStep, NothingLostStep, PTL DEF Spec

-----------------------------------------------------------------------------
(* A stale snapshot neither executes nor deletes.                          *)

LEMMA HeadStep ==
    ASSUME OrderInv, [Next]_vars, NEW p \in Procs, NEW c \in Chats,
           prom[p].pc \in {"promote", "drop"}, prom'[p].pc = "idle", queue'[c] # queue[c]
    PROVE  /\ queue'[c] = Tail(queue[c])
           /\ \A e : e = Head(queue[c]) /\ turn'[e.id] # turn[e.id] => turn'[e.id].content = e.content
<1>1. QueueTypeOK /\ AllGood
    BY OrderIffGood DEF OrderInv
<1>2. Promote(p) \/ SweepDrop(p)
    <2>1. prom' # prom
        OBVIOUS
    <2>2. PICK o \in Procs : Sweep(o)
        BY <2>1 DEF Next, vars, Admit, Submit, Enter, BeginTurn, BeginQueue, Prepare, Accept, Enqueue,
            Disconnect, User, UpdateQueued, DeleteQueued, SetPaused, Environment, EndTurn, ChangeModel,
            Unresolve
    <2>3. o = p
        <3>1. ASSUME NEW pc, NEW d, NEW snap, NEW m, PromMoves(o, pc, d, snap, m) PROVE o = p
            BY <3>1 DEF PromMoves
        <3>2. ~SweepBegin(o)
            BY <2>1 DEF SweepBegin
        <3> QED BY <2>1, <2>2, <3>1, <3>2, <1>1, SweepChatMoves, SweepListMoves, SweepPrepareMoves,
                PromoteMoves, SweepDropMoves DEF Sweep
    <2> QED BY <2>2, <2>3 DEF Sweep, SweepBegin, SweepChat, SweepList, SweepPrepare
<1>3. prom[p].chat \in Chats /\ queue \in [Chats -> Seq(Row)]
    BY <1>1, PromFields DEF QueueTypeOK
<1>4. CASE SweepDrop(p)
    <2>1. queue' = [queue EXCEPT ![prom[p].chat] = Tail(queue[prom[p].chat])]
        BY <1>1, <1>4, SweepDropMoves
    <2> QED BY <2>1, <1>3, <1>4 DEF SweepDrop
<1>5. CASE Promote(p)
    <2>1. /\ queue' = [queue EXCEPT ![prom[p].chat] = Tail(queue[prom[p].chat])]
          /\ prom[p].snap = Head(queue[prom[p].chat])
          /\ \/ turn' = turn
             \/ /\ turn[prom[p].snap.id] = NoTurn
                /\ turn' = [turn EXCEPT ![prom[p].snap.id] =
                                NewTurn(prom[p].chat, prom[p].model, prom[p].snap.content)]
        BY <1>1, <1>5, PromoteMoves
    <2>2. c = prom[p].chat /\ queue'[c] = Tail(queue[c])
        BY <2>1, <1>3
    <2>3. /\ prom[p].snap.id \in Ids /\ prom[p].snap.content \in Contents /\ prom[p].model \in Models
        BY <1>1, <1>5, PromFields, RowFields DEF Promote, QueueTypeOK
    <2>4. turn' = turn \/ turn'[prom[p].snap.id].content = prom[p].snap.content
        BY <1>1, <1>3, <2>1, <2>3, NewTurnOk
    <2> QED BY <2>1, <2>2, <2>4
<1> QED BY <1>2, <1>4, <1>5

(***************************************************************************)
(* A promoter that acts on a snapshot consumes the head as it stands and   *)
(* starts it with its present content, whatever was edited, moved, dropped *)
(* or promoted since the snapshot was read (current_head_on).              *)
(***************************************************************************)
THEOREM PromotionIsCurrent == Spec => PromotesTheHead
<1> DEFINE Head1 ==
        \A p \in Procs, c \in Chats :
            prom[p].pc \in {"promote", "drop"} /\ prom'[p].pc = "idle" /\ queue'[c] # queue[c] =>
                /\ queue'[c] = Tail(queue[c])
                /\ LET e == Head(queue[c]) IN
                   turn'[e.id] # turn[e.id] => turn'[e.id].content = e.content
<1>1. OrderInv /\ [Next]_vars => [Head1]_vars
    BY HeadStep
<1>2. Spec => [][Head1]_vars
    <2> HIDE DEF Head1
    <2> QED BY <1>1, OrderInit, OrderStep, PTL DEF Spec
<1> QED BY <1>2 DEF PromotesTheHead

-----------------------------------------------------------------------------
(* One process: an id is owned once.                                       *)

\* Only the gate lets a submission in.
LEMMA GateStep ==
    ASSUME QueueTypeOK, AllGood, GateIsHeld, [Next]_vars
    PROVE  GateIsHeld'
<1>1. CASE req' = req
    BY <1>1 DEF GateIsHeld, InGate
<1>2. ASSUME NEW r \in Reqs, NEW pc, NEW a, NEW m, ReqMoves(r, pc, a, m),
             pc \notin {"new", "gate", "done"} => InGate(r) \/ GateFree(r)
      PROVE  GateIsHeld'
    <2> SUFFICES ASSUME NEW u \in Reqs, NEW v \in Reqs, u # v,
                        req'[u].pc \notin {"new", "gate", "done"},
                        req'[v].pc \notin {"new", "gate", "done"}
                 PROVE  req'[u].id # req'[v].id \/ req'[u].proc # req'[v].proc
        BY DEF GateIsHeld, InGate
    <2>1. /\ \A s \in Reqs : req'[s].id = req[s].id /\ req'[s].proc = req[s].proc
          /\ \A s \in Reqs : s # r => req'[s].pc = req[s].pc
          /\ req'[r].pc = pc
        BY <1>2 DEF ReqMoves
    <2>2. CASE u # r /\ v # r
        BY <2>1, <2>2 DEF GateIsHeld, InGate
    <2>3. CASE u = r
        <3>1. InGate(v)
            BY <2>1, <2>3 DEF InGate
        <3> QED BY <2>1, <2>3, <3>1, <1>2 DEF GateIsHeld, GateFree
    <2>4. CASE v = r
        <3>1. InGate(u)
            BY <2>1, <2>4 DEF InGate
        <3> QED BY <2>1, <2>4, <3>1, <1>2 DEF GateIsHeld, GateFree
    <2> QED BY <2>2, <2>3, <2>4
<1>3. ASSUME NEW r \in Reqs, Admit(r) \/ Disconnect(r) PROVE GateIsHeld'
    <2>1. CASE Submit(r)
        BY <2>1, <1>2, GotoMoves DEF Submit, ReqPc
    <2>2. CASE Enter(r)
        BY <2>2, <1>2, GotoMoves DEF Enter, ReqPc
    <2>3. CASE BeginTurn(r)
        <3>1. InGate(r)
            BY <2>3 DEF BeginTurn, InGate
        <3> QED BY <2>3, <3>1, <1>2, BeginTurnMoves
    <2>4. CASE BeginQueue(r)
        <3>1. InGate(r)
            BY <2>4 DEF BeginQueue, InGate
        <3> QED BY <2>4, <3>1, <1>2, BeginQueueMoves
    <2>5. CASE Prepare(r)
        <3>1. InGate(r)
            BY <2>5 DEF Prepare, InGate
        <3> QED BY <2>5, <3>1, <1>2, PrepareMoves
    <2>6. CASE Accept(r)
        <3>1. InGate(r)
            BY <2>6 DEF Accept, InGate
        <3> QED BY <2>6, <3>1, <1>2, AcceptMoves
    <2>7. CASE Enqueue(r)
        BY <2>7, <1>2, EnqueueMoves
    <2>8. CASE Disconnect(r)
        BY <2>8, <1>2, ReplyMoves DEF Disconnect, Answer
    <2> QED BY <1>3, <2>1, <2>2, <2>3, <2>4, <2>5, <2>6, <2>7, <2>8 DEF Admit
<1>4. \/ req' = req
      \/ \E r \in Reqs : Admit(r) \/ Disconnect(r)
    BY DEF Next, vars, Sweep, SweepBegin, SweepChat, SweepList, SweepPrepare, Promote, SweepDrop,
        User, UpdateQueued, DeleteQueued, SetPaused, Environment, EndTurn, ChangeModel, Unresolve
<1> QED BY <1>1, <1>3, <1>4

\* The rest of OwnerInv, per id.
Single == \A i \in Ids : Queued(i) => turn[i] = NoTurn
ReadsHold ==
    \A s \in Reqs : \A i \in Ids : i = req[s].id =>
        /\ req[s].pc \in {"prepare", "accept", "enqueue"} => ~Queued(i)
        /\ req[s].pc = "enqueue" => turn[i] = NoTurn

LEMMA OwnerParts ==
    /\ QueueTypeOK => (ReadsStayTrue /\ QueuedHasNotRun <=> Single /\ ReadsHold)
    /\ QueueTypeOK' => (ReadsStayTrue' /\ QueuedHasNotRun' <=> Single' /\ ReadsHold')
<1>1. ASSUME QueueTypeOK PROVE ReadsStayTrue /\ QueuedHasNotRun <=> Single /\ ReadsHold
    <2>1. \A s \in Reqs : req[s].id \in Ids
        BY <1>1, ReqFields
    <2>2. \A c \in Chats : \A k \in DOMAIN queue[c] : queue[c][k].id \in Ids
        BY <1>1, RowsOf, RowFields DEF QueueTypeOK
    <2>3. QueuedHasNotRun <=> Single
        BY <2>2 DEF QueuedHasNotRun, Single, Queued, AllRows, Range, IdsOf
    <2>4. ReadsStayTrue <=> ReadsHold
        BY <2>1, QueuedIff DEF ReadsStayTrue, ReadsHold
    <2> QED BY <2>3, <2>4
<1>2. ASSUME QueueTypeOK' PROVE ReadsStayTrue' /\ QueuedHasNotRun' <=> Single' /\ ReadsHold'
    <2>1. \A s \in Reqs : req'[s].id \in Ids
        BY <1>2 DEF QueueTypeOK, ReqState
    <2>2. \A c \in Chats : \A k \in DOMAIN queue'[c] : queue'[c][k].id \in Ids
        BY <1>2, RowsOf, RowFields DEF QueueTypeOK
    <2>3. QueuedHasNotRun' <=> Single'
        BY <2>2 DEF QueuedHasNotRun, Single, Queued, AllRows, Range, IdsOf
    <2>4. ReadsStayTrue' <=> ReadsHold'
        <3>1. ReadsStayTrue' <=> \A s \in Reqs : \A i \in Ids : i = req'[s].id =>
                  /\ req'[s].pc \in {"prepare", "accept", "enqueue"} => (QueuedRow(i) = {})'
                  /\ req'[s].pc = "enqueue" => turn'[i] = NoTurn
            BY <2>1 DEF ReadsStayTrue, QueuedRow
        <3> QED BY <3>1, QueuedIff DEF ReadsHold
    <2> QED BY <2>3, <2>4
<1> QED BY <1>1, <1>2

\* Steps of promoters, users and the environment: a turn starts only for a
\* row that leaves its queue.
LEMMA OwnerQuiet ==
    ASSUME Single, ReadsHold, req' = req,
           \A i \in Ids : Queued(i)' => Queued(i),
           \A i \in Ids : turn[i] = NoTurn /\ turn'[i] # NoTurn => Queued(i) /\ ~Queued(i)'
    PROVE  Single' /\ ReadsHold'
<1>1. Single'
    BY DEF Single
<1>2. ReadsHold'
    BY DEF ReadsHold
<1> QED BY <1>1, <1>2

\* Steps of a submission that write neither table.
LEMMA OwnerReads ==
    ASSUME Single, ReadsHold, NEW r \in Reqs, NEW pc, NEW a, NEW m, ReqMoves(r, pc, a, m),
           queue' = queue, turn' = turn, NEW i, i = req[r].id,
           pc \in {"prepare", "accept", "enqueue"} => ~Queued(i),
           pc = "enqueue" => turn[i] = NoTurn
    PROVE  Single' /\ ReadsHold'
<1>1. \A j : Queued(j)' <=> Queued(j)
    BY DEF Queued
<1>2. Single'
    BY <1>1 DEF Single
<1>3. ASSUME NEW s \in Reqs, NEW j \in Ids, j = req'[s].id
      PROVE  /\ req'[s].pc \in {"prepare", "accept", "enqueue"} => ~Queued(j)'
             /\ req'[s].pc = "enqueue" => turn'[j] = NoTurn
    <2>1. CASE s = r
        BY <2>1, <1>1, <1>3 DEF ReqMoves
    <2>2. CASE s # r
        <3>1. req'[s] = req[s]
            BY <2>2 DEF ReqMoves
        <3> QED BY <3>1, <1>1, <1>3 DEF ReadsHold
    <2> QED BY <2>1, <2>2
<1> QED BY <1>2, <1>3 DEF ReadsHold

\* Inside the gate of the only process, no other submission has the id.
LEMMA AloneInGate ==
    ASSUME QueueTypeOK, GateIsHeld, \A p, q \in Procs : p = q,
           NEW r \in Reqs, NEW s \in Reqs, s # r, InGate(r), InGate(s)
    PROVE  req[s].id # req[r].id
BY ReqFields DEF GateIsHeld

\* Steps of a submission that start a turn or add a row, and end the admission.
LEMMA OwnerWrites ==
    ASSUME QueueTypeOK, AllGood, GateIsHeld, Single, ReadsHold, \A p, q \in Procs : p = q,
           NEW r \in Reqs, NEW a, NEW m, ReqMoves(r, "done", a, m), InGate(r), NEW i \in Ids, i = req[r].id,
           \A j \in Ids : j # i => (Queued(j)' <=> Queued(j)) /\ turn'[j] = turn[j],
           Queued(i)' => turn'[i] = NoTurn
    PROVE  Single' /\ ReadsHold'
<1>1. Single'
    BY DEF Single
<1>2. ASSUME NEW s \in Reqs, NEW j \in Ids, j = req'[s].id,
             req'[s].pc \in {"prepare", "accept", "enqueue"}
      PROVE  /\ ~Queued(j)'
             /\ req'[s].pc = "enqueue" => turn'[j] = NoTurn
    <2>1. s # r
        BY <1>2 DEF ReqMoves
    <2>2. req'[s] = req[s]
        BY <2>1 DEF ReqMoves
    <2>3. InGate(s)
        BY <2>2, <1>2 DEF InGate
    <2>4. j # i
        BY <2>1, <2>2, <2>3, <1>2, AloneInGate
    <2> QED BY <2>2, <2>4, <1>2 DEF ReadsHold
<1> QED BY <1>1, <1>2 DEF ReadsHold

LEMMA OwnerAdmit ==
    ASSUME QueueTypeOK, AllGood, GateIsHeld, Single, ReadsHold, \A p, q \in Procs : p = q,
           NEW r \in Reqs, Admit(r) \/ Disconnect(r)
    PROVE  Single' /\ ReadsHold'
<1>0. PICK i \in Ids : i = req[r].id
    BY ReqFields
<1>1. CASE Submit(r)
    BY <1>0, <1>1, GotoMoves, OwnerReads DEF Submit, ReqPc
<1>2. CASE Enter(r)
    BY <1>0, <1>2, GotoMoves, OwnerReads DEF Enter, ReqPc
<1>3. CASE BeginTurn(r)
    <2>1. queue' = queue /\ turn' = turn
        BY <1>3 DEF BeginTurn
    <2> QED BY <1>0, <1>3, <2>1, BeginTurnMoves, OwnerReads
<1>4. CASE BeginQueue(r)
    <2>1. queue' = queue /\ turn' = turn
        BY <1>4 DEF BeginQueue
    <2> QED BY <1>0, <1>4, <2>1, BeginQueueMoves, OwnerReads
<1>5. CASE Prepare(r)
    <2>1. queue' = queue /\ turn' = turn /\ ~Queued(i)
        BY <1>0, <1>5 DEF Prepare, ReadsHold
    <2> QED BY <1>0, <1>5, <2>1, PrepareMoves, OwnerReads
<1>6. CASE Accept(r)
    <2>1. queue' = queue /\ ~Queued(i) /\ InGate(r)
        BY <1>0, <1>6 DEF Accept, ReadsHold, InGate
    <2>2. CASE turn' = turn
        <3>1. \/ ReqMoves(r, "done", "accepted", req[r].model)
              \/ ReqMoves(r, "done", "conflict", req[r].model)
              \/ turn[i] = NoTurn /\ ReqMoves(r, "enqueue", req[r].answer, req[r].model)
              \/ ReqMoves(r, "done", "busy", req[r].model)
              \/ ReqMoves(r, "done", "error", req[r].model)
            BY <1>0, <1>6, AcceptMoves
        <3> QED BY <1>0, <2>1, <2>2, <3>1, OwnerReads
    <2>3. CASE turn' # turn
        <3>1. /\ turn' = [turn EXCEPT ![i] = NewTurn(req[r].chat, req[r].model, req[r].content)]
              /\ ReqMoves(r, "done", "accepted", req[r].model)
            BY <1>0, <1>6, <2>3, AcceptMoves
        <3>2. \A j \in Ids : j # i => turn'[j] = turn[j]
            BY <3>1 DEF QueueTypeOK
        <3>3. \A j : Queued(j)' <=> Queued(j)
            BY <2>1, SameGood
        <3> QED BY <1>0, <2>1, <3>1, <3>2, <3>3, OwnerWrites
    <2> QED BY <2>2, <2>3
<1>7. CASE Enqueue(r)
    <2>1. turn' = turn /\ turn[i] = NoTurn /\ InGate(r)
        BY <1>0, <1>7 DEF Enqueue, ReadsHold, InGate
    <2>2. CASE queue' = queue
        <3>1. \/ ReqMoves(r, "done", "queued", req[r].model)
              \/ ReqMoves(r, "done", "error", req[r].model)
            BY <1>7, EnqueueMoves
        <3> QED BY <1>0, <2>1, <2>2, <3>1, OwnerReads
    <2>3. CASE queue' # queue
        <3>1. /\ Adds(req[r].chat, Fresh(r)) /\ Fresh(r).id = i
              /\ ReqMoves(r, "done", "queued", req[r].model)
            BY <1>0, <1>7, <2>3, EnqueueMoves
        <3>2. \A j : Queued(j)' <=> Queued(j) \/ j = i
            BY <3>1, AddsOk
        <3> QED BY <1>0, <2>1, <3>1, <3>2, OwnerWrites
    <2> QED BY <2>2, <2>3
<1>8. CASE Disconnect(r)
    BY <1>0, <1>8, ReplyMoves, OwnerReads DEF Disconnect, Answer
<1> QED BY <1>1, <1>2, <1>3, <1>4, <1>5, <1>6, <1>7, <1>8 DEF Admit

LEMMA OwnerOther ==
    ASSUME QueueTypeOK, AllGood, Single, ReadsHold,
           (\E p \in Procs : Sweep(p)) \/ User \/ Environment \/ UNCHANGED vars
    PROVE  Single' /\ ReadsHold'
<1>1. ASSUME req' = req, queue' = queue, turn' = turn PROVE Single' /\ ReadsHold'
    <2>1. \A j : Queued(j)' <=> Queued(j)
        BY <1>1, SameGood
    <2> QED BY <2>1, <1>1, OwnerQuiet
<1>2. ASSUME NEW p \in Procs, Promote(p) PROVE Single' /\ ReadsHold'
    <2>1. req' = req
        BY <1>2 DEF Promote
    <2>2. CASE queue' = queue /\ turn' = turn
        BY <2>1, <2>2, <1>1
    <2>3. CASE ~(queue' = queue /\ turn' = turn)
        <3>1. PICK i : i = prom[p].snap.id
            OBVIOUS
        <3>2. /\ Drops(prom[p].chat, i)
              /\ \/ turn' = turn
                 \/ turn' = [turn EXCEPT ![i] = NewTurn(prom[p].chat, prom[p].model, prom[p].snap.content)]
            BY <2>3, <3>1, <1>2, PromoteMoves
        <3>3. Queued(i) /\ \A j : Queued(j)' <=> Queued(j) /\ j # i
            BY <3>2, DropsOk
        <3>4. \A j \in Ids : j # i => turn'[j] = turn[j]
            BY <3>2 DEF QueueTypeOK
        <3> QED BY <2>1, <3>3, <3>4, OwnerQuiet
    <2> QED BY <2>2, <2>3
<1>3. ASSUME NEW c, NEW i, Drops(c, i), req' = req, turn' = turn PROVE Single' /\ ReadsHold'
    <2>1. \A j : Queued(j)' <=> Queued(j) /\ j # i
        BY <1>3, DropsOk
    <2> QED BY <2>1, <1>3, OwnerQuiet
<1>4. ASSUME NEW p \in Procs, SweepDrop(p) PROVE Single' /\ ReadsHold'
    <2>1. queue' = queue \/ Drops(prom[p].chat, prom[p].snap.id)
        BY <1>4, SweepDropMoves
    <2>2. req' = req /\ turn' = turn
        BY <1>4 DEF SweepDrop
    <2> QED BY <2>1, <2>2, <1>1, <1>3
<1>5. ASSUME NEW p \in Procs, Sweep(p) PROVE Single' /\ ReadsHold'
    <2>1. Promote(p) \/ SweepDrop(p) \/ (req' = req /\ queue' = queue /\ turn' = turn)
        BY <1>5 DEF Sweep, SweepBegin, SweepChat, SweepList, SweepPrepare
    <2> QED BY <2>1, <1>1, <1>2, <1>4
<1>6. CASE User
    <2>1. ASSUME NEW c \in Chats, NEW i \in Ids, DeleteQueued(c, i) PROVE Single' /\ ReadsHold'
        <3>1. Drops(c, i) /\ req' = req /\ turn' = turn
            BY <2>1, DeleteEffect DEF DeleteQueued
        <3> QED BY <3>1, <1>3
    <2>2. ASSUME NEW c \in Chats, NEW i \in Ids, NEW content \in Contents, NEW target \in 1..MaxPerChat,
                 target <= Len(queue[c]), UpdateQueued(c, i, content, target)
          PROVE  Single' /\ ReadsHold'
        <3>1. Keeps(c) /\ req' = req /\ turn' = turn
            BY <2>2, UpdateEffect DEF UpdateQueued
        <3>2. \A j : Queued(j)' <=> Queued(j)
            BY <3>1, KeepsOk
        <3> QED BY <3>1, <3>2, OwnerQuiet
    <2>3. ASSUME NEW c \in Chats, SetPaused(c) PROVE Single' /\ ReadsHold'
        BY <2>3, <1>1 DEF SetPaused
    <2> QED BY <1>6, <2>1, <2>2, <2>3 DEF User
<1>7. CASE Environment
    <2>1. ASSUME NEW i \in Ids, EndTurn(i) PROVE Single' /\ ReadsHold'
        <3>1. req' = req /\ queue' = queue /\ turn[i] # NoTurn
            BY <2>1 DEF EndTurn
        <3>2. \A j \in Ids : j # i => turn'[j] = turn[j]
            BY <2>1 DEF EndTurn, QueueTypeOK
        <3>3. \A j : Queued(j)' <=> Queued(j)
            BY <3>1, SameGood
        <3> QED BY <3>1, <3>2, <3>3, OwnerQuiet
    <2>2. (\E i \in Ids : EndTurn(i)) \/ (req' = req /\ queue' = queue /\ turn' = turn)
        BY <1>7 DEF Environment, ChangeModel, Unresolve
    <2> QED BY <2>1, <2>2, <1>1
<1>8. CASE UNCHANGED vars
    BY <1>8, <1>1 DEF vars
<1> QED BY <1>5, <1>6, <1>7, <1>8

LEMMA OwnerStep ==
    ASSUME \A p, q \in Procs : p = q
    PROVE  OwnerInv /\ [Next]_vars => OwnerInv'
<1> SUFFICES ASSUME OwnerInv, [Next]_vars PROVE OwnerInv'
    OBVIOUS
<1>1. OrderInv /\ QueueTypeOK /\ AllGood /\ GateIsHeld
    BY OrderIffGood DEF OwnerInv, OrderInv
<1>2. Single /\ ReadsHold
    BY <1>1, OwnerParts DEF OwnerInv
<1>3. OrderInv' /\ QueueTypeOK'
    BY <1>1, OrderStep DEF OrderInv
<1>4. GateIsHeld'
    BY <1>1, GateStep
<1>5. Single' /\ ReadsHold'
    BY <1>1, <1>2, OwnerAdmit, OwnerOther DEF Next
<1> QED BY <1>3, <1>4, <1>5, OwnerParts DEF OwnerInv

(***************************************************************************)
(* With one server process an id is owned once: a message still queued has *)
(* not run.  The gate is what makes it so: the two reads of begin, the     *)
(* preparation, the acceptance and the enqueue are five separate steps     *)
(* with promoters, users and other submissions in between                  *)
(* (serialize_admission, begin, accept_turn_inner, enqueue_turn_inner).    *)
(* The gate is local to a process; the server allows one                   *)
(* (docs/self-hosting.md: a second process refuses to boot).               *)
(***************************************************************************)
THEOREM OneOwnerPerId ==
    ASSUME \A p, q \in Procs : p = q
    PROVE  Spec => []QueuedHasNotRun
<1>1. Init => OwnerInv
    <2> SUFFICES ASSUME Init PROVE OwnerInv
        OBVIOUS
    <2>1. OrderInv
        BY OrderInit
    <2>2. \A s \in Reqs : req[s].pc = "new"
        BY DEF Init
    <2>3. GateIsHeld /\ ReadsStayTrue
        BY <2>2 DEF GateIsHeld, InGate, ReadsStayTrue
    <2>4. QueuedHasNotRun
        BY EmptySeq DEF Init, QueuedHasNotRun, AllRows, Range
    <2> QED BY <2>1, <2>3, <2>4 DEF OwnerInv
<1>2. OwnerInv => QueuedHasNotRun
    BY DEF OwnerInv
<1>3. OwnerInv /\ [Next]_vars => OwnerInv'
    BY OwnerStep
<1> QED BY <1>1, <1>2, <1>3, PTL DEF Spec

-----------------------------------------------------------------------------
(* An exact retry converges.                                               *)

\* A submission keeps what it asked for.
ReqsKept ==
    \A s \in Reqs : req'[s].id = req[s].id /\ req'[s].chat = req[s].chat /\ req'[s].content = req[s].content

LEMMA AdmitMoves ==
    ASSUME QueueTypeOK, AllGood, NEW r \in Reqs, Admit(r) \/ Disconnect(r)
    PROVE  \E pc, a, m : ReqMoves(r, pc, a, m)
<1>1. CASE Submit(r)
    BY <1>1, GotoMoves DEF Submit, ReqPc
<1>2. CASE Enter(r)
    BY <1>2, GotoMoves DEF Enter, ReqPc
<1>3. CASE Disconnect(r)
    BY <1>3, ReplyMoves DEF Disconnect, Answer
<1> QED BY <1>1, <1>2, <1>3, BeginTurnMoves, BeginQueueMoves, PrepareMoves, AcceptMoves, EnqueueMoves
        DEF Admit

LEMMA ReqStep ==
    ASSUME QueueTypeOK, AllGood, [Next]_vars
    PROVE  ReqsKept
<1>1. CASE req' = req
    BY <1>1 DEF ReqsKept
<1>2. ASSUME NEW r \in Reqs, Admit(r) \/ Disconnect(r) PROVE ReqsKept
    BY <1>2, AdmitMoves DEF ReqMoves, ReqsKept
<1>3. \/ req' = req
      \/ \E r \in Reqs : Admit(r) \/ Disconnect(r)
    BY DEF Next, vars, Sweep, SweepBegin, SweepChat, SweepList, SweepPrepare, Promote, SweepDrop,
        User, UpdateQueued, DeleteQueued, SetPaused, Environment, EndTurn, ChangeModel, Unresolve
<1> QED BY <1>1, <1>2, <1>3

\* What a step does to the queues.
LEMMA QueueStep ==
    ASSUME QueueTypeOK, AllGood, [Next]_vars
    PROVE  \/ queue' = queue
           \/ \E c, q : Becomes(c, q) /\ From(q, queue[c])
           \/ \E r \in Reqs : Adds(req[r].chat, Fresh(r))
<1> DEFINE Goal ==
        \/ queue' = queue
        \/ \E c, q : Becomes(c, q) /\ From(q, queue[c])
        \/ \E r \in Reqs : Adds(req[r].chat, Fresh(r))
<1>1. ASSUME NEW r \in Reqs, Admit(r) \/ Disconnect(r) PROVE Goal
    <2>1. Enqueue(r) \/ queue' = queue
        BY <1>1 DEF Admit, Submit, Enter, BeginTurn, BeginQueue, Prepare, Accept, Disconnect
    <2> QED BY <2>1, EnqueueMoves
<1>2. ASSUME NEW p \in Procs, Sweep(p) PROVE Goal
    <2>1. Promote(p) \/ SweepDrop(p) \/ queue' = queue
        BY <1>2 DEF Sweep, SweepBegin, SweepChat, SweepList, SweepPrepare
    <2> QED BY <2>1, PromoteMoves, SweepDropMoves DEF Drops
<1>3. ASSUME User PROVE Goal
    <2>1. ASSUME NEW c \in Chats, NEW i \in Ids, DeleteQueued(c, i) PROVE Goal
        BY <2>1, DeleteEffect DEF Drops
    <2>2. ASSUME NEW c \in Chats, NEW i \in Ids, NEW content \in Contents, NEW target \in 1..MaxPerChat,
                 target <= Len(queue[c]), UpdateQueued(c, i, content, target)
          PROVE  Goal
        BY <2>2, UpdateEffect DEF Keeps
    <2>3. ASSUME NEW c \in Chats, SetPaused(c) PROVE Goal
        BY <2>3 DEF SetPaused
    <2> HIDE DEF Goal
    <2> QED BY <1>3, <2>1, <2>2, <2>3 DEF User
<1>4. Environment => Goal
    BY DEF Environment, EndTurn, ChangeModel, Unresolve
<1>5. UNCHANGED vars => Goal
    BY DEF vars
<1> HIDE DEF Goal
<1>6. Goal
    BY <1>1, <1>2, <1>3, <1>4, <1>5 DEF Next
<1> QED BY <1>6 DEF Goal

\* Who starts a turn.
LEMMA TurnOrigin ==
    ASSUME QueueTypeOK, AllGood, [Next]_vars, NEW i \in Ids, turn[i] = NoTurn, turn'[i] # NoTurn
    PROVE  \/ \E r \in Reqs : /\ req[r].pc = "accept" /\ req[r].id = i
                              /\ turn'[i].chat = req[r].chat /\ turn'[i].model = req[r].model
           \/ \E p \in Procs : /\ prom[p].pc = "promote" /\ prom[p].chat \in Chats
                               /\ queue[prom[p].chat] # << >>
                               /\ Head(queue[prom[p].chat]).id = i
                               /\ turn'[i].chat = prom[p].chat /\ turn'[i].model = prom[p].model
<1>1. ASSUME NEW r \in Reqs, Accept(r)
      PROVE  /\ req[r].pc = "accept" /\ req[r].id = i
             /\ turn'[i].chat = req[r].chat /\ turn'[i].model = req[r].model
    <2>1. /\ req[r].pc = "accept" /\ req[r].id \in Ids /\ req[r].chat \in Chats
          /\ req[r].content \in Contents /\ req[r].model \in Models
        BY <1>1, ReqFields DEF Accept, QueueTypeOK
    <2>2. /\ turn[req[r].id] = NoTurn
          /\ turn' = [turn EXCEPT ![req[r].id] = NewTurn(req[r].chat, req[r].model, req[r].content)]
        BY <1>1, AcceptMoves
    <2>3. i = req[r].id
        BY <2>1, <2>2 DEF QueueTypeOK
    <2>4. turn'[i] = NewTurn(req[r].chat, req[r].model, req[r].content)
        BY <2>2, <2>3 DEF QueueTypeOK
    <2>5. turn'[i].chat = req[r].chat /\ turn'[i].model = req[r].model
        BY <2>4 DEF NewTurn
    <2> QED BY <2>1, <2>3, <2>5
<1>2. ASSUME NEW p \in Procs, Promote(p)
      PROVE  /\ prom[p].pc = "promote" /\ prom[p].chat \in Chats /\ queue[prom[p].chat] # << >>
             /\ Head(queue[prom[p].chat]).id = i
             /\ turn'[i].chat = prom[p].chat /\ turn'[i].model = prom[p].model
    <2>1. /\ prom[p].pc = "promote" /\ prom[p].snap.id \in Ids /\ prom[p].chat \in Chats
          /\ prom[p].snap.content \in Contents /\ prom[p].model \in Models
        BY <1>2, PromFields, RowFields DEF Promote, QueueTypeOK
    <2>2. /\ queue[prom[p].chat] # << >> /\ prom[p].snap = Head(queue[prom[p].chat])
          /\ turn[prom[p].snap.id] = NoTurn
          /\ turn' = [turn EXCEPT ![prom[p].snap.id] =
                          NewTurn(prom[p].chat, prom[p].model, prom[p].snap.content)]
        BY <1>2, PromoteMoves
    <2>3. i = prom[p].snap.id
        BY <2>1, <2>2 DEF QueueTypeOK
    <2>4. turn'[i] = NewTurn(prom[p].chat, prom[p].model, prom[p].snap.content)
        BY <2>2, <2>3 DEF QueueTypeOK
    <2>5. turn'[i].chat = prom[p].chat /\ turn'[i].model = prom[p].model
        BY <2>4 DEF NewTurn
    <2> QED BY <2>1, <2>2, <2>3, <2>5
<1>3. ~(\E j \in Ids : EndTurn(j))
    BY DEF EndTurn, QueueTypeOK
<1>4. (\E r \in Reqs : Accept(r)) \/ (\E p \in Procs : Promote(p))
    <2>1. turn' # turn
        OBVIOUS
    <2> QED BY <2>1, <1>3 DEF Next, vars, Admit, Submit, Enter, BeginTurn, BeginQueue, Prepare, Enqueue,
            Disconnect, Sweep, SweepBegin, SweepChat, SweepList, SweepPrepare, SweepDrop, User, UpdateQueued,
            DeleteQueued, SetPaused, Environment, ChangeModel, Unresolve
<1> QED BY <1>1, <1>2, <1>4

\* Rows and turns keep coming from submissions.
LEMMA AskedStep ==
    ASSUME QueueTypeOK, AllGood, WereAsked, [Next]_vars
    PROVE  WereAsked'
<1> DEFINE Row1(c, e) == \E s \in Reqs : req[s].id = e.id /\ req[s].chat = c /\ req[s].content = e.fp
           Row2(c, e) == \E s \in Reqs : req'[s].id = e.id /\ req'[s].chat = c /\ req'[s].content = e.fp
<1>1. \A c, e : Row1(c, e) => Row2(c, e)
    BY ReqStep DEF ReqsKept
<1>2. \A c \in Chats : \A k \in DOMAIN queue[c] : Row1(c, queue[c][k])
    BY DEF WereAsked
<1>3. \A c \in Chats : \A k \in DOMAIN queue'[c] : Row2(c, queue'[c][k])
    <2>1. CASE queue' = queue
        <3> HIDE DEF Row1, Row2
        <3> QED BY <2>1, <1>1, <1>2
    <2>2. ASSUME NEW c, NEW q, Becomes(c, q), From(q, queue[c])
          PROVE  \A d \in Chats : \A k \in DOMAIN queue'[d] : Row2(d, queue'[d][k])
        <3>1. c \in Chats /\ queue'[c] = q /\ \A d \in Chats : d # c => queue'[d] = queue[d]
            BY <2>2, BecomesOk
        <3>2. \A k \in DOMAIN q : Row1(c, q[k])
            BY <2>2, <3>1, <1>2 DEF From
        <3> HIDE DEF Row1, Row2
        <3>3. ASSUME NEW d \in Chats, NEW k \in DOMAIN queue'[d] PROVE Row2(d, queue'[d][k])
            <4>1. CASE d = c
                BY <4>1, <3>1, <3>2, <1>1
            <4>2. CASE d # c
                BY <4>2, <3>1, <1>1, <1>2
            <4> QED BY <4>1, <4>2
        <3> QED BY <3>3
    <2>3. ASSUME NEW r \in Reqs, Adds(req[r].chat, Fresh(r))
          PROVE  \A d \in Chats : \A k \in DOMAIN queue'[d] : Row2(d, queue'[d][k])
        <3>1. PICK c : c = req[r].chat
            OBVIOUS
        <3>2. PICK q : Becomes(c, q) /\ Extended(q, queue[c], Fresh(r))
            BY <2>3, <3>1 DEF Adds
        <3>3. c \in Chats /\ queue'[c] = q /\ \A d \in Chats : d # c => queue'[d] = queue[d]
            BY <3>2, BecomesOk
        <3>4. Row1(c, Fresh(r))
            BY <3>1 DEF Fresh
        <3> HIDE DEF Row1, Row2
        <3>5. \A k \in DOMAIN q : Row1(c, q[k])
            BY <3>2, <3>3, <3>4, <1>2 DEF Extended
        <3>6. ASSUME NEW d \in Chats, NEW k \in DOMAIN queue'[d] PROVE Row2(d, queue'[d][k])
            <4>1. CASE d = c
                BY <4>1, <3>3, <3>5, <1>1
            <4>2. CASE d # c
                BY <4>2, <3>3, <1>1, <1>2
            <4> QED BY <4>1, <4>2
        <3> QED BY <3>6
    <2> HIDE DEF Row1, Row2
    <2> QED BY <2>1, <2>2, <2>3, QueueStep
<1>4. ASSUME NEW i \in Ids, turn'[i] # NoTurn
      PROVE  \E s \in Reqs : req'[s].id = i /\ req'[s].chat = turn'[i].chat
    <2>1. SUFFICES \E s \in Reqs : req[s].id = i /\ req[s].chat = turn'[i].chat
        BY ReqStep DEF ReqsKept
    <2>2. CASE turn[i] # NoTurn
        <3>1. turn'[i].chat = turn[i].chat
            BY <2>2, TurnStep DEF TurnsKept
        <3> QED BY <2>2, <3>1 DEF WereAsked
    <2>3. CASE turn[i] = NoTurn
        <3>1. ASSUME NEW p \in Procs, prom[p].chat \in Chats, queue[prom[p].chat] # << >>,
                     Head(queue[prom[p].chat]).id = i, turn'[i].chat = prom[p].chat
              PROVE  \E s \in Reqs : req[s].id = i /\ req[s].chat = turn'[i].chat
            <4>1. PICK c : c = prom[p].chat
                OBVIOUS
            <4>2. Good(queue[c])
                BY <3>1, <4>1 DEF AllGood
            <4>3. Head(queue[c]) = queue[c][1] /\ 1 \in DOMAIN queue[c]
                BY <3>1, <4>1, <4>2, TailGood
            <4>4. Row1(c, Head(queue[c]))
                BY <3>1, <4>1, <4>3, <1>2
            <4> QED BY <3>1, <4>1, <4>4
        <3>2. CASE \E r \in Reqs : req[r].id = i /\ turn'[i].chat = req[r].chat
            BY <3>2
        <3> QED BY <2>3, <3>1, <3>2, <1>4, TurnOrigin
    <2> QED BY <2>2, <2>3
<1> QED BY <1>3, <1>4 DEF WereAsked

\* A conflict is answered once: the step that answers it ends the submission and
\* keeps its model, and no step of the submission follows.
LEMMA ConflictMoves ==
    ASSUME QueueTypeOK, AllGood, NEW r \in Reqs, Admit(r) \/ Disconnect(r),
           req'[r].answer = "conflict"
    PROVE  \/ req[r].answer = "conflict" /\ req[r].pc # "done"
           \/ req'[r].pc = "done" /\ req'[r].model = req[r].model
<1>1. req[r].pc # "done"
    BY DEF Admit, Submit, Enter, BeginTurn, BeginQueue, Prepare, Accept, Enqueue, Disconnect, InGate
<1> SUFFICES ASSUME req[r].answer # "conflict"
             PROVE  req'[r].pc = "done" /\ req'[r].model = req[r].model
    BY <1>1
<1>2. ASSUME NEW pc, NEW a, NEW m, ReqMoves(r, pc, a, m)
      PROVE  a = "conflict" /\ req'[r].pc = pc /\ req'[r].model = m
    BY <1>2 DEF ReqMoves
<1>3. ASSUME Submit(r) PROVE FALSE
    BY <1>2, <1>3, GotoMoves DEF Submit, ReqPc
<1>4. ASSUME Enter(r) PROVE FALSE
    BY <1>2, <1>4, GotoMoves DEF Enter, ReqPc
<1>5. ASSUME BeginTurn(r) PROVE ReqMoves(r, "done", "conflict", req[r].model)
    BY <1>2, <1>5, BeginTurnMoves
<1>6. ASSUME BeginQueue(r) PROVE ReqMoves(r, "done", "conflict", req[r].model)
    BY <1>2, <1>6, BeginQueueMoves
<1>7. ASSUME Prepare(r) PROVE FALSE
    BY <1>2, <1>7, PrepareMoves
<1>8. ASSUME Accept(r) PROVE ReqMoves(r, "done", "conflict", req[r].model)
    BY <1>2, <1>8, AcceptMoves
<1>9. ASSUME Enqueue(r) PROVE FALSE
    BY <1>2, <1>9, EnqueueMoves
<1>10. ASSUME Disconnect(r) PROVE FALSE
    BY <1>2, <1>10, ReplyMoves DEF Disconnect, Answer
<1>11. ReqMoves(r, "done", "conflict", req[r].model)
    BY <1>3, <1>4, <1>5, <1>6, <1>7, <1>8, <1>9, <1>10 DEF Admit
<1> QED BY <1>2, <1>11

\* Why a conflict is answered.
LEMMA ConflictStep ==
    ASSUME QueueTypeOK, AllGood, WereAsked, NEW r \in Reqs, Admit(r) \/ Disconnect(r),
           req'[r].answer = "conflict", req[r].answer # "conflict"
    PROVE  Cause(r)
<1>1. ASSUME NEW pc, NEW a, NEW m, ReqMoves(r, pc, a, m), a = req[r].answer \/ a # "conflict" PROVE FALSE
    BY <1>1 DEF ReqMoves
<1>2. req[r].id \in Ids /\ req[r].chat \in Chats
    BY ReqFields
<1>3. ASSUME turn[req[r].id] # NoTurn,
             ~(turn[req[r].id].chat = req[r].chat /\ turn[req[r].id].content = req[r].content)
      PROVE  Cause(r)
    <2>1. PICK s \in Reqs : req[s].id = req[r].id /\ req[s].chat = turn[req[r].id].chat
        BY <1>2, <1>3 DEF WereAsked
    <2> QED BY <2>1, <1>3 DEF Cause, UsedOtherwise
<1>4. ASSUME Queued(req[r].id),
             ~(\E q \in Range(queue[req[r].chat]) : q.id = req[r].id /\ q.fp = req[r].content)
      PROVE  Cause(r)
    <2>1. PICK d \in Chats : req[r].id \in IdsOf(queue[d])
        BY <1>4 DEF Queued
    <2>2. PICK k \in DOMAIN queue[d] : queue[d][k].id = req[r].id
        BY <2>1 DEF IdsOf
    <2>3. PICK s \in Reqs : req[s].id = req[r].id /\ req[s].chat = d /\ req[s].content = queue[d][k].fp
        BY <2>2 DEF WereAsked
    <2>4. CASE d # req[r].chat
        BY <2>3, <2>4 DEF Cause, UsedOtherwise
    <2>5. CASE d = req[r].chat
        <3>1. queue[d][k] \in Range(queue[req[r].chat])
            BY <2>2, <2>5 DEF Range
        <3>2. queue[d][k].fp # req[r].content
            BY <3>1, <2>2, <1>4
        <3> QED BY <3>2, <2>3 DEF Cause, UsedOtherwise
    <2> QED BY <2>4, <2>5
<1>5. ASSUME Accept(r), turn[req[r].id] # NoTurn,
             ~ExactTurn(turn[req[r].id], req[r].chat, req[r].model, req[r].content)
      PROVE  Cause(r)
    <2>1. req[r].model \in Models
        BY <1>5 DEF Accept, QueueTypeOK
    <2>2. CASE turn[req[r].id].chat = req[r].chat /\ turn[req[r].id].content = req[r].content
        BY <2>1, <2>2, <1>5 DEF ExactTurn, Cause
    <2> QED BY <2>2, <1>3, <1>5
<1>6. ASSUME Submit(r) PROVE FALSE
    BY <1>1, <1>6, GotoMoves DEF Submit, ReqPc
<1>7. ASSUME Enter(r) PROVE FALSE
    BY <1>1, <1>7, GotoMoves DEF Enter, ReqPc
<1>8. ASSUME BeginTurn(r) PROVE Cause(r)
    BY <1>1, <1>3, <1>8, BeginTurnMoves
<1>9. ASSUME BeginQueue(r) PROVE Cause(r)
    BY <1>1, <1>4, <1>9, BeginQueueMoves
<1>10. ASSUME Prepare(r) PROVE FALSE
    BY <1>1, <1>10, PrepareMoves
<1>11. ASSUME Accept(r) PROVE Cause(r)
    BY <1>1, <1>5, <1>11, AcceptMoves
<1>12. ASSUME Enqueue(r) PROVE FALSE
    BY <1>1, <1>12, EnqueueMoves
<1>13. ASSUME Disconnect(r) PROVE FALSE
    BY <1>1, <1>13, ReplyMoves DEF Disconnect, Answer
<1> QED BY <1>6, <1>7, <1>8, <1>9, <1>10, <1>11, <1>12, <1>13 DEF Admit

\* A cause stays one: ids, turns and deletions are not taken back.
LEMMA CauseStays ==
    ASSUME QueueTypeOK, ReqsKept, TurnsKept, dead \subseteq dead', NEW s \in Reqs,
           req'[s].model = req[s].model, Cause(s)
    PROVE  Cause(s)'
<1>1. /\ req[s].id \in Ids /\ req'[s].id = req[s].id
      /\ req'[s].chat = req[s].chat /\ req'[s].content = req[s].content
    BY ReqFields DEF ReqsKept
<1>2. turn[req[s].id] # NoTurn =>
          /\ turn'[req[s].id] # NoTurn /\ turn'[req[s].id].model = turn[req[s].id].model
          /\ turn'[req[s].id].content = turn[req[s].id].content
    BY <1>1 DEF TurnsKept
<1>3. UsedOtherwise(s) => UsedOtherwise(s)'
    BY <1>1, <1>2 DEF UsedOtherwise, ReqsKept
<1>4. Lost(req[s].content) => Lost(req[s].content)'
    BY <1>1 DEF Lost
<1> QED BY <1>1, <1>2, <1>3, <1>4 DEF Cause

LEMMA RetryStep == OrderInv /\ RetryInv /\ [Next]_vars => RetryInv'
<1> SUFFICES ASSUME OrderInv, RetryInv, [Next]_vars PROVE RetryInv'
    OBVIOUS
<1>1. QueueTypeOK /\ AllGood /\ WereAsked /\ ConflictIsFinal /\ ConflictHasCause
    BY OrderIffGood DEF RetryInv, OrderInv
<1>2. QueueTypeOK'
    BY OrderStep DEF OrderInv
<1>3. WereAsked' /\ ReqsKept /\ TurnsKept
    BY <1>1, AskedStep, ReqStep, TurnStep
<1>4. dead \subseteq dead'
    BY DEF Next, vars, Admit, Submit, Enter, BeginTurn, BeginQueue, Prepare, Accept, Enqueue,
        Disconnect, Sweep, SweepBegin, SweepChat, SweepList, SweepPrepare, Promote, SweepDrop,
        User, UpdateQueued, DeleteQueued, SetPaused, Environment, EndTurn, ChangeModel, Unresolve
<1>5. ASSUME NEW s \in Reqs, req'[s].answer = "conflict"
      PROVE  Cause(s) /\ req'[s].pc = "done" /\ req'[s].model = req[s].model
    <2>1. CASE req'[s] = req[s]
        BY <2>1, <1>1, <1>5 DEF ConflictIsFinal, ConflictHasCause
    <2>2. CASE req'[s] # req[s]
        <3>1. PICK r \in Reqs : Admit(r) \/ Disconnect(r)
            <4>1. req' # req
                BY <2>2
            <4> QED BY <4>1 DEF Next, vars, Sweep, SweepBegin, SweepChat, SweepList, SweepPrepare, Promote,
                    SweepDrop, User, UpdateQueued, DeleteQueued, SetPaused, Environment, EndTurn,
                    ChangeModel, Unresolve
        <3>2. s = r
            BY <1>1, <2>2, <3>1, AdmitMoves DEF ReqMoves
        <3>3. req[s].answer = "conflict" => req[s].pc = "done"
            BY <1>1 DEF ConflictIsFinal
        <3>4. \/ req[s].answer = "conflict" /\ req[s].pc # "done"
              \/ req'[s].pc = "done" /\ req'[s].model = req[s].model
            BY <1>1, <1>5, <3>1, <3>2, ConflictMoves
        <3>5. req[s].answer # "conflict"
            <4>1. req[s].pc # "done"
                BY <3>1, <3>2 DEF Admit, Submit, Enter, BeginTurn, BeginQueue, Prepare, Accept, Enqueue,
                    Disconnect, InGate
            <4> QED BY <4>1, <3>3
        <3> QED BY <1>1, <1>5, <3>1, <3>2, <3>4, <3>5, ConflictStep
    <2> QED BY <2>1, <2>2
<1>6. ConflictHasCause'
    BY <1>1, <1>3, <1>4, <1>5, CauseStays DEF ConflictHasCause
<1>7. ConflictIsFinal'
    BY <1>5 DEF ConflictIsFinal
<1> QED BY <1>2, <1>3, <1>6, <1>7 DEF RetryInv

(***************************************************************************)
(* A conflict has a cause: a submission is refused only if its id was used *)
(* with another content or in another chat, the queued message was edited  *)
(* before it ran, the turn was started with another model than the one     *)
(* resolved for the retry, or a document of the message is gone.  For any  *)
(* number of processes, retries and promoters, with the catalog and the    *)
(* documents changing between any two steps (begin, accept_turn_inner,     *)
(* exact_accepted_turn_on).                                                *)
(***************************************************************************)
THEOREM ConflictsHaveACause == Spec => []ConflictHasCause
<1>1. Init => RetryInv
    <2> SUFFICES ASSUME Init PROVE RetryInv
        OBVIOUS
    <2>1. QueueTypeOK
        BY OrderInit DEF OrderInv
    <2>2. WereAsked
        BY EmptySeq DEF Init, WereAsked
    <2>3. \A r \in Reqs : req[r].answer = "none"
        BY DEF Init
    <2>4. ConflictHasCause /\ ConflictIsFinal
        BY <2>3 DEF ConflictHasCause, ConflictIsFinal
    <2> QED BY <2>1, <2>2, <2>4 DEF RetryInv
<1>2. RetryInv => ConflictHasCause
    BY DEF RetryInv
<1> QED BY <1>1, <1>2, OrderInit, OrderStep, RetryStep, PTL DEF Spec
=============================================================================
