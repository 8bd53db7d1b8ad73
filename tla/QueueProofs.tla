---------------------------- MODULE QueueProofs ----------------------------
(***************************************************************************)
(* Proofs about the lists of kernel/sched/queue.c, for any number of pcbs  *)
(* and of queues and any priorities: threaded through the pcbs, they are   *)
(* the sequences that modules Sched and Sync work with.                    *)
(*                                                                         *)
(* Rep(m, s) says that the memory m holds the sequences s, one for each    *)
(* queue: no pcb is in them twice, and head, tail, prev and next are what  *)
(* the sequences say.  Each operation has a lemma on what it does to s.    *)
(***************************************************************************)
EXTENDS Queue, TLAPS

Link == Item \cup {NULL}

Memories == [head : [Queues -> Link], tail : [Queues -> Link],
             prev : [Item -> Link], next : [Item -> Link]]

\* The list of q is l.
IsList(m, q, l) ==
  /\ m.head[q] = IF Len(l) = 0 THEN NULL ELSE l[1]
  /\ m.tail[q] = IF Len(l) = 0 THEN NULL ELSE l[Len(l)]
  /\ \A i \in 1 .. Len(l) :
       /\ m.next[l[i]] = IF i = Len(l) THEN NULL ELSE l[i + 1]
       /\ m.prev[l[i]] = IF i = 1 THEN NULL ELSE l[i - 1]

\* No pcb is twice in the sequences.
Once(s) ==
  \A q, r \in Queues : \A i \in 1 .. Len(s[q]), j \in 1 .. Len(s[r]) :
    s[q][i] = s[r][j] => q = r /\ i = j

Rep(m, s) ==
  /\ m \in Memories
  /\ s \in [Queues -> Seq(Item)]
  /\ Once(s)
  /\ \A q \in Queues : IsList(m, q, s[q])

\* p is in none of the sequences.
Fresh(s, p) == \A q \in Queues : \A i \in 1 .. Len(s[q]) : s[q][i] # p

LEMMA Null == NULL \notin Item /\ ready_queue \in Queues
BY QueueAssumption

-----------------------------------------------------------------------------
(* Sequences                                                               *)

LEMMA SameSeq ==
  ASSUME NEW S, NEW s \in Seq(S), NEW t \in Seq(S), Len(s) = Len(t),
         \A i \in 1 .. Len(s) : s[i] = t[i]
  PROVE  s = t
OBVIOUS

LEMMA SeqFacts ==
  ASSUME NEW S, NEW s \in Seq(S)
  PROVE  Len(s) \in Nat /\ \A i \in 1 .. Len(s) : s[i] \in S
OBVIOUS

LEMMA SeqOf ==
  ASSUME NEW S, NEW n \in Nat, NEW f \in [1 .. n -> S]
  PROVE  f \in Seq(S) /\ Len(f) = n
OBVIOUS

\* Without its element at position i.
Without(l, i) == [j \in 1 .. Len(l) - 1 |-> IF j < i THEN l[j] ELSE l[j + 1]]

LEMMA WithoutSeq ==
  ASSUME NEW S, NEW l \in Seq(S), NEW i \in 1 .. Len(l)
  PROVE  /\ Without(l, i) \in Seq(S)
         /\ Len(Without(l, i)) = Len(l) - 1
         /\ \A j \in 1 .. Len(l) - 1 :
              Without(l, i)[j] = IF j < i THEN l[j] ELSE l[j + 1]
<1>1. Len(l) \in Nat /\ Len(l) - 1 \in Nat /\ \A j \in 1 .. Len(l) : l[j] \in S
  OBVIOUS
<1>2. Without(l, i) \in [1 .. Len(l) - 1 -> S]
  BY <1>1 DEF Without
<1> QED BY <1>1, <1>2, SeqOf DEF Without

LEMMA AppendSeq ==
  ASSUME NEW S, NEW l \in Seq(S), NEW p \in S
  PROVE  /\ Append(l, p) \in Seq(S)
         /\ Len(Append(l, p)) = Len(l) + 1
         /\ \A j \in 1 .. Len(l) : Append(l, p)[j] = l[j]
         /\ Append(l, p)[Len(l) + 1] = p
OBVIOUS

LEMMA PrependSeq ==
  ASSUME NEW S, NEW l \in Seq(S), NEW p \in S
  PROVE  /\ <<p>> \o l \in Seq(S)
         /\ Len(<<p>> \o l) = Len(l) + 1
         /\ (<<p>> \o l)[1] = p
         /\ \A j \in 1 .. Len(l) : (<<p>> \o l)[j + 1] = l[j]
OBVIOUS

LEMMA ConcatSeq ==
  ASSUME NEW S, NEW l \in Seq(S), NEW k \in Seq(S)
  PROVE  /\ l \o k \in Seq(S)
         /\ Len(l \o k) = Len(l) + Len(k)
         /\ \A j \in 1 .. Len(l) : (l \o k)[j] = l[j]
         /\ \A j \in 1 .. Len(k) : (l \o k)[Len(l) + j] = k[j]
OBVIOUS

-----------------------------------------------------------------------------
(* The operations                                                          *)

LEMMA RepParts ==
  ASSUME NEW m, NEW s, Rep(m, s), NEW q \in Queues
  PROVE  /\ m.head \in [Queues -> Link] /\ m.tail \in [Queues -> Link]
         /\ m.next \in [Item -> Link] /\ m.prev \in [Item -> Link]
         /\ s[q] \in Seq(Item) /\ Len(s[q]) \in Nat
         /\ \A i \in 1 .. Len(s[q]) : s[q][i] \in Item
         /\ IsList(m, q, s[q])
<1>1. m \in Memories /\ s[q] \in Seq(Item) /\ IsList(m, q, s[q])
  BY Zenon DEF Rep
<1> QED BY <1>1 DEF Memories

\* p is in the list of q or in none.
Near(s, q, p) == Fresh(s, p) \/ \E i \in 1 .. Len(s[q]) : p = s[q][i]

\* An operation on q leads from m to t and writes only the pointers of pcbs that
\* are in the list of q or in none.
WritesOnly(m, t, s, q) ==
  /\ t \in Memories
  /\ \A r \in Queues : q # r => t.head[r] = m.head[r] /\ t.tail[r] = m.tail[r]
  /\ \A p \in Item : \/ t.next[p] = m.next[p] /\ t.prev[p] = m.prev[p]
                     \/ Near(s, q, p)

\* l can be the new list of q.
CanBe(s, q, l) ==
  /\ l \in Seq(Item)
  /\ \A i \in 1 .. Len(l) : Near(s, q, l[i])
  /\ \A i, j \in 1 .. Len(l) : l[i] = l[j] => i = j

\* The other lists stay.
LEMMA OtherLists ==
  ASSUME NEW m, NEW s, Rep(m, s), NEW q \in Queues, NEW r \in Queues, q # r,
         NEW t, WritesOnly(m, t, s, q)
  PROVE  IsList(t, r, s[r])
<1>1. IsList(m, r, s[r]) /\ \A i \in 1 .. Len(s[r]) : s[r][i] \in Item
  BY Zenon, RepParts
<1>2. ASSUME NEW i \in 1 .. Len(s[r])
      PROVE  t.next[s[r][i]] = m.next[s[r][i]] /\ t.prev[s[r][i]] = m.prev[s[r][i]]
  <2>1. ~Fresh(s, s[r][i])
    BY Zenon DEF Fresh
  <2>2. ~\E j \in 1 .. Len(s[q]) : s[r][i] = s[q][j]
    BY Zenon DEF Rep, Once
  <2> QED BY Zenon, <1>1, <2>1, <2>2 DEF WritesOnly, Near
<1>3. t.head[r] = m.head[r] /\ t.tail[r] = m.tail[r]
  BY Zenon DEF WritesOnly
<1> QED BY <1>1, <1>2, <1>3 DEF IsList

\* The sequences after an operation on q.
LEMMA RepAfter ==
  ASSUME NEW m, NEW s, Rep(m, s), NEW q \in Queues, NEW t, WritesOnly(m, t, s, q),
         NEW l, CanBe(s, q, l), IsList(t, q, l)
  PROVE  Rep(t, [s EXCEPT ![q] = l])
<1> DEFINE u == [s EXCEPT ![q] = l]
<1>1. s \in [Queues -> Seq(Item)] /\ Once(s) /\ l \in Seq(Item) /\ t \in Memories
  BY Zenon DEF Rep, CanBe, WritesOnly
<1>2. u \in [Queues -> Seq(Item)] /\ u[q] = l /\ \A r \in Queues : q # r => u[r] = s[r]
  BY <1>1
<1> HIDE DEF u
<1>3. \A r \in Queues : IsList(t, r, u[r])
  <2> TAKE r \in Queues
  <2>1. CASE q = r
    BY Zenon, <1>2, <2>1
  <2>2. CASE q # r
    BY Zenon, <1>2, <2>2, OtherLists
  <2> QED BY Zenon, <2>1, <2>2
<1>4. Once(u)
  <2>1. ASSUME NEW r \in Queues, q # r, NEW i \in 1 .. Len(l), NEW j \in 1 .. Len(s[r])
        PROVE  l[i] # s[r][j]
    BY <1>1, <2>1 DEF Fresh, Once, CanBe, Near
  <2>2. \A i, j \in 1 .. Len(l) : l[i] = l[j] => i = j
    BY Zenon DEF CanBe
  <2> SUFFICES ASSUME NEW r1 \in Queues, NEW r2 \in Queues,
                      NEW i \in 1 .. Len(u[r1]), NEW j \in 1 .. Len(u[r2]),
                      u[r1][i] = u[r2][j]
               PROVE  r1 = r2 /\ i = j
    BY Zenon DEF Once
  <2>3. CASE r1 # q /\ r2 # q
    BY <1>1, <1>2, <2>3 DEF Once
  <2>4. CASE r1 = q \/ r2 = q
    BY <1>2, <2>1, <2>2, <2>4
  <2> QED BY Zenon, <2>3, <2>4
<1> QED BY Zenon, <1>1, <1>2, <1>3, <1>4 DEF Rep, u

\* queue_push: a pcb that is in no list goes to the end of q.
LEMMA PushRep ==
  ASSUME NEW m, NEW s, Rep(m, s), NEW q \in Queues, NEW p \in Item, Fresh(s, p)
  PROVE  Rep(queue_push(m, q, p), [s EXCEPT ![q] = Append(s[q], p)])
<1> DEFINE l == s[q]
           k == Append(l, p)
           t == queue_push(m, q, p)
<1>0. /\ m \in Memories
      /\ m.head \in [Queues -> Link] /\ m.tail \in [Queues -> Link]
      /\ m.next \in [Item -> Link] /\ m.prev \in [Item -> Link]
      /\ l \in Seq(Item) /\ Len(l) \in Nat /\ \A i \in 1 .. Len(l) : l[i] \in Item /\ l[i] # p
      /\ IsList(m, q, l) /\ p \in Link /\ NULL \in Link
  BY Zenon, RepParts DEF Rep, Fresh, Link
<1>1. /\ k \in Seq(Item) /\ Len(k) = Len(l) + 1
      /\ \A j \in 1 .. Len(l) : k[j] = l[j]
      /\ k[Len(l) + 1] = p
  BY <1>0, AppendSeq
<1>2. m.head[q] = NULL <=> Len(l) = 0
  BY <1>0, Null DEF IsList
<1>3. CanBe(s, q, k)
  <2>1. \A i \in 1 .. Len(l) : Near(s, q, l[i])
    BY Zenon DEF Near
  <2>2. Near(s, q, p)
    BY Zenon DEF Near
  <2>3. \A i, j \in 1 .. Len(l) : l[i] = l[j] => i = j
    BY Zenon DEF Rep, Once
  <2> HIDE DEF k, l
  <2>4. \A i \in 1 .. Len(k) : i \in 1 .. Len(l) \/ i = Len(l) + 1
    BY <1>0, <1>1
  <2>5. \A i \in 1 .. Len(k) : Near(s, q, k[i])
    BY Zenon, <1>1, <2>1, <2>2, <2>4
  <2>6. \A i, j \in 1 .. Len(k) : k[i] = k[j] => i = j
    BY <1>0, <1>1, <2>3, <2>4
  <2> QED BY Zenon, <1>1, <2>5, <2>6 DEF CanBe
<1>4. IsList(t, q, k) /\ WritesOnly(m, t, s, q)
  <2>1. CASE Len(l) = 0
    <3>1. /\ t \in Memories
          /\ t.head = [m.head EXCEPT ![q] = p] /\ t.tail = [m.tail EXCEPT ![q] = p]
          /\ t.next = [m.next EXCEPT ![p] = NULL] /\ t.prev = [m.prev EXCEPT ![p] = NULL]
      BY Zenon, <1>0, <1>2, <2>1 DEF queue_push, queue_is_empty, Memories
    <3> HIDE DEF t, k, l
    <3>2. Len(k) = 1 /\ k[1] = p
      BY <1>1, <2>1
    <3>3. t.head[q] = p /\ t.tail[q] = p /\ t.next[p] = NULL /\ t.prev[p] = NULL
      BY <1>0, <3>1
    <3>4. IsList(t, q, k)
      BY <3>2, <3>3 DEF IsList
    <3>5. \A r \in Queues : q # r => t.head[r] = m.head[r] /\ t.tail[r] = m.tail[r]
      BY <1>0, <3>1
    <3>6. \A x \in Item : x # p => t.next[x] = m.next[x] /\ t.prev[x] = m.prev[x]
      BY <1>0, <3>1
    <3> QED BY <3>1, <3>4, <3>5, <3>6 DEF WritesOnly, Near
  <2>2. CASE Len(l) # 0
    <3> DEFINE e == m.tail[q]
    <3>0. e = l[Len(l)] /\ e \in Item /\ e # p /\ Len(l) \in 1 .. Len(l)
      BY <1>0, <2>2 DEF IsList
    <3>7. Near(s, q, e) /\ Near(s, q, p) /\ \A i \in 1 .. Len(l) : l[i] = e => i = Len(l)
      <4>1. \A i, j \in 1 .. Len(l) : l[i] = l[j] => i = j
        BY Zenon DEF Rep, Once
      <4> QED BY <3>0, <4>1 DEF Near
    <3> HIDE DEF e
    <3>1. /\ t.head = m.head /\ t.tail = [m.tail EXCEPT ![q] = p]
          /\ t.next = [m.next EXCEPT ![e] = p, ![p] = NULL]
          /\ t.prev = [m.prev EXCEPT ![p] = e]
      BY <1>0, <1>2, <2>2 DEF queue_push, queue_is_empty, Memories, e
    <3>2. t \in Memories
      BY Zenon, <1>0, <1>2, <2>2 DEF queue_push, queue_is_empty, Memories
    <3> HIDE DEF t, k, l
    <3>3. /\ t.head[q] = m.head[q] /\ t.tail[q] = p
          /\ t.next[p] = NULL /\ t.next[e] = p /\ t.prev[p] = e
          /\ t.prev[e] = m.prev[e]
      BY <1>0, <3>0, <3>1
    <3>4. \A x \in Item : x # p => t.prev[x] = m.prev[x] /\ (x # e => t.next[x] = m.next[x])
      BY <1>0, <3>1
    <3>5. \A r \in Queues : q # r => t.head[r] = m.head[r] /\ t.tail[r] = m.tail[r]
      BY <1>0, <3>1
    <3>6. IsList(t, q, k)
      <4>1. Len(k) # 0 /\ t.head[q] = k[1] /\ t.tail[q] = k[Len(k)]
        BY <1>0, <1>1, <2>2, <3>3 DEF IsList
      <4>2. ASSUME NEW i \in 1 .. Len(k)
            PROVE  /\ t.next[k[i]] = IF i = Len(k) THEN NULL ELSE k[i + 1]
                   /\ t.prev[k[i]] = IF i = 1 THEN NULL ELSE k[i - 1]
        <5>1. CASE i = Len(l) + 1
          BY <1>0, <1>1, <2>2, <3>0, <3>3, <5>1
        <5>2. CASE i = Len(l)
          BY <1>0, <1>1, <2>2, <3>0, <3>3, <5>2 DEF IsList
        <5>3. CASE i < Len(l)
          <6>1. k[i] = l[i] /\ k[i + 1] = l[i + 1] /\ l[i] # e /\ l[i] # p /\ l[i] \in Item
            BY <1>0, <1>1, <3>7, <5>3
          <6>2. i # 1 => k[i - 1] = l[i - 1]
            BY <1>0, <1>1, <5>3
          <6>3. t.next[l[i]] = m.next[l[i]] /\ t.prev[l[i]] = m.prev[l[i]]
            BY Zenon, <3>4, <6>1
          <6>4. m.next[l[i]] = l[i + 1] /\ m.prev[l[i]] = IF i = 1 THEN NULL ELSE l[i - 1]
            BY <1>0, <5>3 DEF IsList
          <6> QED BY <1>0, <1>1, <5>3, <6>1, <6>2, <6>3, <6>4
        <5> QED BY <1>0, <1>1, <5>1, <5>2, <5>3
      <4> QED BY Zenon, <4>1, <4>2 DEF IsList
    <3> QED BY <3>2, <3>4, <3>5, <3>6, <3>7 DEF WritesOnly
  <2> QED BY <2>1, <2>2
<1> QED BY Zenon, <1>0, <1>3, <1>4, RepAfter

\* enqueue: a pcb that is in no list goes to the front of q.
LEMMA EnqueueRep ==
  ASSUME NEW m, NEW s, Rep(m, s), NEW q \in Queues, NEW p \in Item, Fresh(s, p)
  PROVE  Rep(enqueue(m, q, p), [s EXCEPT ![q] = <<p>> \o s[q]])
<1> DEFINE l == s[q]
           k == <<p>> \o l
           t == enqueue(m, q, p)
<1>0. /\ m \in Memories
      /\ m.head \in [Queues -> Link] /\ m.tail \in [Queues -> Link]
      /\ m.next \in [Item -> Link] /\ m.prev \in [Item -> Link]
      /\ l \in Seq(Item) /\ Len(l) \in Nat /\ \A i \in 1 .. Len(l) : l[i] \in Item /\ l[i] # p
      /\ IsList(m, q, l) /\ p \in Link /\ NULL \in Link
  BY Zenon, RepParts DEF Rep, Fresh, Link
<1>1. /\ k \in Seq(Item) /\ Len(k) = Len(l) + 1
      /\ k[1] = p
      /\ \A j \in 1 .. Len(l) : k[j + 1] = l[j]
  BY <1>0, PrependSeq
<1>2. m.head[q] = NULL <=> Len(l) = 0
  BY <1>0, Null DEF IsList
<1>5. \A i, j \in 1 .. Len(l) : l[i] = l[j] => i = j
  BY Zenon DEF Rep, Once
<1>6. \A i \in 1 .. Len(k) : i # 1 => i - 1 \in 1 .. Len(l) /\ k[i] = l[i - 1]
  <2> HIDE DEF k, l
  <2> TAKE i \in 1 .. Len(k)
  <2> HAVE i # 1
  <2>1. i - 1 \in 1 .. Len(l) /\ (i - 1) + 1 = i
    BY <1>0, <1>1
  <2> QED BY <1>1, <2>1
<1>3. CanBe(s, q, k)
  <2>1. \A i \in 1 .. Len(l) : Near(s, q, l[i])
    BY Zenon DEF Near
  <2>2. Near(s, q, p)
    BY Zenon DEF Near
  <2> HIDE DEF k, l
  <2>5. \A i \in 1 .. Len(k) : Near(s, q, k[i])
    BY Zenon, <1>1, <1>6, <2>1, <2>2
  <2>6. \A i, j \in 1 .. Len(k) : k[i] = k[j] => i = j
    <3> SUFFICES ASSUME NEW i \in 1 .. Len(k), NEW j \in 1 .. Len(k), k[i] = k[j]
                 PROVE  i = j
      BY Zenon
    <3>1. CASE i = 1 \/ j = 1
      BY <1>0, <1>1, <1>6, <3>1
    <3>2. CASE i # 1 /\ j # 1
      <4>1. i - 1 = j - 1
        BY Zenon, <1>5, <1>6, <3>2
      <4> QED BY <4>1
    <3> QED BY Zenon, <3>1, <3>2
  <2> QED BY Zenon, <1>1, <2>5, <2>6 DEF CanBe
<1>4. IsList(t, q, k) /\ WritesOnly(m, t, s, q)
  <2>1. CASE Len(l) = 0
    <3>1. /\ t \in Memories
          /\ t.head = [m.head EXCEPT ![q] = p] /\ t.tail = [m.tail EXCEPT ![q] = p]
          /\ t.next = [m.next EXCEPT ![p] = NULL] /\ t.prev = [m.prev EXCEPT ![p] = NULL]
      BY Zenon, <1>0, <1>2, <2>1 DEF enqueue, queue_is_empty, Memories
    <3> HIDE DEF t, k, l
    <3>2. Len(k) = 1 /\ k[1] = p
      BY <1>1, <2>1
    <3>3. t.head[q] = p /\ t.tail[q] = p /\ t.next[p] = NULL /\ t.prev[p] = NULL
      BY <1>0, <3>1
    <3>4. IsList(t, q, k)
      BY <3>2, <3>3 DEF IsList
    <3>5. \A r \in Queues : q # r => t.head[r] = m.head[r] /\ t.tail[r] = m.tail[r]
      BY <1>0, <3>1
    <3>6. \A x \in Item : x # p => t.next[x] = m.next[x] /\ t.prev[x] = m.prev[x]
      BY <1>0, <3>1
    <3> QED BY <3>1, <3>4, <3>5, <3>6 DEF WritesOnly, Near
  <2>2. CASE Len(l) # 0
    <3> DEFINE e == m.head[q]
    <3>0. e = l[1] /\ e \in Item /\ e # p /\ 1 \in 1 .. Len(l)
      BY <1>0, <2>2 DEF IsList
    <3>7. Near(s, q, e) /\ Near(s, q, p) /\ \A i \in 1 .. Len(l) : l[i] = e => i = 1
      BY <1>5, <3>0 DEF Near
    <3> HIDE DEF e
    <3>1. /\ t.tail = m.tail /\ t.head = [m.head EXCEPT ![q] = p]
          /\ t.prev = [m.prev EXCEPT ![e] = p, ![p] = NULL]
          /\ t.next = [m.next EXCEPT ![p] = e]
      BY <1>0, <1>2, <2>2 DEF enqueue, queue_is_empty, Memories, e
    <3>2. t \in Memories
      BY Zenon, <1>0, <1>2, <2>2 DEF enqueue, queue_is_empty, Memories
    <3> HIDE DEF t, k, l
    <3>3. /\ t.tail[q] = m.tail[q] /\ t.head[q] = p
          /\ t.prev[p] = NULL /\ t.prev[e] = p /\ t.next[p] = e
          /\ t.next[e] = m.next[e]
      BY <1>0, <3>0, <3>1
    <3>4. \A x \in Item : x # p => t.next[x] = m.next[x] /\ (x # e => t.prev[x] = m.prev[x])
      BY <1>0, <3>1
    <3>5. \A r \in Queues : q # r => t.head[r] = m.head[r] /\ t.tail[r] = m.tail[r]
      BY <1>0, <3>1
    <3>6. IsList(t, q, k)
      <4>1. Len(k) # 0 /\ t.head[q] = k[1] /\ t.tail[q] = k[Len(k)]
        <5>1. k[Len(k)] = l[Len(l)]
          BY <1>0, <1>1, <2>2
        <5> QED BY <1>0, <1>1, <2>2, <3>3, <5>1 DEF IsList
      <4>2. ASSUME NEW i \in 1 .. Len(k)
            PROVE  /\ t.next[k[i]] = IF i = Len(k) THEN NULL ELSE k[i + 1]
                   /\ t.prev[k[i]] = IF i = 1 THEN NULL ELSE k[i - 1]
        <5>1. CASE i = 1
          <6>1. k[i + 1] = e
            BY <1>0, <1>1, <2>2, <3>0, <5>1
          <6> QED BY <1>0, <1>1, <2>2, <3>3, <5>1, <6>1
        <5>2. CASE i # 1
          <6> DEFINE j == i - 1
          <6>1. j \in 1 .. Len(l) /\ k[i] = l[j]
            BY <1>6, <5>2
          <6>2. t.next[l[j]] = m.next[l[j]] /\ l[j] \in Item /\ l[j] # p
            BY <1>0, <3>4, <6>1
          <6>3. m.next[l[j]] = IF i = Len(k) THEN NULL ELSE k[i + 1]
            BY <1>0, <1>1, <6>1 DEF IsList
          <6>4. t.prev[l[j]] = k[i - 1]
            <7>1. CASE j = 1
              BY <1>1, <3>0, <3>3, <7>1
            <7>2. CASE j # 1
              <8>1. l[j] # e /\ t.prev[l[j]] = m.prev[l[j]]
                BY Zenon, <3>4, <3>7, <6>1, <6>2, <7>2
              <8>2. m.prev[l[j]] = l[j - 1]
                BY <1>0, <6>1, <7>2 DEF IsList
              <8>3. k[i - 1] = l[j - 1]
                BY <1>6, <6>1, <7>2
              <8> QED BY Zenon, <8>1, <8>2, <8>3
            <7> QED BY Zenon, <7>1, <7>2
          <6> QED BY Zenon, <5>2, <6>1, <6>2, <6>3, <6>4
        <5> QED BY Zenon, <5>1, <5>2
      <4> QED BY Zenon, <4>1, <4>2 DEF IsList
    <3> QED BY <3>2, <3>4, <3>5, <3>6, <3>7 DEF WritesOnly
  <2> QED BY <2>1, <2>2
<1> QED BY Zenon, <1>0, <1>3, <1>4, RepAfter

\* What queue_remove writes when it takes out the pcb p at position i of a list
\* of n: a is in front of p and b behind it.
Unlinks(m, t, q, i, n, p, a, b) ==
  /\ t \in Memories
  /\ t.head[q] = IF i = 1 THEN b ELSE m.head[q]
  /\ t.tail[q] = IF i = n THEN a ELSE m.tail[q]
  /\ \A r \in Queues : q # r => t.head[r] = m.head[r] /\ t.tail[r] = m.tail[r]
  /\ i # 1 => t.next[a] = b
  /\ i # n => t.prev[b] = a
  /\ \A x \in Item \ {p} : /\ i = 1 \/ x # a => t.next[x] = m.next[x]
                           /\ i = n \/ x # b => t.prev[x] = m.prev[x]

LEMMA RemoveWrites ==
  ASSUME NEW m, NEW s, Rep(m, s), NEW q \in Queues, NEW i \in 1 .. Len(s[q])
  PROVE  LET p == s[q][i]
             a == m.prev[p]
             b == m.next[p]
         IN  /\ i # 1 => a = s[q][i - 1] /\ a # p
             /\ i # Len(s[q]) => b = s[q][i + 1] /\ b # p
             /\ i = 1 => a = NULL
             /\ i = Len(s[q]) => b = NULL
             /\ Unlinks(m, queue_remove(m, q, p), q, i, Len(s[q]), p, a, b)
<1> DEFINE l == s[q]
           p == l[i]
           a == m.prev[p]
           b == m.next[p]
           t == queue_remove(m, q, p)
<1>0. /\ m \in Memories
      /\ m.head \in [Queues -> Link] /\ m.tail \in [Queues -> Link]
      /\ m.next \in [Item -> Link] /\ m.prev \in [Item -> Link]
      /\ l \in Seq(Item) /\ Len(l) \in Nat /\ \A j \in 1 .. Len(l) : l[j] \in Item
      /\ IsList(m, q, l) /\ NULL \in Link
  BY Zenon, RepParts DEF Rep, Link
<1>1. \A j, k \in 1 .. Len(l) : l[j] = l[k] => j = k
  BY Zenon DEF Rep, Once
<1>2. /\ p \in Item /\ a \in Link /\ b \in Link
      /\ a = IF i = 1 THEN NULL ELSE l[i - 1]
      /\ b = IF i = Len(l) THEN NULL ELSE l[i + 1]
      /\ m.head[q] = l[1] /\ m.tail[q] = l[Len(l)]
  BY <1>0 DEF IsList
<1>3. (p = m.head[q] <=> i = 1) /\ (p = m.tail[q] <=> i = Len(l))
  BY <1>0, <1>1, <1>2
<1>4. /\ i # 1 => a \in Item /\ a # p
      /\ i # Len(l) => b \in Item /\ b # p
  BY <1>0, <1>1, <1>2
<1>5. Unlinks(m, t, q, i, Len(l), p, a, b)
  <2> HIDE DEF l, p, a, b
  <2>1. CASE i = 1 /\ i = Len(l)
    <3>1. /\ t.head = [m.head EXCEPT ![q] = NULL]
          /\ t.tail = [m.tail EXCEPT ![q] = NULL]
          /\ t.next = [m.next EXCEPT ![p] = NULL]
          /\ t.prev = [m.prev EXCEPT ![p] = NULL]
      BY <1>0, <1>2, <1>3, <2>1 DEF queue_remove, Memories, a, b
    <3>2. t \in Memories
      BY Zenon, <1>0, <1>2, <1>3, <2>1 DEF queue_remove, Memories, a, b
    <3> HIDE DEF t
    <3> QED BY <1>0, <1>2, <1>4, <2>1, <3>1, <3>2 DEF Unlinks
  <2>2. CASE i = 1 /\ i # Len(l)
    <3>1. /\ t.head = [m.head EXCEPT ![q] = b]
          /\ t.tail = m.tail
          /\ t.next = [m.next EXCEPT ![p] = NULL]
          /\ t.prev = [m.prev EXCEPT ![b] = NULL, ![p] = NULL]
      BY Zenon, <1>0, <1>2, <1>3, <2>2 DEF queue_remove, Memories, a, b
    <3>2. t \in Memories
      BY Zenon, <1>0, <1>2, <1>3, <2>2 DEF queue_remove, Memories, a, b
    <3> HIDE DEF t
    <3> QED BY <1>0, <1>2, <1>4, <2>2, <3>1, <3>2 DEF Unlinks
  <2>3. CASE i # 1 /\ i = Len(l)
    <3>1. /\ t.head = m.head
          /\ t.tail = [m.tail EXCEPT ![q] = a]
          /\ t.next = [m.next EXCEPT ![a] = NULL, ![p] = NULL]
          /\ t.prev = [m.prev EXCEPT ![p] = NULL]
      BY Zenon, <1>0, <1>2, <1>3, <2>3 DEF queue_remove, Memories, a, b
    <3>2. t \in Memories
      BY Zenon, <1>0, <1>2, <1>3, <2>3 DEF queue_remove, Memories, a, b
    <3> HIDE DEF t
    <3> QED BY <1>0, <1>2, <1>4, <2>3, <3>1, <3>2 DEF Unlinks
  <2>4. CASE i # 1 /\ i # Len(l)
    <3>1. /\ t.head = m.head
          /\ t.tail = m.tail
          /\ t.next = [m.next EXCEPT ![a] = b, ![p] = NULL]
          /\ t.prev = [m.prev EXCEPT ![b] = a, ![p] = NULL]
      BY Zenon, <1>0, <1>2, <1>3, <2>4 DEF queue_remove, Memories, a, b
    <3>2. t \in Memories
      BY Zenon, <1>0, <1>2, <1>3, <2>4 DEF queue_remove, Memories, a, b
    <3> HIDE DEF t
    <3> QED BY <1>0, <1>2, <1>4, <2>4, <3>1, <3>2 DEF Unlinks
  <2> QED BY Zenon, <2>1, <2>2, <2>3, <2>4
<1> QED BY <1>2, <1>4, <1>5

\* queue_remove: the pcb at position i leaves q.
LEMMA RemoveRep ==
  ASSUME NEW m, NEW s, Rep(m, s), NEW q \in Queues, NEW i \in 1 .. Len(s[q])
  PROVE  Rep(queue_remove(m, q, s[q][i]), [s EXCEPT ![q] = Without(s[q], i)])
<1> DEFINE l == s[q]
           n == Len(l)
           p == l[i]
           a == m.prev[p]
           b == m.next[p]
           t == queue_remove(m, q, p)
           k == Without(l, i)
<1>0. /\ l \in Seq(Item) /\ n \in Nat /\ \A j \in 1 .. n : l[j] \in Item
      /\ IsList(m, q, l)
  BY Zenon, RepParts
<1>1. \A j, h \in 1 .. n : l[j] = l[h] => j = h
  BY Zenon DEF Rep, Once
<1>2. /\ i # 1 => a = l[i - 1] /\ a # p
      /\ i # n => b = l[i + 1] /\ b # p
      /\ i = 1 => a = NULL
      /\ i = n => b = NULL
      /\ Unlinks(m, t, q, i, n, p, a, b)
  BY Zenon, RemoveWrites
<1>3. /\ k \in Seq(Item) /\ Len(k) = n - 1
      /\ \A j \in 1 .. n - 1 : k[j] = IF j < i THEN l[j] ELSE l[j + 1]
  BY Zenon, <1>0, WithoutSeq
<1>9. i \in 1 .. n /\ n = Len(l) /\ p = l[i]
  OBVIOUS
<1>4. Near(s, q, p) /\ (i # 1 => Near(s, q, a)) /\ (i # n => Near(s, q, b))
  <2>1. \A j \in 1 .. n : Near(s, q, l[j])
    BY Zenon DEF Near
  <2>2. i # 1 => i - 1 \in 1 .. n
    BY <1>0
  <2>3. i # n => i + 1 \in 1 .. n
    BY <1>0
  <2> QED BY Zenon, <1>2, <2>1, <2>2, <2>3
<1> HIDE DEF l, n, p, a, b, t, k
<1>5. WritesOnly(m, t, s, q)
  BY <1>2, <1>4 DEF WritesOnly, Unlinks
<1>6. CanBe(s, q, k)
  <2>1. \A j \in 1 .. n : Near(s, q, l[j])
    BY Zenon DEF Near, l, n
  <2>2. \A j \in 1 .. n - 1 : j \in 1 .. n /\ j + 1 \in 1 .. n
    BY <1>0
  <2>3. \A j \in 1 .. Len(k) : Near(s, q, k[j])
    BY <1>3, <2>1, <2>2
  <2>4. \A j, h \in 1 .. Len(k) : k[j] = k[h] => j = h
    <3> SUFFICES ASSUME NEW j \in 1 .. n - 1, NEW h \in 1 .. n - 1, k[j] = k[h]
                 PROVE  j = h
      BY Zenon, <1>3
    <3>1. (IF j < i THEN j ELSE j + 1) = (IF h < i THEN h ELSE h + 1)
      BY <1>1, <1>3, <2>2
    <3> QED BY <1>0, <3>1 DEF n
  <2> QED BY Zenon, <1>3, <2>3, <2>4 DEF CanBe
<1>7. IsList(t, q, k)
  <2>1. /\ t.head[q] = IF Len(k) = 0 THEN NULL ELSE k[1]
        /\ t.tail[q] = IF Len(k) = 0 THEN NULL ELSE k[Len(k)]
    <3>1. /\ t.head[q] = IF i = 1 THEN b ELSE l[1]
          /\ t.tail[q] = IF i = n THEN a ELSE l[n]
      BY <1>0, <1>2, <1>9 DEF Unlinks, IsList
    <3>2. n # 1 => k[1] = IF 1 < i THEN l[1] ELSE l[2]
      BY <1>0, <1>3
    <3>3. n # 1 => k[n - 1] = IF n - 1 < i THEN l[n - 1] ELSE l[n]
      BY <1>0, <1>3
    <3>4. CASE n = 1
      BY <1>2, <1>3, <1>9, <3>1, <3>4
    <3>5. CASE n # 1
      <4>1. Len(k) # 0 /\ k[Len(k)] = k[n - 1]
        BY <1>3, <3>5
      <4>2. t.head[q] = k[1]
        BY <1>0, <1>2, <1>9, <3>1, <3>2, <3>5
      <4>3. t.tail[q] = k[n - 1]
        BY <1>0, <1>2, <1>9, <3>1, <3>3, <3>5
      <4> QED BY Zenon, <4>1, <4>2, <4>3
    <3> QED BY Zenon, <3>4, <3>5
  <2>2. ASSUME NEW j \in 1 .. Len(k)
        PROVE  /\ t.next[k[j]] = IF j = Len(k) THEN NULL ELSE k[j + 1]
               /\ t.prev[k[j]] = IF j = 1 THEN NULL ELSE k[j - 1]
    <3> DEFINE J == IF j < i THEN j ELSE j + 1
    <3>1. J \in 1 .. n /\ J # i /\ k[j] = l[J] /\ l[J] \in Item
      BY <1>0, <1>3 DEF n
    <3>2. l[J] # p
      BY Zenon, <1>1, <1>9, <3>1
    <3>5. j < n - 1 => k[j + 1] = IF j + 1 < i THEN l[j + 1] ELSE l[j + 2]
      BY <1>0, <1>3
    <3>6. j # 1 => k[j - 1] = IF j - 1 < i THEN l[j - 1] ELSE l[j]
      BY <1>0, <1>3
    <3>3. t.next[l[J]] = IF j = Len(k) THEN NULL ELSE k[j + 1]
      <4>1. CASE J = i - 1
        <5>1. i # 1 /\ j = i - 1 /\ l[J] = a
          BY <1>2, <1>9, <3>1, <4>1
        <5>2. t.next[l[J]] = b
          BY Zenon, <1>2, <5>1 DEF Unlinks
        <5> QED BY <1>0, <1>2, <1>3, <1>9, <3>5, <5>1, <5>2
      <4>2. CASE J # i - 1
        <5>1. i = 1 \/ l[J] # a
          BY <1>1, <1>2, <1>9, <3>1, <4>2
        <5>2. t.next[l[J]] = m.next[l[J]]
          BY <1>2, <3>1, <3>2, <5>1 DEF Unlinks
        <5>3. m.next[l[J]] = IF J = n THEN NULL ELSE l[J + 1]
          BY Zenon, <1>0, <1>9, <3>1 DEF IsList
        <5> HIDE DEF J
        <5>4. j = Len(k) <=> J = n
          BY <1>0, <1>3, <1>9, <4>2 DEF J
        <5>5. j # Len(k) => k[j + 1] = l[J + 1]
          BY <1>0, <1>3, <1>9, <3>5, <4>2 DEF J
        <5> QED BY Zenon, <5>2, <5>3, <5>4, <5>5
      <4> QED BY Zenon, <4>1, <4>2
    <3>4. t.prev[l[J]] = IF j = 1 THEN NULL ELSE k[j - 1]
      <4>1. CASE J = i + 1
        <5>1. i # n /\ j = i /\ l[J] = b
          BY <1>0, <1>2, <1>3, <1>9, <3>1, <4>1
        <5>2. t.prev[l[J]] = a
          BY Zenon, <1>2, <5>1 DEF Unlinks
        <5> QED BY <1>0, <1>2, <1>3, <1>9, <3>6, <5>1, <5>2
      <4>2. CASE J # i + 1
        <5>1. i = n \/ l[J] # b
          BY <1>0, <1>1, <1>2, <1>9, <3>1, <4>2
        <5>2. t.prev[l[J]] = m.prev[l[J]]
          BY <1>2, <3>1, <3>2, <5>1 DEF Unlinks
        <5>3. m.prev[l[J]] = IF J = 1 THEN NULL ELSE l[J - 1]
          BY Zenon, <1>0, <1>9, <3>1 DEF IsList
        <5> HIDE DEF J
        <5>4. j = 1 <=> J = 1
          BY <1>0, <1>3, <1>9, <4>2 DEF J
        <5>5. j # 1 => k[j - 1] = l[J - 1]
          BY <1>0, <1>3, <1>9, <3>6, <4>2 DEF J
        <5> QED BY Zenon, <5>2, <5>3, <5>4, <5>5
      <4> QED BY Zenon, <4>1, <4>2
    <3> QED BY Zenon, <3>1, <3>3, <3>4
  <2> QED BY Zenon, <2>1, <2>2 DEF IsList
<1> QED BY Zenon, <1>5, <1>6, <1>7, RepAfter DEF l, n, p, t, k

LEMMA SameMemory ==
  ASSUME NEW t \in Memories, NEW u \in Memories,
         t.head = u.head, t.tail = u.tail, t.prev = u.prev, t.next = u.next
  PROVE  t = u
BY DEF Memories

\* The two ways of taking out a head p that b comes after.
HeadOut(m, q, p, b) ==
  [m EXCEPT !.head[q] = b,
            !.prev = [m.prev EXCEPT ![b] = NULL, ![p] = NULL],
            !.next[p] = NULL]

HeadRemoved(m, q, p, b) ==
  [[m EXCEPT !.head[q] = b, !.prev[b] = NULL]
     EXCEPT !.prev[p] = NULL, !.next[p] = NULL]

LEMMA TwoWrites ==
  ASSUME NEW m \in Memories, NEW q \in Queues, NEW p \in Item, NEW b \in Item
  PROVE  HeadOut(m, q, p, b) = HeadRemoved(m, q, p, b)
<1> DEFINE t == HeadOut(m, q, p, b)
           u == HeadRemoved(m, q, p, b)
<1>1. b \in Link /\ NULL \in Link
  BY DEF Link
<1>2. t \in Memories /\ u \in Memories
  BY Zenon, <1>1 DEF Memories, HeadOut, HeadRemoved
<1>3. t.head = [m.head EXCEPT ![q] = b] /\ t.tail = m.tail
      /\ t.prev = [m.prev EXCEPT ![b] = NULL, ![p] = NULL]
      /\ t.next = [m.next EXCEPT ![p] = NULL]
  BY Zenon DEF Memories, HeadOut, HeadRemoved
<1>4. u.head = [m.head EXCEPT ![q] = b] /\ u.tail = m.tail
      /\ u.prev = [[m.prev EXCEPT ![b] = NULL] EXCEPT ![p] = NULL]
      /\ u.next = [m.next EXCEPT ![p] = NULL]
  BY Zenon DEF Memories, HeadOut, HeadRemoved
<1>5. [[m.prev EXCEPT ![b] = NULL] EXCEPT ![p] = NULL]
        = [m.prev EXCEPT ![b] = NULL, ![p] = NULL]
  BY Zenon
<1> HIDE DEF t, u
<1>6. t = u
  BY <1>2, <1>3, <1>4, <1>5, SameMemory
<1> QED BY Zenon, <1>6 DEF t, u

\* queue_dequeue does to the head what queue_remove does.
LEMMA DequeueIsRemove ==
  ASSUME NEW m, NEW s, Rep(m, s), NEW q \in Queues, ~queue_is_empty(m, q)
  PROVE  m.head[q] = s[q][1] /\ queue_dequeue(m, q) = queue_remove(m, q, s[q][1])
<1> DEFINE l == s[q]
           p == l[1]
           b == m.next[p]
           t == queue_dequeue(m, q)
           u == queue_remove(m, q, p)
<1>0. /\ m \in Memories
      /\ m.head \in [Queues -> Link] /\ m.tail \in [Queues -> Link]
      /\ m.next \in [Item -> Link] /\ m.prev \in [Item -> Link]
      /\ l \in Seq(Item) /\ Len(l) \in Nat /\ \A j \in 1 .. Len(l) : l[j] \in Item
      /\ IsList(m, q, l) /\ NULL \in Link
  BY Zenon, RepParts DEF Rep, Link
<1>1. \A j, k \in 1 .. Len(l) : l[j] = l[k] => j = k
  BY Zenon DEF Rep, Once
<1> HIDE DEF l, t, u
<1>6. Len(l) # 0
  BY <1>0 DEF queue_is_empty, IsList
<1>7. 1 \in 1 .. Len(l) /\ Len(l) \in 1 .. Len(l) /\ (Len(l) # 1 => 2 \in 1 .. Len(l))
  <2>1. \A n \in Nat : n # 0 => 1 \in 1 .. n /\ n \in 1 .. n /\ (n # 1 => 2 \in 1 .. n)
    OBVIOUS
  <2> QED BY Zenon, <1>0, <1>6, <2>1
<1>2. /\ p \in Item /\ p = m.head[q] /\ m.tail[q] = l[Len(l)]
      /\ b = IF 1 = Len(l) THEN NULL ELSE l[2]
  <2>1. p \in Item
    BY Zenon, <1>0, <1>7
  <2>2. p = m.head[q] /\ m.tail[q] = l[Len(l)]
    BY Zenon, <1>0, <1>6 DEF IsList
  <2>3. m.next[l[1]] = IF 1 = Len(l) THEN NULL ELSE l[1 + 1]
    BY Zenon, <1>0, <1>7 DEF IsList
  <2> QED BY <2>1, <2>2, <2>3
<1> HIDE DEF p, b
<1>3. (p = m.tail[q] <=> Len(l) = 1) /\ (b = NULL <=> Len(l) = 1)
  BY <1>0, <1>1, <1>2, <1>7, Null DEF p
<1>4. CASE Len(l) = 1
  <2>1. t = [m EXCEPT !.head[q] = NULL, !.tail[q] = NULL,
                      !.prev[p] = NULL, !.next[p] = NULL]
    BY Zenon, <1>2, <1>3, <1>4 DEF queue_dequeue, b, t
  <2>2. u = [[m EXCEPT !.head[q] = NULL, !.tail[q] = NULL]
               EXCEPT !.prev[p] = NULL, !.next[p] = NULL]
    BY Zenon, <1>2, <1>3, <1>4 DEF queue_remove, u
  <2> QED BY <1>0, <1>2, <2>1, <2>2 DEF p, l, t, u
<1>5. CASE Len(l) # 1
  <2>1. t = HeadOut(m, q, p, b)
    BY Zenon, <1>2, <1>3, <1>5 DEF queue_dequeue, b, t, HeadOut
  <2>2. u = HeadRemoved(m, q, p, b)
    BY Zenon, <1>2, <1>3, <1>5 DEF queue_remove, b, u, HeadRemoved
  <2>3. b \in Item
    BY Zenon, <1>0, <1>2, <1>5, <1>7
  <2>4. t = u
    BY Zenon, <1>0, <1>2, <2>1, <2>2, <2>3, TwoWrites
  <2> QED BY Zenon, <1>2, <2>4 DEF p, l, t, u
<1> QED BY Zenon, <1>4, <1>5

-----------------------------------------------------------------------------
(* Where the pointers lead                                                 *)

LOCAL INSTANCE WellFoundedInduction

\* A set of numbers has a least one.
LEMMA Least ==
  ASSUME NEW S, S \subseteq Nat, S # {}
  PROVE  \E n \in S : \A m \in S : n <= m
<1> DEFINE R == OpToRel(<, Nat)
<1>1. PICK n \in S : \A m \in S : ~(<<m, n>> \in R)
  BY Zenon, NatLessThanWellFounded, WFMin
<1>2. \A m \in S : m < n => <<m, n>> \in R
  BY <1>1 DEF OpToRel
<1> HIDE DEF R
<1>3. \A m \in S : ~(m < n)
  BY Zenon, <1>1, <1>2
<1>4. \A m \in S : n <= m
  BY <1>3
<1> QED BY Zenon, <1>4

\* What Chain computes, step by step.
Links(m, f, n) ==
  [x \in Item \cup {NULL} |->
     IF n = 0 \/ x = NULL THEN <<>> ELSE <<x>> \o f[n - 1][m.next[x]]]

Follows(m, f, k) == f = [n \in 0 .. k |-> Links(m, f, n)]

LEMMA FollowsExists ==
  ASSUME NEW m, NEW k \in Nat
  PROVE  \E f : Follows(m, f, k)
<1>1. \E f : Follows(m, f, 0)
  <2> DEFINE g == [n \in 0 .. 0 |-> [x \in Item \cup {NULL} |-> <<>>]]
  <2>1. \A n \in 0 .. 0 : Links(m, g, n) = [x \in Item \cup {NULL} |-> <<>>]
    BY DEF Links
  <2>2. g = [n \in 0 .. 0 |-> Links(m, g, n)]
    BY <2>1
  <2> QED BY Zenon, <2>2 DEF Follows
<1>2. ASSUME NEW j \in Nat, NEW f, Follows(m, f, j)
      PROVE  \E g : Follows(m, g, j + 1)
  <2> DEFINE g == [n \in 0 .. j + 1 |-> IF n = j + 1 THEN Links(m, f, n) ELSE f[n]]
  <2>0. \A n \in 0 .. j + 1 : n \in 0 .. j \/ n = j + 1
    OBVIOUS
  <2>4. j + 1 \notin 0 .. j /\ \A n \in 0 .. j : n \in 0 .. j + 1
    OBVIOUS
  <2>1. \A n \in 0 .. j : g[n] = f[n] /\ f[n] = Links(m, f, n)
    BY Zenon, <1>2, <2>4 DEF Follows
  <2>2. \A n \in 0 .. j + 1 : g[n] = Links(m, f, n)
    BY Zenon, <2>0, <2>1
  <2> HIDE DEF g
  <2>3. \A n \in 0 .. j + 1 : Links(m, g, n) = Links(m, f, n)
    <3> TAKE n \in 0 .. j + 1
    <3>1. CASE n = 0
      BY Zenon, <3>1 DEF Links
    <3>2. CASE n # 0
      <4>1. n - 1 \in 0 .. j
        BY <3>2
      <4>2. g[n - 1] = f[n - 1]
        BY Zenon, <2>1, <4>1
      <4> QED BY Zenon, <4>2 DEF Links
    <3> QED BY Zenon, <3>1, <3>2
  <2>5. g = [n \in 0 .. j + 1 |-> Links(m, g, n)]
    <3>1. g = [n \in 0 .. j + 1 |-> g[n]]
      BY Zenon DEF g
    <3> QED BY Zenon, <2>2, <2>3, <3>1
  <2> QED BY Zenon, <2>5 DEF Follows
<1> DEFINE Bad == {j \in Nat : ~\E f : Follows(m, f, j)}
<1>3. SUFFICES ASSUME Bad # {} PROVE FALSE
  BY Zenon
<1>4. PICK j \in Bad : \A n \in Bad : j <= n
  BY Zenon, <1>3, Least
<1>5. j # 0
  BY Zenon, <1>1
<1>6. j - 1 \in Nat /\ j - 1 \notin Bad /\ (j - 1) + 1 = j
  BY <1>4, <1>5
<1>7. PICK f : Follows(m, f, j - 1)
  BY Zenon, <1>6
<1>8. \E g : Follows(m, g, (j - 1) + 1)
  BY Zenon, <1>2, <1>6, <1>7
<1> QED BY Zenon, <1>6, <1>8

\* There are not more pcbs in a list than there are.
Fits(l) == Cardinality(Item) \in Nat /\ Len(l) <= Cardinality(Item)

\* The table of Chain.
Table(m, f) ==
  /\ \A p : Chain(m, p) = f[Cardinality(Item)][p]
  /\ \A n \in 0 .. Cardinality(Item) : f[n][NULL] = <<>>
  /\ \A n \in 1 .. Cardinality(Item) : \A p \in Item :
       f[n][p] = <<p>> \o f[n - 1][m.next[p]]

LEMMA ChainSteps ==
  ASSUME NEW m, Cardinality(Item) \in Nat
  PROVE  \E f : Table(m, f)
<1> DEFINE N == Cardinality(Item)
           f == CHOOSE g : Follows(m, g, N)
<1>1. Follows(m, f, N)
  BY Zenon, FollowsExists
<1>2. \A p : Chain(m, p) = f[N][p]
  BY Zenon DEF Chain, Follows, Links
<1> HIDE DEF f
<1>3. \A n \in 0 .. N : f[n] = Links(m, f, n)
  BY Zenon, <1>1 DEF Follows
<1>4. \A n \in 0 .. N : f[n][NULL] = <<>>
  BY Zenon, <1>3 DEF Links
<1>5. ASSUME NEW n \in 1 .. N, NEW p \in Item
      PROVE  f[n][p] = <<p>> \o f[n - 1][m.next[p]]
  <2>1. n \in 0 .. N /\ n # 0
    OBVIOUS
  <2>2. f[n] = Links(m, f, n)
    BY Zenon, <1>3, <2>1
  <2>3. p \in Item \cup {NULL} /\ p # NULL
    BY Null
  <2>4. Links(m, f, n)[p] = <<p>> \o f[n - 1][m.next[p]]
    BY Zenon, <2>1, <2>3 DEF Links
  <2> QED BY Zenon, <2>2, <2>4
<1>6. Table(m, f)
  BY Zenon, <1>2, <1>4, <1>5 DEF Table
<1> QED BY Zenon, <1>6

\* The elements of l from position i on, and the pointer that leads to them.
From(l, i) == [j \in 1 .. Len(l) - i + 1 |-> l[i + j - 1]]

At(l, i) == IF i = Len(l) + 1 THEN NULL ELSE l[i]

LEMMA FromSeq ==
  ASSUME NEW S, NEW l \in Seq(S), NEW i \in 1 .. Len(l) + 1
  PROVE  /\ From(l, i) \in Seq(S)
         /\ Len(From(l, i)) = Len(l) - i + 1
         /\ \A j \in 1 .. Len(l) - i + 1 : From(l, i)[j] = l[i + j - 1]
<1>1. Len(l) \in Nat /\ Len(l) - i + 1 \in Nat /\ \A j \in 1 .. Len(l) : l[j] \in S
  OBVIOUS
<1>2. From(l, i) \in [1 .. Len(l) - i + 1 -> S]
  BY <1>1 DEF From
<1> QED BY <1>1, <1>2, SeqOf DEF From

LEMMA FromNext ==
  ASSUME NEW S, NEW l \in Seq(S), NEW i \in 1 .. Len(l)
  PROVE  <<l[i]>> \o From(l, i + 1) = From(l, i)
<1> DEFINE k == From(l, i + 1)
           u == <<l[i]>> \o k
           v == From(l, i)
<1>1. Len(l) \in Nat /\ l[i] \in S /\ i + 1 \in 1 .. Len(l) + 1 /\ i \in 1 .. Len(l) + 1
  OBVIOUS
<1>2. /\ k \in Seq(S) /\ Len(k) = Len(l) - i
      /\ \A j \in 1 .. Len(l) - i : k[j] = l[i + j]
  <2>1. /\ k \in Seq(S) /\ Len(k) = Len(l) - (i + 1) + 1
        /\ \A j \in 1 .. Len(l) - (i + 1) + 1 : k[j] = l[(i + 1) + j - 1]
    BY Zenon, <1>1, FromSeq
  <2> HIDE DEF k
  <2>2. Len(l) - (i + 1) + 1 = Len(l) - i /\ \A j \in Nat : (i + 1) + j - 1 = i + j
    BY <1>1
  <2> QED BY <1>1, <2>1, <2>2
<1>3. /\ v \in Seq(S) /\ Len(v) = Len(l) - i + 1
      /\ \A j \in 1 .. Len(l) - i + 1 : v[j] = l[i + j - 1]
  BY Zenon, <1>1, FromSeq
<1>4. /\ u \in Seq(S) /\ Len(u) = Len(k) + 1 /\ u[1] = l[i]
      /\ \A j \in 1 .. Len(k) : u[j + 1] = k[j]
  <2> DEFINE p == l[i]
  <2>1. p \in S /\ k \in Seq(S) /\ u = <<p>> \o k
    BY Zenon, <1>1, <1>2
  <2> HIDE DEF k, u, p
  <2>2. /\ <<p>> \o k \in Seq(S) /\ Len(<<p>> \o k) = Len(k) + 1
        /\ (<<p>> \o k)[1] = p
        /\ \A j \in 1 .. Len(k) : (<<p>> \o k)[j + 1] = k[j]
    BY ONLY <2>1, PrependSeq
  <2> QED BY Zenon, <2>1, <2>2 DEF p
<1> HIDE DEF k, u, v
<1>5. ASSUME NEW j \in 1 .. Len(v) PROVE u[j] = v[j]
  <2>1. CASE j = 1
    BY <1>1, <1>3, <1>4, <2>1
  <2>2. CASE j # 1
    <3>1. j - 1 \in 1 .. Len(k) /\ j - 1 \in 1 .. Len(l) - i /\ (j - 1) + 1 = j
          /\ i + (j - 1) = i + j - 1 /\ j \in 1 .. Len(l) - i + 1
      BY <1>1, <1>2, <1>3, <2>2
    <3>2. u[(j - 1) + 1] = k[j - 1] /\ k[j - 1] = l[i + (j - 1)] /\ v[j] = l[i + j - 1]
      BY Zenon, <1>2, <1>3, <1>4, <3>1
    <3> QED BY Zenon, <3>1, <3>2
  <2> QED BY Zenon, <2>1, <2>2
<1>6. Len(u) = Len(v)
  BY <1>1, <1>2, <1>3, <1>4
<1>7. u = v
  BY Zenon, <1>3, <1>4, <1>5, <1>6, SameSeq
<1> QED BY Zenon, <1>7 DEF u, v, k

LEMMA FromEnds ==
  ASSUME NEW S, NEW l \in Seq(S)
  PROVE  From(l, 1) = l /\ From(l, Len(l) + 1) = <<>>
<1>1. Len(l) \in Nat /\ 1 \in 1 .. Len(l) + 1 /\ Len(l) + 1 \in 1 .. Len(l) + 1
  OBVIOUS
<1>2. From(l, 1) = l
  <2> DEFINE v == From(l, 1)
  <2>1. /\ v \in Seq(S) /\ Len(v) = Len(l) - 1 + 1
        /\ \A j \in 1 .. Len(l) - 1 + 1 : v[j] = l[1 + j - 1]
    BY Zenon, <1>1, FromSeq
  <2> HIDE DEF v
  <2>4. \A n \in Nat : n - 1 + 1 = n /\ \A j \in 1 .. n : 1 + j - 1 = j
    OBVIOUS
  <2>2. Len(v) = Len(l) /\ \A j \in 1 .. Len(v) : v[j] = l[j]
    <3>1. Len(l) - 1 + 1 = Len(l)
      BY Zenon, <1>1, <2>4
    <3> QED BY Zenon, <1>1, <2>1, <2>4, <3>1
  <2>3. v = l
    BY Zenon, <2>1, <2>2, SameSeq
  <2> QED BY Zenon, <2>3 DEF v
<1>3. From(l, Len(l) + 1) = <<>>
  <2> DEFINE v == From(l, Len(l) + 1)
  <2>1. v \in Seq(S) /\ Len(v) = Len(l) - (Len(l) + 1) + 1
    BY Zenon, <1>1, FromSeq
  <2> HIDE DEF v
  <2>4. \A n \in Nat : n - (n + 1) + 1 = 0
    OBVIOUS
  <2>2. Len(v) = 0
    BY Zenon, <1>1, <2>1, <2>4
  <2>3. v = <<>>
    BY <2>1, <2>2
  <2> QED BY Zenon, <2>3 DEF v
<1> QED BY Zenon, <1>2, <1>3

\* The pointers lead to the list.
LEMMA ChainIsList ==
  ASSUME NEW m, NEW s, Rep(m, s), NEW q \in Queues, Fits(s[q])
  PROVE  Chain(m, m.head[q]) = s[q]
<1> DEFINE l == s[q]
           N == Cardinality(Item)
<1>0. /\ m.next \in [Item -> Link] /\ l \in Seq(Item) /\ Len(l) \in Nat
      /\ \A i \in 1 .. Len(l) : l[i] \in Item
      /\ IsList(m, q, l) /\ N \in Nat /\ Len(l) <= N
  BY Zenon, RepParts DEF Fits
<1>1. PICK f : Table(m, f)
  BY Zenon, <1>0, ChainSteps
<1> DEFINE Good(n) == \A i \in 1 .. Len(l) + 1 :
                        Len(l) - i + 1 <= n => f[n][At(l, i)] = From(l, i)
           Bad == {n \in 0 .. N : ~Good(n)}
<1> HIDE DEF l, N
<1>6. \A i \in 1 .. Len(l) : At(l, i) = l[i] /\ m.next[l[i]] = At(l, i + 1)
  BY <1>0 DEF At, IsList
<1>7. At(l, Len(l) + 1) = NULL /\ At(l, 1) = m.head[q]
  BY <1>0 DEF At, IsList
<1>8. \A n \in 0 .. N : f[n][At(l, Len(l) + 1)] = From(l, Len(l) + 1)
  BY Zenon, <1>0, <1>1, <1>7, FromEnds DEF Table, N
<1>2. Bad = {}
  <2>1. SUFFICES ASSUME Bad # {} PROVE FALSE
    BY Zenon
  <2>2. PICK n \in Bad : \A k \in Bad : n <= k
    <3>1. Bad \subseteq Nat
      BY <1>0
    <3> QED BY Zenon, <2>1, <3>1, Least
  <2>3. PICK i \in 1 .. Len(l) + 1 :
          Len(l) - i + 1 <= n /\ f[n][At(l, i)] # From(l, i)
    BY Zenon, <2>2
  <2>4. n \in 0 .. N
    BY Zenon, <2>2
  <2>5. i # Len(l) + 1
    BY Zenon, <1>8, <2>3, <2>4
  <2>6. /\ i \in 1 .. Len(l) /\ n \in 1 .. N /\ n - 1 \in 0 .. N
        /\ i + 1 \in 1 .. Len(l) + 1 /\ Len(l) - (i + 1) + 1 <= n - 1 /\ ~(n <= n - 1)
    BY <1>0, <2>3, <2>4, <2>5
  <2>7. Good(n - 1)
    BY Zenon, <2>2, <2>6
  <2>8. f[n - 1][At(l, i + 1)] = From(l, i + 1)
    BY Zenon, <2>6, <2>7
  <2>9. f[n][l[i]] = <<l[i]>> \o f[n - 1][m.next[l[i]]]
    BY Zenon, <1>0, <1>1, <2>6 DEF Table, N
  <2>10. f[n][l[i]] = From(l, i)
    <3>1. m.next[l[i]] = At(l, i + 1)
      BY Zenon, <1>6, <2>6
    <3>2. <<l[i]>> \o From(l, i + 1) = From(l, i)
      BY Zenon, <1>0, <2>6, FromNext
    <3> QED BY Zenon, <2>8, <2>9, <3>1, <3>2
  <2> QED BY Zenon, <1>6, <2>3, <2>6, <2>10
<1>3. N \in 0 .. N /\ 1 \in 1 .. Len(l) + 1 /\ Len(l) - 1 + 1 <= N
  BY <1>0
<1>4. f[N][m.head[q]] = l
  <2>1. Good(N)
    BY Zenon, <1>2, <1>3
  <2>2. f[N][At(l, 1)] = From(l, 1)
    BY Zenon, <1>3, <2>1
  <2>3. From(l, 1) = l
    BY Zenon, <1>0, FromEnds
  <2> QED BY Zenon, <1>7, <2>2, <2>3
<1> QED BY Zenon, <1>1, <1>4 DEF Table, N, l

LEMMA InList ==
  ASSUME NEW m, NEW s, Rep(m, s), NEW q \in Queues, Fits(s[q]), NEW p
  PROVE  check_in_queue(m, q, p) <=> \E i \in 1 .. Len(s[q]) : s[q][i] = p
<1>1. Chain(m, m.head[q]) = s[q]
  BY Zenon, ChainIsList
<1>2. s[q] \in Seq(Item)
  BY Zenon, RepParts
<1>3. DOMAIN s[q] = 1 .. Len(s[q])
  BY <1>2
<1> QED BY Zenon, <1>1, <1>3 DEF check_in_queue

-----------------------------------------------------------------------------
(* The task that is woken                                                  *)

\* Where the loop over the priorities stops in the list l.
Peak(l, i) ==
  /\ i \in 1 .. Len(l)
  /\ \A j \in 1 .. i - 1 : priority[l[j]] < priority[l[j + 1]]
  /\ i < Len(l) => priority[l[i]] >= priority[l[i + 1]]

LEMMA PickIsPeak ==
  ASSUME NEW m, NEW s, Rep(m, s), NEW q \in Queues, Fits(s[q]),
         ~queue_is_empty(m, q), priority \in [Item -> Int]
  PROVE  \E i \in 1 .. Len(s[q]) : Pick(m, q) = s[q][i] /\ Peak(s[q], i)
<1> DEFINE l == s[q]
           Stop(i) == l[i] = m.tail[q] \/ priority[l[i]] >= priority[m.next[l[i]]]
           First(i) == Stop(i) /\ \A j \in 1 .. i - 1 : ~Stop(j)
           T == {i \in 1 .. Len(l) : Stop(i)}
<1>0. /\ l \in Seq(Item) /\ Len(l) \in Nat /\ \A i \in 1 .. Len(l) : l[i] \in Item
      /\ IsList(m, q, l) /\ Chain(m, m.head[q]) = l
  BY Zenon, RepParts, ChainIsList
<1>1. \A i, j \in 1 .. Len(l) : l[i] = l[j] => i = j
  BY Zenon DEF Rep, Once
<1>2. Pick(m, q) = l[CHOOSE i \in DOMAIN l : First(i)]
  BY Zenon, <1>0 DEF Pick
<1> HIDE DEF l
<1>3. DOMAIN l = 1 .. Len(l)
  BY <1>0
<1>4. Len(l) # 0
  BY Zenon, <1>0 DEF queue_is_empty, IsList
<1>5. Len(l) \in 1 .. Len(l) /\ l[Len(l)] = m.tail[q]
  <2>1. \A n \in Nat : n # 0 => n \in 1 .. n
    OBVIOUS
  <2> QED BY Zenon, <1>0, <1>4, <2>1 DEF IsList
<1>6. \A i \in 1 .. Len(l) : i # Len(l) =>
        i + 1 \in 1 .. Len(l) /\ l[i] # m.tail[q] /\ m.next[l[i]] = l[i + 1]
  <2> TAKE i \in 1 .. Len(l)
  <2> HAVE i # Len(l)
  <2>1. i + 1 \in 1 .. Len(l)
    BY <1>0
  <2>2. m.next[l[i]] = l[i + 1]
    BY Zenon, <1>0 DEF IsList
  <2> QED BY Zenon, <1>1, <1>5, <2>1, <2>2
<1>7. \E i \in 1 .. Len(l) : First(i)
  <2>1. T \subseteq Nat /\ T # {}
    <3>1. 1 .. Len(l) \subseteq Nat
      OBVIOUS
    <3> QED BY Zenon, <1>5, <3>1
  <2>2. PICK i \in T : \A j \in T : i <= j
    BY Zenon, <2>1, Least
  <2>3. i \in 1 .. Len(l) /\ Stop(i)
    BY Zenon, <2>2
  <2>4. \A j \in 1 .. i - 1 : j \in 1 .. Len(l) /\ ~(i <= j)
    BY <1>0, <2>3
  <2>5. \A j \in 1 .. i - 1 : ~Stop(j)
    BY Zenon, <2>2, <2>4
  <2> QED BY Zenon, <2>3, <2>5
<1> DEFINE i == CHOOSE j \in DOMAIN l : First(j)
<1>8. i \in 1 .. Len(l) /\ First(i)
  <2> HIDE DEF First
  <2> QED BY Zenon, <1>3, <1>7
<1> HIDE DEF i
<1>9. ASSUME NEW j \in 1 .. i - 1 PROVE priority[l[j]] < priority[l[j + 1]]
  <2>1. j \in 1 .. Len(l) /\ j # Len(l)
    BY <1>0, <1>8
  <2>2. l[j] \in Item /\ l[j + 1] \in Item /\ ~(priority[l[j]] >= priority[l[j + 1]])
    BY Zenon, <1>0, <1>6, <1>8, <2>1
  <2>3. priority[l[j]] \in Int /\ priority[l[j + 1]] \in Int
    BY Zenon, <2>2
  <2> QED BY <2>2, <2>3
<1>10. ASSUME i < Len(l) PROVE priority[l[i]] >= priority[l[i + 1]]
  <2>1. i # Len(l)
    BY <1>0, <1>8, <1>10
  <2> QED BY Zenon, <1>6, <1>8, <2>1
<1>11. Pick(m, q) = l[i] /\ Peak(l, i)
  BY Zenon, <1>2, <1>8, <1>9, <1>10 DEF Peak, i
<1> QED BY Zenon, <1>8, <1>11 DEF l

\* Up to a peak the priorities grow.
LEMMA Climb ==
  ASSUME priority \in [Item -> Int], NEW l \in Seq(Item), NEW i, Peak(l, i)
  PROVE  \A j, k \in 1 .. i : j < k => priority[l[j]] < priority[l[k]]
<1> SUFFICES ASSUME NEW j \in 1 .. i
             PROVE  \A k \in 1 .. i : j < k => priority[l[j]] < priority[l[k]]
  BY Zenon
<1> DEFINE Bad == {k \in 1 .. i : j < k /\ ~(priority[l[j]] < priority[l[k]])}
<1>0. i \in 1 .. Len(l) /\ Len(l) \in Nat /\ i \in Nat
  BY DEF Peak
<1>1. SUFFICES ASSUME Bad # {} PROVE FALSE
  BY Zenon
<1>2. PICK k \in Bad : \A n \in Bad : k <= n
  <2>1. Bad \subseteq Nat
    BY <1>0
  <2> QED BY Zenon, <1>1, <2>1, Least
<1>3. /\ k \in 1 .. i /\ j < k /\ k - 1 \in 1 .. i - 1 /\ k - 1 \in 1 .. i
      /\ (k - 1) + 1 = k /\ (j < k - 1 \/ j = k - 1) /\ ~(k <= k - 1)
      /\ j \in 1 .. Len(l) /\ k \in 1 .. Len(l) /\ k - 1 \in 1 .. Len(l)
  BY <1>0, <1>2
<1>4. priority[l[k - 1]] < priority[l[k]]
  <2>1. priority[l[k - 1]] < priority[l[(k - 1) + 1]]
    BY Zenon, <1>3 DEF Peak
  <2> QED BY Zenon, <1>3, <2>1
<1>5. j = k - 1 \/ priority[l[j]] < priority[l[k - 1]]
  BY Zenon, <1>2, <1>3
<1>6. \A x \in 1 .. Len(l) : l[x] \in Item
  OBVIOUS
<1>7. priority[l[j]] \in Int /\ priority[l[k]] \in Int /\ priority[l[k - 1]] \in Int
  BY Zenon, <1>3, <1>6
<1>8. ~(priority[l[j]] < priority[l[k]])
  BY Zenon, <1>2
<1>9. CASE j = k - 1
  BY Zenon, <1>4, <1>8, <1>9
<1>10. CASE priority[l[j]] < priority[l[k - 1]]
  BY <1>4, <1>7, <1>8, <1>10
<1> QED BY Zenon, <1>5, <1>9, <1>10

-----------------------------------------------------------------------------
(* One turn of the loops                                                   *)

LEMMA FreshAfter ==
  ASSUME NEW s \in [Queues -> Seq(Item)], Once(s), NEW q \in Queues,
         NEW i \in 1 .. Len(s[q])
  PROVE  Fresh([s EXCEPT ![q] = Without(s[q], i)], s[q][i])
<1> DEFINE l == s[q]
           k == Without(l, i)
           u == [s EXCEPT ![q] = k]
<1>1. l \in Seq(Item) /\ i \in 1 .. Len(l) /\ Len(l) \in Nat
  OBVIOUS
<1>2. \A j \in 1 .. Len(l) : l[j] = l[i] => j = i
  BY Zenon DEF Once
<1>3. \A r \in Queues : r # q => u[r] = s[r] /\ \A j \in 1 .. Len(s[r]) : s[r][j] # l[i]
  BY Zenon DEF Once
<1>4. u[q] = k
  BY Zenon
<1> HIDE DEF u, l
<1>5. /\ k \in Seq(Item) /\ Len(k) = Len(l) - 1
      /\ \A j \in 1 .. Len(l) - 1 : k[j] = IF j < i THEN l[j] ELSE l[j + 1]
  BY Zenon, <1>1, WithoutSeq
<1> HIDE DEF k
<1>6. ASSUME NEW j \in 1 .. Len(k) PROVE k[j] # l[i]
  <2>1. j \in 1 .. Len(l) - 1 /\ j \in 1 .. Len(l) /\ j + 1 \in 1 .. Len(l) /\ (~(j < i) => j + 1 # i)
    BY <1>1, <1>5
  <2>2. j < i => j # i
    BY <1>1
  <2> QED BY Zenon, <1>2, <1>5, <2>1, <2>2
<1>7. Fresh(u, l[i])
  BY Zenon, <1>3, <1>4, <1>6 DEF Fresh
<1> QED BY Zenon, <1>7 DEF u, k, l

\* The pcb at position i of the list of q goes to the end of the ready queue.
Moved(s, q, i) ==
  [[s EXCEPT ![q] = Without(s[q], i)]
     EXCEPT ![ready_queue] = Append(s[ready_queue], s[q][i])]

LEMMA MoveRep ==
  ASSUME NEW m, NEW s, Rep(m, s), NEW q \in Queues, q # ready_queue,
         NEW i \in 1 .. Len(s[q])
  PROVE  Rep(queue_push(queue_remove(m, q, s[q][i]), ready_queue, s[q][i]),
             Moved(s, q, i))
<1> DEFINE u == [s EXCEPT ![q] = Without(s[q], i)]
           t == queue_remove(m, q, s[q][i])
           p == s[q][i]
<1>1. Rep(t, u)
  BY Zenon, RemoveRep
<1>2. p \in Item /\ s \in [Queues -> Seq(Item)] /\ Once(s)
  BY Zenon, RepParts DEF Rep
<1>3. Fresh(u, p)
  BY Zenon, <1>2, FreshAfter
<1>4. u[ready_queue] = s[ready_queue] /\ ready_queue \in Queues
  BY Zenon, <1>2, Null
<1> HIDE DEF u, t, p
<1>5. Rep(queue_push(t, ready_queue, p), [u EXCEPT ![ready_queue] = Append(u[ready_queue], p)])
  BY Zenon, <1>1, <1>2, <1>3, <1>4, PushRep
<1> QED BY Zenon, <1>4, <1>5 DEF Moved, u, t, p

\* One turn of do_unblock_all or of clear_waiting_queue.
Turn(m, q, loop) ==
  IF loop = "unblock" THEN do_unblock_one(m, q)
  ELSE queue_push(queue_dequeue(m, q), ready_queue, m.head[q])

Takes(l, i, loop) == i \in 1 .. Len(l) /\ IF loop = "unblock" THEN Peak(l, i) ELSE i = 1

\* The lists are not longer than there are pcbs.
SmallLists == \A m, s : Rep(m, s) => \A q \in Queues : Fits(s[q])

LEMMA TurnMoves ==
  ASSUME NEW m, NEW s, Rep(m, s), NEW q \in Queues, q # ready_queue,
         ~queue_is_empty(m, q), SmallLists, priority \in [Item -> Int], NEW loop
  PROVE  \E i : Takes(s[q], i, loop) /\ Rep(Turn(m, q, loop), Moved(s, q, i))
<1>1. CASE loop = "unblock"
  <2>1. Fits(s[q])
    BY Zenon DEF SmallLists
  <2>2. PICK i \in 1 .. Len(s[q]) : Pick(m, q) = s[q][i] /\ Peak(s[q], i)
    BY Zenon, <2>1, PickIsPeak
  <2>3. Rep(queue_push(queue_remove(m, q, s[q][i]), ready_queue, s[q][i]), Moved(s, q, i))
    BY Zenon, MoveRep
  <2>4. Turn(m, q, loop) = queue_push(queue_remove(m, q, s[q][i]), ready_queue, s[q][i])
    BY Zenon, <1>1, <2>2 DEF Turn, do_unblock_one
  <2> QED BY Zenon, <1>1, <2>2, <2>3, <2>4 DEF Takes
<1>2. CASE loop # "unblock"
  <2>1. m.head[q] = s[q][1] /\ queue_dequeue(m, q) = queue_remove(m, q, s[q][1])
    BY Zenon, DequeueIsRemove
  <2>2. 1 \in 1 .. Len(s[q])
    <3>1. Len(s[q]) \in Nat /\ Len(s[q]) # 0
      <4>1. IsList(m, q, s[q]) /\ Len(s[q]) \in Nat
        BY Zenon, RepParts
      <4> QED BY Zenon, <4>1 DEF queue_is_empty, IsList
    <3>2. \A n \in Nat : n # 0 => 1 \in 1 .. n
      OBVIOUS
    <3> QED BY Zenon, <3>1, <3>2
  <2>3. Rep(queue_push(queue_remove(m, q, s[q][1]), ready_queue, s[q][1]), Moved(s, q, 1))
    BY Zenon, <2>2, MoveRep
  <2>4. Turn(m, q, loop) = queue_push(queue_remove(m, q, s[q][1]), ready_queue, s[q][1])
    BY Zenon, <1>2, <2>1 DEF Turn
  <2> QED BY Zenon, <1>2, <2>2, <2>3, <2>4 DEF Takes
<1> QED BY Zenon, <1>1, <1>2

-----------------------------------------------------------------------------
(* What is left and what has been woken, as positions of the list          *)

\* e are the positions of the list that are left, from the head on, and d those
\* that have been woken, in the order of the waking.
Parts(n, e, d) ==
  /\ e \in Seq(1 .. n) /\ d \in Seq(1 .. n)
  /\ \A j, k \in 1 .. Len(e) : j < k => e[j] < e[k]
  /\ \A j, k \in 1 .. Len(d) : d[j] = d[k] => j = k
  /\ \A j \in 1 .. Len(d), k \in 1 .. Len(e) : d[j] # e[k]
  /\ \A x \in 1 .. n : \/ \E k \in 1 .. Len(e) : e[k] = x
                       \/ \E j \in 1 .. Len(d) : d[j] = x

Added(d, e, i) == Append(d, e[i])

\* The position at i of e has gone to the end of d, which leaves w and a.
MovesTo(e, d, i, w, a) ==
  /\ \A k \in 1 .. Len(w) : \E j \in 1 .. Len(e) : j # i /\ w[k] = e[j]
  /\ Len(d) \in Nat /\ Len(a) = Len(d) + 1
  /\ \A j \in 1 .. Len(d) : a[j] = d[j]
  /\ a[Len(d) + 1] = e[i]

LEMMA MoveFacts ==
  ASSUME NEW S, NEW e \in Seq(S), NEW d \in Seq(S), NEW i \in 1 .. Len(e)
  PROVE  MovesTo(e, d, i, Without(e, i), Added(d, e, i))
<1> DEFINE w == Without(e, i)
           p == e[i]
           a == Append(d, p)
<1>1. Len(e) \in Nat /\ Len(d) \in Nat /\ p \in S
  BY Zenon, SeqFacts
<1>2. /\ Len(w) = Len(e) - 1
      /\ \A j \in 1 .. Len(e) - 1 : w[j] = IF j < i THEN e[j] ELSE e[j + 1]
  BY Zenon, WithoutSeq
<1> HIDE DEF w, p
<1>3. /\ Len(a) = Len(d) + 1 /\ \A j \in 1 .. Len(d) : a[j] = d[j]
      /\ a[Len(d) + 1] = p
  <2>1. d \in Seq(S) /\ p \in S
    BY Zenon, <1>1
  <2> QED BY ONLY <2>1, AppendSeq
<1>4. \A k \in 1 .. Len(w) : \E j \in 1 .. Len(e) : j # i /\ w[k] = e[j]
  <2> TAKE k \in 1 .. Len(w)
  <2> DEFINE j == IF k < i THEN k ELSE k + 1
  <2>1. j \in 1 .. Len(e) /\ j # i /\ k \in 1 .. Len(e) - 1
    BY <1>1, <1>2
  <2>2. w[k] = e[j]
    BY Zenon, <1>2, <2>1
  <2> HIDE DEF j
  <2> QED BY Zenon, <2>1, <2>2
<1> HIDE DEF a
<1>5. MovesTo(e, d, i, w, a)
  BY Zenon, <1>1, <1>3, <1>4 DEF MovesTo, p
<1> QED BY Zenon, <1>5 DEF w, p, a, Added

LEMMA PartsMove ==
  ASSUME NEW n \in Nat, NEW e, NEW d, Parts(n, e, d), NEW i \in 1 .. Len(e)
  PROVE  Parts(n, Without(e, i), Added(d, e, i))
<1> DEFINE S == 1 .. n
           w == Without(e, i)
           a == Added(d, e, i)
<1>0. /\ e \in Seq(S) /\ d \in Seq(S) /\ Len(e) \in Nat /\ Len(d) \in Nat /\ e[i] \in S
      /\ \A k \in 1 .. Len(e) : e[k] \in Int
  BY DEF Parts
<1>1. /\ w \in Seq(S) /\ Len(w) = Len(e) - 1
      /\ \A j \in 1 .. Len(e) - 1 : w[j] = IF j < i THEN e[j] ELSE e[j + 1]
  BY Zenon, <1>0, WithoutSeq
<1>2. /\ a \in Seq(S) /\ Len(a) = Len(d) + 1
      /\ \A j \in 1 .. Len(d) : a[j] = d[j]
      /\ a[Len(d) + 1] = e[i]
  <2> DEFINE p == e[i]
  <2>1. p \in S /\ a = Append(d, p) /\ d \in Seq(S)
    BY Zenon, <1>0 DEF Added
  <2> HIDE DEF S, a, p
  <2>2. /\ Append(d, p) \in Seq(S) /\ Len(Append(d, p)) = Len(d) + 1
        /\ \A j \in 1 .. Len(d) : Append(d, p)[j] = d[j]
        /\ Append(d, p)[Len(d) + 1] = p
    BY ONLY <2>1, AppendSeq
  <2> QED BY Zenon, <2>1, <2>2 DEF p
<1>3. /\ \A j, k \in 1 .. Len(e) : j < k => e[j] < e[k]
      /\ \A j, k \in 1 .. Len(d) : d[j] = d[k] => j = k
      /\ \A j \in 1 .. Len(d), k \in 1 .. Len(e) : d[j] # e[k]
      /\ \A x \in S : \/ \E k \in 1 .. Len(e) : e[k] = x
                      \/ \E j \in 1 .. Len(d) : d[j] = x
  BY Zenon DEF Parts
<1> HIDE DEF S, w, a
<1> DEFINE J(j) == IF j < i THEN j ELSE j + 1
<1>4. \A j \in 1 .. Len(w) : /\ J(j) \in 1 .. Len(e) /\ J(j) # i /\ w[j] = e[J(j)]
                             /\ \A k \in 1 .. Len(w) : j < k => J(j) < J(k)
  BY <1>0, <1>1
<1>5. \A x \in 1 .. Len(e) : x # i => \E j \in 1 .. Len(w) : w[j] = e[x]
  <2> TAKE x \in 1 .. Len(e)
  <2> HAVE x # i
  <2> DEFINE j == IF x < i THEN x ELSE x - 1
  <2>1. j \in 1 .. Len(w) /\ J(j) = x
    BY <1>0, <1>1
  <2> HIDE DEF j, J
  <2> QED BY Zenon, <1>4, <2>1
<1> HIDE DEF J
<1>6. \A j \in 1 .. Len(a) : (j \in 1 .. Len(d) /\ a[j] = d[j]) \/ (j = Len(d) + 1 /\ a[j] = e[i])
  BY <1>0, <1>2
<1>7. \A j, k \in 1 .. Len(w) : j < k => w[j] < w[k]
  BY Zenon, <1>3, <1>4
<1>8. \A j, k \in 1 .. Len(a) : a[j] = a[k] => j = k
  BY Zenon, <1>3, <1>6
<1>9. \A j, k \in 1 .. Len(e) : e[j] = e[k] => j = k
  <2> SUFFICES ASSUME NEW j \in 1 .. Len(e), NEW k \in 1 .. Len(e), e[j] = e[k]
               PROVE  j = k
    BY Zenon
  <2>1. ~(e[j] < e[k]) /\ ~(e[k] < e[j])
    BY <1>0
  <2>2. ~(j < k) /\ ~(k < j)
    BY Zenon, <1>3, <2>1
  <2> QED BY <2>2
<1>10. \A j \in 1 .. Len(a), k \in 1 .. Len(w) : a[j] # w[k]
  <2> TAKE j \in 1 .. Len(a), k \in 1 .. Len(w)
  <2>1. J(k) \in 1 .. Len(e) /\ J(k) # i /\ w[k] = e[J(k)]
    BY Zenon, <1>4
  <2>2. CASE j \in 1 .. Len(d) /\ a[j] = d[j]
    BY Zenon, <1>3, <2>1, <2>2
  <2>3. CASE a[j] = e[i]
    BY Zenon, <1>9, <2>1, <2>3
  <2> QED BY Zenon, <1>6, <2>2, <2>3
<1>11. \A x \in S : \/ \E k \in 1 .. Len(w) : w[k] = x
                    \/ \E j \in 1 .. Len(a) : a[j] = x
  <2> TAKE x \in S
  <2>1. \A j \in 1 .. Len(d) : j \in 1 .. Len(a)
    BY <1>0, <1>2
  <2>2. Len(d) + 1 \in 1 .. Len(a)
    BY <1>0, <1>2
  <2>3. CASE \E j \in 1 .. Len(d) : d[j] = x
    BY Zenon, <1>2, <2>1, <2>3
  <2>4. ASSUME NEW k \in 1 .. Len(e), e[k] = x
        PROVE  (\E j \in 1 .. Len(w) : w[j] = x) \/ (\E j \in 1 .. Len(a) : a[j] = x)
    <3>1. CASE k = i
      BY Zenon, <1>2, <2>2, <2>4, <3>1
    <3>2. CASE k # i
      BY Zenon, <1>5, <2>4, <3>2
    <3> QED BY Zenon, <3>1, <3>2
  <2> QED BY Zenon, <1>3, <2>3, <2>4
<1>12. Parts(n, w, a)
  BY Zenon, <1>1, <1>2, <1>7, <1>8, <1>10, <1>11 DEF Parts, S
<1> QED BY Zenon, <1>12 DEF w, a

\* The order of do_unblock_all, in terms of positions: LeavesBefore of module
\* Sched.
Leaves(l, i, j) ==
  \/ i < j /\ \E x \in i + 1 .. j : priority[l[x]] <= priority[l[i]]
  \/ j < i /\ \A x \in j + 1 .. i : priority[l[x]] > priority[l[j]]

\* The elements of l at the positions e.
Read(l, e) == [j \in 1 .. Len(e) |-> l[e[j]]]

\* What has been woken leaves before what comes later and what is left.
Ordered(l, e, d) ==
  /\ \A j \in 1 .. Len(d), k \in 1 .. Len(e) : Leaves(l, d[j], e[k])
  /\ \A j, k \in 1 .. Len(d) : j < k => Leaves(l, d[j], d[k])

\* The peak leaves before everything that is left.
LEMMA PeakLeaves ==
  ASSUME priority \in [Item -> Int], NEW l \in Seq(Item), NEW e, NEW d,
         Parts(Len(l), e, d), Ordered(l, e, d),
         NEW i \in 1 .. Len(e), Peak(Read(l, e), i),
         NEW j \in 1 .. Len(e), j # i
  PROVE  Leaves(l, e[i], e[j])
<1> DEFINE n == Len(l)
           v == Read(l, e)
<1>0. /\ n \in Nat /\ Len(e) \in Nat /\ \A k \in 1 .. Len(e) : e[k] \in 1 .. n
      /\ \A k \in 1 .. n : l[k] \in Item
  <2>1. n \in Nat /\ \A k \in 1 .. n : l[k] \in Item
    OBVIOUS
  <2>2. e \in Seq(1 .. n)
    BY Zenon DEF Parts
  <2> HIDE DEF n
  <2>3. Len(e) \in Nat /\ \A k \in 1 .. Len(e) : e[k] \in 1 .. n
    BY Zenon, <2>2, SeqFacts
  <2> QED BY Zenon, <2>1, <2>3
<1>1. v \in Seq(Item) /\ Len(v) = Len(e) /\ \A k \in 1 .. Len(e) : v[k] = l[e[k]]
  <2>1. v \in [1 .. Len(e) -> Item]
    BY Zenon, <1>0 DEF Read
  <2>2. v \in Seq(Item) /\ Len(v) = Len(e)
    BY Zenon, <1>0, <2>1, SeqOf
  <2> QED BY Zenon, <2>2 DEF Read
<1> HIDE DEF n, v
<1>2. CASE i < j
  <2>1. i + 1 \in 1 .. Len(e) /\ i < i + 1 /\ (i + 1 < j \/ i + 1 = j)
    BY <1>0, <1>2
  <2>2. e[i] < e[i + 1] /\ (e[i + 1] < e[j] \/ e[i + 1] = e[j])
    BY Zenon, <2>1 DEF Parts
  <2>3. e[i] \in Int /\ e[i + 1] \in Int /\ e[j] \in Int
    BY <1>0, <2>1
  <2>4. e[i] < e[j] /\ e[i + 1] \in e[i] + 1 .. e[j]
    BY <2>2, <2>3
  <2>5. i < Len(v)
    BY <1>0, <1>1, <1>2
  <2>6. priority[l[e[i]]] >= priority[l[e[i + 1]]]
    BY Zenon, <1>1, <2>1, <2>5 DEF Peak, v
  <2>7. priority[l[e[i + 1]]] <= priority[l[e[i]]]
    <3>1. l[e[i]] \in Item /\ l[e[i + 1]] \in Item
      BY Zenon, <1>0, <2>1
    <3>2. priority[l[e[i]]] \in Int /\ priority[l[e[i + 1]]] \in Int
      BY Zenon, <3>1
    <3> QED BY <2>6, <3>2
  <2> QED BY Zenon, <2>4, <2>7 DEF Leaves
<1>3. CASE j < i
  <2>1. e[j] < e[i] /\ e[j] \in 1 .. n /\ e[i] \in 1 .. n
    BY Zenon, <1>0, <1>3 DEF Parts
  <2>2. ASSUME NEW x \in e[j] + 1 .. e[i]
        PROVE  priority[l[x]] > priority[l[e[j]]]
    <3>1. x \in 1 .. n /\ e[j] < x /\ ~(x < e[j]) /\ x # e[j] /\ ~(e[i] < x)
      BY <1>0, <2>1
    <3>2. ASSUME NEW k \in 1 .. Len(e), e[k] = x
          PROVE  priority[l[x]] > priority[l[e[j]]]
      <4>1. ~(k < j) /\ k # j /\ ~(i < k)
        BY Zenon, <3>1, <3>2 DEF Parts
      <4>2. j < k /\ j \in 1 .. i /\ k \in 1 .. i
        BY <1>3, <4>1
      <4>3. priority[v[j]] < priority[v[k]]
        BY Zenon, <1>1, <4>2, Climb DEF v
      <4>4. priority[l[e[j]]] < priority[l[x]]
        BY Zenon, <1>1, <3>2, <4>3
      <4>5. priority[l[e[j]]] \in Int /\ priority[l[x]] \in Int
        BY Zenon, <1>0, <2>1, <3>1
      <4> QED BY <4>4, <4>5
    <3>3. ASSUME NEW k \in 1 .. Len(d), d[k] = x
          PROVE  priority[l[x]] > priority[l[e[j]]]
      <4>1. Leaves(l, x, e[j])
        BY Zenon, <3>3 DEF Ordered
      <4>2. \A y \in e[j] + 1 .. x : priority[l[y]] > priority[l[e[j]]]
        BY Zenon, <3>1, <4>1 DEF Leaves
      <4>3. x \in e[j] + 1 .. x
        BY <2>1, <3>1
      <4> QED BY Zenon, <4>2, <4>3
    <3> QED BY Zenon, <3>1, <3>2, <3>3 DEF Parts, n
  <2> QED BY Zenon, <2>1, <2>2 DEF Leaves
<1> QED
  <2>1. i < j \/ j < i
    OBVIOUS
  <2> QED BY Zenon, <1>2, <1>3, <2>1

LEMMA OrderMove ==
  ASSUME priority \in [Item -> Int], NEW l \in Seq(Item), NEW e, NEW d,
         Parts(Len(l), e, d), Ordered(l, e, d),
         NEW i \in 1 .. Len(e), Peak(Read(l, e), i)
  PROVE  Ordered(l, Without(e, i), Added(d, e, i))
<1> DEFINE w == Without(e, i)
           a == Added(d, e, i)
<1>1. /\ \A k \in 1 .. Len(w) : \E j \in 1 .. Len(e) : j # i /\ w[k] = e[j]
      /\ Len(d) \in Nat /\ Len(a) = Len(d) + 1
      /\ \A j \in 1 .. Len(d) : a[j] = d[j]
      /\ a[Len(d) + 1] = e[i]
  <2>1. e \in Seq(1 .. Len(l)) /\ d \in Seq(1 .. Len(l))
    BY Zenon DEF Parts
  <2>2. MovesTo(e, d, i, w, a)
    BY Zenon, <2>1, MoveFacts
  <2> HIDE DEF w, a
  <2> QED BY Zenon, <2>2 DEF MovesTo
<1> HIDE DEF w, a
<1>2. \A j \in 1 .. Len(e) : j # i => Leaves(l, e[i], e[j])
  BY Zenon, PeakLeaves
<1>3. \A j \in 1 .. Len(a) : \/ j \in 1 .. Len(d) /\ a[j] = d[j]
                             \/ j = Len(d) + 1 /\ a[j] = e[i]
  BY <1>1
<1>4. \A j \in 1 .. Len(a), k \in 1 .. Len(w) : Leaves(l, a[j], w[k])
  <2> TAKE j \in 1 .. Len(a), k \in 1 .. Len(w)
  <2>1. PICK x \in 1 .. Len(e) : x # i /\ w[k] = e[x]
    BY Zenon, <1>1
  <2>2. CASE j \in 1 .. Len(d) /\ a[j] = d[j]
    BY Zenon, <2>1, <2>2 DEF Ordered
  <2>3. CASE a[j] = e[i]
    BY Zenon, <1>2, <2>1, <2>3
  <2> QED BY Zenon, <1>3, <2>2, <2>3
<1>5. \A j, k \in 1 .. Len(a) : j < k => Leaves(l, a[j], a[k])
  <2> TAKE j, k \in 1 .. Len(a)
  <2> HAVE j < k
  <2>1. j \in 1 .. Len(d)
    BY <1>1
  <2>2. a[j] = d[j]
    BY Zenon, <1>1, <2>1
  <2>3. CASE k \in 1 .. Len(d) /\ a[k] = d[k]
    BY Zenon, <2>1, <2>2, <2>3 DEF Ordered
  <2>4. CASE a[k] = e[i]
    BY Zenon, <2>1, <2>2, <2>4 DEF Ordered
  <2> QED BY Zenon, <1>3, <2>3, <2>4
<1>6. Ordered(l, w, a)
  BY Zenon, <1>4, <1>5 DEF Ordered
<1> QED BY Zenon, <1>6 DEF w, a

\* clear_waiting_queue wakes from the head on.
InTurn(e, d) ==
  /\ \A j \in 1 .. Len(d) : d[j] = j
  /\ \A k \in 1 .. Len(e) : e[k] = Len(d) + k

LEMMA TurnsMove ==
  ASSUME NEW n \in Nat, NEW e \in Seq(1 .. n), NEW d \in Seq(1 .. n), InTurn(e, d),
         1 \in 1 .. Len(e)
  PROVE  InTurn(Without(e, 1), Added(d, e, 1))
<1> DEFINE S == 1 .. n
           w == Without(e, 1)
           p == e[1]
           a == Append(d, p)
<1>0. Len(e) \in Nat /\ Len(d) \in Nat /\ p \in S
  BY Zenon, SeqFacts
<1>1. /\ Len(w) = Len(e) - 1
      /\ \A j \in 1 .. Len(e) - 1 : w[j] = IF j < 1 THEN e[j] ELSE e[j + 1]
  BY Zenon, WithoutSeq
<1> HIDE DEF S, w, p
<1>2. /\ Len(a) = Len(d) + 1 /\ \A j \in 1 .. Len(d) : a[j] = d[j]
      /\ a[Len(d) + 1] = p
  <2>1. d \in Seq(S) /\ p \in S
    BY Zenon, <1>0 DEF S
  <2> QED BY ONLY <2>1, AppendSeq
<1> HIDE DEF a
<1>3. p = Len(d) + 1
  BY Zenon DEF InTurn, p
<1>4. \A j \in 1 .. Len(a) : a[j] = j
  <2> TAKE j \in 1 .. Len(a)
  <2>1. j \in 1 .. Len(d) \/ j = Len(d) + 1
    BY <1>0, <1>2
  <2> QED BY Zenon, <1>2, <1>3, <2>1 DEF InTurn
<1>5. \A k \in 1 .. Len(w) : w[k] = Len(a) + k
  <2> TAKE k \in 1 .. Len(w)
  <2>1. k \in 1 .. Len(e) - 1 /\ ~(k < 1) /\ k + 1 \in 1 .. Len(e)
        /\ Len(d) + (k + 1) = Len(a) + k
    BY <1>0, <1>1, <1>2
  <2> QED BY Zenon, <1>1, <2>1 DEF InTurn
<1> QED BY Zenon, <1>4, <1>5 DEF InTurn, w, a, p, Added

-----------------------------------------------------------------------------
(* The loops                                                               *)

\* A loop that has taken n turns, step by step.
TurnIfAny(x, q, loop) == IF queue_is_empty(x, q) THEN x ELSE Turn(x, q, loop)

Next1(m, q, loop, f, n) == IF n = 0 THEN m ELSE TurnIfAny(f[n - 1], q, loop)

Loops(m, q, loop, f, k) == f = [n \in 0 .. k |-> Next1(m, q, loop, f, n)]

LEMMA LoopsExists ==
  ASSUME NEW m, NEW q, NEW loop, NEW k \in Nat
  PROVE  \E f : Loops(m, q, loop, f, k)
<1>1. \E f : Loops(m, q, loop, f, 0)
  <2> DEFINE g == [n \in 0 .. 0 |-> m]
  <2>1. \A n \in 0 .. 0 : Next1(m, q, loop, g, n) = m
    BY DEF Next1
  <2>2. g = [n \in 0 .. 0 |-> Next1(m, q, loop, g, n)]
    BY <2>1
  <2> QED BY Zenon, <2>2 DEF Loops
<1>2. ASSUME NEW j \in Nat, NEW f, Loops(m, q, loop, f, j)
      PROVE  \E g : Loops(m, q, loop, g, j + 1)
  <2> DEFINE g == [n \in 0 .. j + 1 |-> IF n = j + 1 THEN Next1(m, q, loop, f, n)
                                        ELSE f[n]]
  <2>0. \A n \in 0 .. j + 1 : n \in 0 .. j \/ n = j + 1
    OBVIOUS
  <2>4. j + 1 \notin 0 .. j /\ \A n \in 0 .. j : n \in 0 .. j + 1
    OBVIOUS
  <2>1. \A n \in 0 .. j : g[n] = f[n] /\ f[n] = Next1(m, q, loop, f, n)
    BY Zenon, <1>2, <2>4 DEF Loops
  <2>2. \A n \in 0 .. j + 1 : g[n] = Next1(m, q, loop, f, n)
    BY Zenon, <2>0, <2>1
  <2> HIDE DEF g
  <2>3. \A n \in 0 .. j + 1 : Next1(m, q, loop, g, n) = Next1(m, q, loop, f, n)
    <3> TAKE n \in 0 .. j + 1
    <3>1. CASE n = 0
      BY Zenon, <3>1 DEF Next1
    <3>2. CASE n # 0
      <4>1. n - 1 \in 0 .. j
        BY <3>2
      <4>2. g[n - 1] = f[n - 1]
        BY Zenon, <2>1, <4>1
      <4> QED BY Zenon, <4>2 DEF Next1
    <3> QED BY Zenon, <3>1, <3>2
  <2>5. g = [n \in 0 .. j + 1 |-> Next1(m, q, loop, g, n)]
    <3>1. g = [n \in 0 .. j + 1 |-> g[n]]
      BY Zenon DEF g
    <3> QED BY Zenon, <2>2, <2>3, <3>1
  <2> QED BY Zenon, <2>5 DEF Loops
<1> DEFINE Bad == {j \in Nat : ~\E f : Loops(m, q, loop, f, j)}
<1>3. SUFFICES ASSUME Bad # {} PROVE FALSE
  BY Zenon
<1>4. PICK j \in Bad : \A n \in Bad : j <= n
  BY Zenon, <1>3, Least
<1>5. j # 0
  BY Zenon, <1>1
<1>6. j - 1 \in Nat /\ j - 1 \notin Bad /\ (j - 1) + 1 = j
  BY <1>4, <1>5
<1>7. PICK f : Loops(m, q, loop, f, j - 1)
  BY Zenon, <1>6
<1>8. \E g : Loops(m, q, loop, g, (j - 1) + 1)
  BY Zenon, <1>2, <1>6, <1>7
<1> QED BY Zenon, <1>6, <1>8

LEMMA ClearLoops ==
  ASSUME NEW m, NEW q, Cardinality(Item) \in Nat
  PROVE  \E f : /\ Loops(m, q, "clear", f, Cardinality(Item))
                /\ clear_waiting_queue(m, q) = f[Cardinality(Item)]
<1> DEFINE N == Cardinality(Item)
           B(f, n) == IF n = 0 THEN m
                      ELSE IF queue_is_empty(f[n - 1], q) THEN f[n - 1]
                      ELSE queue_push(queue_dequeue(f[n - 1], q), ready_queue,
                                      f[n - 1].head[q])
           C(f) == f = [n \in 0 .. N |-> B(f, n)]
           f == CHOOSE g : C(g)
<1>1. \A g : C(g) <=> Loops(m, q, "clear", g, N)
  <2>1. \A g, n : B(g, n) = Next1(m, q, "clear", g, n)
    BY DEF Next1, TurnIfAny, Turn
  <2> HIDE DEF B, N
  <2> QED BY Zenon, <2>1 DEF Loops
<1>2. clear_waiting_queue(m, q) = f[N]
  BY Zenon DEF clear_waiting_queue, UntilEmpty
<1> HIDE DEF C
<1>3. C(f)
  BY Zenon, <1>1, LoopsExists
<1> QED BY Zenon, <1>1, <1>2, <1>3

LEMMA UnblockLoops ==
  ASSUME NEW m, NEW q, Cardinality(Item) \in Nat
  PROVE  \E f : /\ Loops(m, q, "unblock", f, Cardinality(Item))
                /\ do_unblock_all(m, q) = f[Cardinality(Item)]
<1> DEFINE N == Cardinality(Item)
           B(f, n) == IF n = 0 THEN m
                      ELSE IF queue_is_empty(f[n - 1], q) THEN f[n - 1]
                      ELSE do_unblock_one(f[n - 1], q)
           C(f) == f = [n \in 0 .. N |-> B(f, n)]
           f == CHOOSE g : C(g)
<1>1. \A g : C(g) <=> Loops(m, q, "unblock", g, N)
  <2>1. \A g, n : B(g, n) = Next1(m, q, "unblock", g, n)
    BY Zenon DEF Next1, TurnIfAny, Turn
  <2> HIDE DEF B, N
  <2> QED BY Zenon, <2>1 DEF Loops
<1>2. do_unblock_all(m, q) = f[N]
  BY Zenon DEF do_unblock_all, UntilEmpty
<1> HIDE DEF C
<1>3. C(f)
  BY Zenon, <1>1, LoopsExists
<1> QED BY Zenon, <1>1, <1>2, <1>3

\* The sequences when the positions e of the list of q are left and d woken.
Mix(s, q, e, d) ==
  [[s EXCEPT ![q] = Read(s[q], e)]
     EXCEPT ![ready_queue] = s[ready_queue] \o Read(s[q], d)]

LEMMA ReadSeq ==
  ASSUME NEW l \in Seq(Item), NEW e \in Seq(1 .. Len(l))
  PROVE  /\ Read(l, e) \in Seq(Item) /\ Len(Read(l, e)) = Len(e)
         /\ \A j \in 1 .. Len(e) : Read(l, e)[j] = l[e[j]]
<1>1. Len(e) \in Nat /\ \A j \in 1 .. Len(e) : e[j] \in 1 .. Len(l)
  BY Zenon, SeqFacts
<1>2. \A j \in 1 .. Len(l) : l[j] \in Item
  BY Zenon, SeqFacts
<1>3. Read(l, e) \in [1 .. Len(e) -> Item]
  BY Zenon, <1>1, <1>2 DEF Read
<1>4. Read(l, e) \in Seq(Item) /\ Len(Read(l, e)) = Len(e)
  BY Zenon, <1>1, <1>3, SeqOf
<1> QED BY Zenon, <1>4 DEF Read

LEMMA ReadWithout ==
  ASSUME NEW l \in Seq(Item), NEW e \in Seq(1 .. Len(l)), NEW i \in 1 .. Len(e)
  PROVE  Read(l, Without(e, i)) = Without(Read(l, e), i)
<1> DEFINE w == Without(e, i)
           v == Read(l, e)
           a == Read(l, w)
           b == Without(v, i)
<1>1. /\ w \in Seq(1 .. Len(l)) /\ Len(w) = Len(e) - 1
      /\ \A j \in 1 .. Len(e) - 1 : w[j] = IF j < i THEN e[j] ELSE e[j + 1]
  BY Zenon, WithoutSeq
<1>2. v \in Seq(Item) /\ Len(v) = Len(e) /\ \A j \in 1 .. Len(e) : v[j] = l[e[j]]
  BY Zenon, ReadSeq
<1> HIDE DEF w, v
<1>3. a \in Seq(Item) /\ Len(a) = Len(w) /\ \A j \in 1 .. Len(w) : a[j] = l[w[j]]
  BY Zenon, <1>1, ReadSeq
<1>4. /\ b \in Seq(Item) /\ Len(b) = Len(v) - 1
      /\ \A j \in 1 .. Len(v) - 1 : b[j] = IF j < i THEN v[j] ELSE v[j + 1]
  <2>1. i \in 1 .. Len(v)
    BY Zenon, <1>2
  <2> QED BY Zenon, <1>2, <2>1, WithoutSeq
<1> HIDE DEF a, b
<1>5. Len(e) \in Nat
  BY Zenon, SeqFacts
<1>6. Len(a) = Len(b) /\ Len(a) = Len(e) - 1
  BY Zenon, <1>1, <1>2, <1>3, <1>4
<1>7. ASSUME NEW j \in 1 .. Len(a) PROVE a[j] = b[j]
  <2>1. /\ j \in 1 .. Len(w) /\ j \in 1 .. Len(e) - 1 /\ j \in 1 .. Len(v) - 1
    BY Zenon, <1>1, <1>2, <1>3, <1>6
  <2>2. j \in 1 .. Len(e) /\ j + 1 \in 1 .. Len(e)
    BY <1>5, <2>1
  <2>3. v[j] = l[e[j]] /\ v[j + 1] = l[e[j + 1]] /\ a[j] = l[w[j]]
    BY Zenon, <1>2, <1>3, <2>1, <2>2
  <2>4. /\ w[j] = IF j < i THEN e[j] ELSE e[j + 1]
        /\ b[j] = IF j < i THEN v[j] ELSE v[j + 1]
    BY Zenon, <1>1, <1>4, <2>1
  <2> QED BY Zenon, <2>3, <2>4
<1>8. a = b
  BY Zenon, <1>3, <1>4, <1>6, <1>7, SameSeq
<1> QED BY Zenon, <1>8 DEF a, b, v, w

LEMMA ReadAppend ==
  ASSUME NEW l \in Seq(Item), NEW r \in Seq(Item), NEW d \in Seq(1 .. Len(l)),
         NEW x \in 1 .. Len(l)
  PROVE  r \o Read(l, Append(d, x)) = Append(r \o Read(l, d), l[x])
<1> DEFINE S == 1 .. Len(l)
           p == l[x]
           dx == Append(d, x)
           v == Read(l, d)
           w == Read(l, dx)
<1>0. Len(d) \in Nat /\ Len(r) \in Nat /\ p \in Item
  BY Zenon, SeqFacts
<1>1. d \in Seq(S) /\ x \in S
  BY Zenon
<1>9. v \in Seq(Item) /\ Len(v) = Len(d) /\ \A j \in 1 .. Len(d) : v[j] = l[d[j]]
  BY Zenon, ReadSeq
<1>2. /\ dx \in Seq(S) /\ Len(dx) = Len(d) + 1 /\ dx[Len(d) + 1] = x
      /\ \A j \in 1 .. Len(d) : dx[j] = d[j]
  <2> HIDE DEF S
  <2> QED BY ONLY <1>1, AppendSeq
<1> HIDE DEF dx, p, v
<1>3. w \in Seq(Item) /\ Len(w) = Len(dx) /\ \A j \in 1 .. Len(dx) : w[j] = l[dx[j]]
  BY Zenon, <1>2, ReadSeq
<1> HIDE DEF w, S
<1>4. /\ Len(w) = Len(d) + 1 /\ w[Len(d) + 1] = p
      /\ \A j \in 1 .. Len(d) : w[j] = v[j]
  <2>1. \A n \in Nat : n + 1 \in 1 .. n + 1 /\ \A j \in 1 .. n : j \in 1 .. n + 1
    OBVIOUS
  <2>2. Len(d) + 1 \in 1 .. Len(dx) /\ \A j \in 1 .. Len(d) : j \in 1 .. Len(dx)
    BY Zenon, <1>0, <1>2, <2>1
  <2> QED BY Zenon, <1>2, <1>3, <1>9, <2>2 DEF p
<1>5. w = Append(v, p)
  <2> DEFINE vp == Append(v, p)
  <2>1. v \in Seq(Item) /\ p \in Item
    BY Zenon, <1>0, <1>9
  <2>2. /\ vp \in Seq(Item) /\ Len(vp) = Len(v) + 1 /\ vp[Len(v) + 1] = p
        /\ \A j \in 1 .. Len(v) : vp[j] = v[j]
    BY ONLY <2>1, AppendSeq
  <2> HIDE DEF vp
  <2>3. Len(w) = Len(vp)
    BY Zenon, <1>4, <1>9, <2>2
  <2>4. \A j \in 1 .. Len(w) : j \in 1 .. Len(d) \/ j = Len(d) + 1
    BY <1>0, <1>4
  <2>5. \A j \in 1 .. Len(w) : w[j] = vp[j]
    BY Zenon, <1>4, <1>9, <2>2, <2>4
  <2>6. w = vp
    BY Zenon, <1>3, <2>2, <2>3, <2>5, SameSeq
  <2> QED BY Zenon, <2>6 DEF vp
<1>6. r \o Append(v, p) = Append(r \o v, p)
  <2>1. r \in Seq(Item) /\ v \in Seq(Item) /\ p \in Item
    BY Zenon, <1>0, <1>9
  <2> QED BY ONLY <2>1
<1> QED BY Zenon, <1>5, <1>6 DEF w, dx, v, p

IsMix(s, q, e, d, u) ==
  /\ u[q] = Read(s[q], e) /\ u[ready_queue] = s[ready_queue] \o Read(s[q], d)
  /\ \A x \in Queues : x # q /\ x # ready_queue => u[x] = s[x]
  /\ u = [x \in Queues |-> u[x]]

LEMMA MixAt ==
  ASSUME NEW s \in [Queues -> Seq(Item)], NEW q \in Queues, q # ready_queue,
         NEW e, NEW d
  PROVE  IsMix(s, q, e, d, Mix(s, q, e, d))
<1>1. ready_queue \in Queues
  BY Zenon, Null
<1> QED BY Zenon, <1>1 DEF Mix, IsMix

MixMoves(s, q, e, d, i) ==
  Moved(Mix(s, q, e, d), q, i) = Mix(s, q, Without(e, i), Added(d, e, i))

LEMMA MixMove ==
  ASSUME NEW s \in [Queues -> Seq(Item)], NEW q \in Queues, q # ready_queue,
         NEW e, NEW d, Parts(Len(s[q]), e, d), NEW i \in 1 .. Len(e)
  PROVE  MixMoves(s, q, e, d, i)
<1> DEFINE l == s[q]
           u == Mix(s, q, e, d)
           w == Without(e, i)
           a == Added(d, e, i)
           v == Mix(s, q, w, a)
           t == Moved(u, q, i)
<1>0. /\ l \in Seq(Item) /\ s[ready_queue] \in Seq(Item) /\ ready_queue \in Queues
      /\ e \in Seq(1 .. Len(l)) /\ d \in Seq(1 .. Len(l))
  BY Zenon, Null DEF Parts
<1>1. e[i] \in 1 .. Len(l)
  BY Zenon, <1>0, SeqFacts
<1>2. /\ u[q] = Read(l, e) /\ u[ready_queue] = s[ready_queue] \o Read(l, d)
      /\ \A x \in Queues : x # q /\ x # ready_queue => u[x] = s[x]
      /\ u = [x \in Queues |-> u[x]]
  <2>1. IsMix(s, q, e, d, u)
    BY Zenon, MixAt
  <2> HIDE DEF u
  <2> QED BY Zenon, <2>1 DEF IsMix
<1>3. /\ v[q] = Read(l, w) /\ v[ready_queue] = s[ready_queue] \o Read(l, a)
      /\ \A x \in Queues : x # q /\ x # ready_queue => v[x] = s[x]
      /\ v = [x \in Queues |-> v[x]]
  <2>1. IsMix(s, q, w, a, v)
    BY Zenon, MixAt
  <2> HIDE DEF v, w, a
  <2> QED BY Zenon, <2>1 DEF IsMix
<1>4. u[q][i] = l[e[i]]
  BY Zenon, <1>0, <1>2, ReadSeq
<1> HIDE DEF l, u, v
<1>5. Without(u[q], i) = v[q]
  BY Zenon, <1>0, <1>2, <1>3, ReadWithout DEF w
<1>6. Append(u[ready_queue], u[q][i]) = v[ready_queue]
  <2>1. s[ready_queue] \o Read(l, a) = Append(s[ready_queue] \o Read(l, d), l[e[i]])
    BY Zenon, <1>0, <1>1, ReadAppend DEF Added
  <2> HIDE DEF a
  <2> QED BY Zenon, <1>2, <1>3, <1>4, <2>1
<1>7. t = [[u EXCEPT ![q] = v[q]] EXCEPT ![ready_queue] = v[ready_queue]]
  BY Zenon, <1>5, <1>6 DEF Moved
<1> HIDE DEF t
<1>8. t = v
  <2>1. t = [x \in Queues |-> t[x]]
    BY Zenon, <1>2, <1>7
  <2>2. \A x \in Queues : t[x] = v[x]
    BY Zenon, <1>2, <1>3, <1>7
  <2> QED BY Zenon, <1>3, <2>1, <2>2
<1> QED BY Zenon, <1>8 DEF t, u, v, w, a, MixMoves

\* How far a loop over the list l has come.
Progress(l, e, d, loop) ==
  /\ Parts(Len(l), e, d)
  /\ Len(e) + Len(d) = Len(l)
  /\ IF loop = "unblock" THEN Ordered(l, e, d) ELSE InTurn(e, d)

LEMMA ProgressStart ==
  ASSUME NEW s \in [Queues -> Seq(Item)], NEW q \in Queues, q # ready_queue, NEW loop
  PROVE  \E e, d : Progress(s[q], e, d, loop) /\ Mix(s, q, e, d) = s /\ Len(d) = 0
<1> DEFINE l == s[q]
           r == s[ready_queue]
           n == Len(l)
           e == [j \in 1 .. n |-> j]
           d == <<>>
           u == Mix(s, q, e, d)
<1>0. l \in Seq(Item) /\ r \in Seq(Item) /\ ready_queue \in Queues
  BY Zenon, Null
<1> HIDE DEF l, r
<1>10. n \in Nat
  BY <1>0
<1> HIDE DEF n
<1>1. e \in Seq(1 .. n) /\ Len(e) = n
  <2>1. e \in [1 .. n -> 1 .. n]
    OBVIOUS
  <2> HIDE DEF e
  <2> QED BY Zenon, <1>10, <2>1, SeqOf
<1>2. d \in Seq(1 .. n) /\ Len(d) = 0 /\ 1 .. Len(d) = {}
  OBVIOUS
<1>3. \A j \in 1 .. n : e[j] = j
  OBVIOUS
<1> HIDE DEF e, d
<1>4. Parts(n, e, d)
  BY Zenon, <1>1, <1>2, <1>3 DEF Parts
<1>5. Len(e) + Len(d) = n
  BY <1>1, <1>2, <1>10
<1>6. Ordered(l, e, d)
  BY Zenon, <1>2 DEF Ordered
<1>7. InTurn(e, d)
  <2>1. \A k \in 1 .. n : k = Len(d) + k
    BY <1>2
  <2> QED BY Zenon, <1>1, <1>2, <1>3, <2>1 DEF InTurn
<1>8. Progress(l, e, d, loop)
  BY Zenon, <1>4, <1>5, <1>6, <1>7 DEF Progress, n
<1>9. u = s
  <2>1. IsMix(s, q, e, d, u)
    BY Zenon, MixAt
  <2> HIDE DEF u
  <2>2. Read(l, e) = l
    <3>1. /\ Read(l, e) \in Seq(Item) /\ Len(Read(l, e)) = Len(e)
          /\ \A j \in 1 .. Len(e) : Read(l, e)[j] = l[e[j]]
      BY Zenon, <1>0, <1>1, ReadSeq DEF n
    <3>2. Len(Read(l, e)) = Len(l) /\ \A j \in 1 .. Len(Read(l, e)) : Read(l, e)[j] = l[j]
      <4>1. Len(Read(l, e)) = Len(l) /\ Len(e) = n
        BY Zenon, <1>1, <3>1 DEF n
      <4>2. \A j \in 1 .. n : Read(l, e)[j] = l[j]
        BY Zenon, <1>3, <3>1, <4>1
      <4> QED BY Zenon, <4>1, <4>2 DEF n
    <3> QED BY Zenon, <1>0, <3>1, <3>2, SameSeq
  <2>3. r \o Read(l, d) = r
    <3> DEFINE v == Read(l, d)
    <3>1. v \in Seq(Item) /\ Len(v) = 0
      BY Zenon, <1>0, <1>2, ReadSeq DEF n
    <3> HIDE DEF v
    <3>2. v = <<>>
      BY <3>1
    <3>3. r \o <<>> = r
      BY <1>0
    <3> QED BY Zenon, <3>2, <3>3 DEF v
  <2>4. s = [x \in Queues |-> s[x]]
    BY Zenon
  <2>5. \A x \in Queues : u[x] = s[x]
    BY Zenon, <2>1, <2>2, <2>3 DEF IsMix, l, r
  <2> QED BY Zenon, <2>1, <2>4, <2>5 DEF IsMix
<1> QED BY Zenon, <1>2, <1>8, <1>9 DEF l, u

ProgressTo(l, e, d, loop, i) ==
  /\ i \in 1 .. Len(e)
  /\ Progress(l, Without(e, i), Added(d, e, i), loop)
  /\ Len(Added(d, e, i)) = Len(d) + 1

LEMMA ProgressMove ==
  ASSUME priority \in [Item -> Int], NEW l \in Seq(Item), NEW e, NEW d, NEW loop,
         Progress(l, e, d, loop), NEW i, Takes(Read(l, e), i, loop)
  PROVE  ProgressTo(l, e, d, loop, i)
<1> DEFINE w == Without(e, i)
           a == Added(d, e, i)
<1>1. Parts(Len(l), e, d) /\ Len(e) + Len(d) = Len(l) /\ Len(l) \in Nat
  BY Zenon, SeqFacts DEF Progress
<1>2. e \in Seq(1 .. Len(l)) /\ d \in Seq(1 .. Len(l))
  BY Zenon, <1>1 DEF Parts
<1>3. Len(Read(l, e)) = Len(e) /\ Len(e) \in Nat /\ Len(d) \in Nat
  BY Zenon, <1>2, ReadSeq, SeqFacts
<1>4. i \in 1 .. Len(e)
  BY Zenon, <1>3 DEF Takes
<1>5. Parts(Len(l), w, a)
  BY Zenon, <1>1, <1>4, PartsMove
<1>6. ASSUME loop = "unblock" PROVE Ordered(l, w, a)
  <2>1. Ordered(l, e, d) /\ Peak(Read(l, e), i)
    BY Zenon, <1>6 DEF Progress, Takes
  <2> QED BY Zenon, <1>1, <1>4, <2>1, OrderMove
<1>7. ASSUME loop # "unblock" PROVE InTurn(w, a)
  <2>1. InTurn(e, d) /\ i = 1
    BY Zenon, <1>7 DEF Progress, Takes
  <2> QED BY Zenon, <1>1, <1>2, <1>4, <2>1, TurnsMove
<1>8. Len(w) = Len(e) - 1
  BY Zenon, <1>2, <1>4, WithoutSeq
<1>9. Len(a) = Len(d) + 1
  <2>1. MovesTo(e, d, i, w, a)
    BY Zenon, <1>2, <1>4, MoveFacts
  <2> HIDE DEF w, a
  <2> QED BY Zenon, <2>1 DEF MovesTo
<1> HIDE DEF w, a
<1>10. Len(w) + Len(a) = Len(l)
  <2>1. \A x, y \in Nat : (x - 1) + (y + 1) = x + y
    OBVIOUS
  <2> QED BY Zenon, <1>1, <1>3, <1>8, <1>9, <2>1
<1>11. Progress(l, w, a, loop)
  BY Zenon, <1>5, <1>6, <1>7, <1>10 DEF Progress, w, a
<1> QED BY Zenon, <1>4, <1>9, <1>11 DEF w, a, ProgressTo

LEMMA EmptyList ==
  ASSUME NEW m, NEW s, Rep(m, s), NEW q \in Queues
  PROVE  queue_is_empty(m, q) <=> Len(s[q]) = 0
<1> DEFINE l == s[q]
<1>1. IsList(m, q, l) /\ Len(l) \in Nat /\ \A i \in 1 .. Len(l) : l[i] \in Item
  BY Zenon, RepParts
<1> HIDE DEF l
<1>2. \A n \in Nat : n # 0 => 1 \in 1 .. n
  OBVIOUS
<1>3. Len(l) # 0 => m.head[q] \in Item
  BY Zenon, <1>1, <1>2 DEF IsList
<1>4. Len(l) = 0 => m.head[q] = NULL
  BY Zenon, <1>1 DEF IsList
<1> QED BY Zenon, <1>3, <1>4, Null DEF queue_is_empty, l

\* Where a loop is after n turns.
Reached(s, q, loop, x, n) ==
  \E e, d : /\ Progress(s[q], e, d, loop) /\ Rep(x, Mix(s, q, e, d))
            /\ Len(e) = 0 \/ Len(d) = n

LEMMA ReachedNext ==
  ASSUME NEW s \in [Queues -> Seq(Item)], NEW q \in Queues, q # ready_queue,
         SmallLists, priority \in [Item -> Int], NEW loop, NEW x, NEW n \in Nat,
         Reached(s, q, loop, x, n)
  PROVE  Reached(s, q, loop, TurnIfAny(x, q, loop), n + 1)
<1>1. PICK e, d : /\ Progress(s[q], e, d, loop) /\ Rep(x, Mix(s, q, e, d))
                  /\ Len(e) = 0 \/ Len(d) = n
  BY Zenon DEF Reached
<1> DEFINE l == s[q]
           u == Mix(s, q, e, d)
<1>2. IsMix(s, q, e, d, u) /\ l \in Seq(Item)
  BY Zenon, MixAt
<1>3. u[q] = Read(l, e)
  BY Zenon, <1>2 DEF IsMix
<1>4. e \in Seq(1 .. Len(l)) /\ d \in Seq(1 .. Len(l)) /\ Parts(Len(l), e, d)
  BY Zenon, <1>1 DEF Progress, Parts
<1>5. Len(u[q]) = Len(e)
  <2>1. Len(Read(l, e)) = Len(e)
    BY Zenon, <1>2, <1>4, ReadSeq
  <2> QED BY Zenon, <1>3, <2>1
<1>9. Progress(l, e, d, loop)
  BY Zenon, <1>1
<1>10. \A i \in 1 .. Len(e) : MixMoves(s, q, e, d, i)
  BY Zenon, <1>4, MixMove
<1> HIDE DEF u, l
<1>6. queue_is_empty(x, q) <=> Len(e) = 0
  BY Zenon, <1>1, <1>5, EmptyList DEF u
<1>7. CASE queue_is_empty(x, q)
  BY Zenon, <1>1, <1>6, <1>7 DEF Reached, TurnIfAny
<1>8. CASE ~queue_is_empty(x, q)
  <2>1. PICK i : Takes(u[q], i, loop) /\ Rep(Turn(x, q, loop), Moved(u, q, i))
    BY Zenon, <1>1, <1>8, TurnMoves DEF u
  <2> DEFINE w == Without(e, i)
             a == Added(d, e, i)
  <2>2. i \in 1 .. Len(e) /\ Progress(l, w, a, loop) /\ Len(a) = Len(d) + 1
    <3>1. Takes(Read(l, e), i, loop)
      BY Zenon, <1>3, <2>1
    <3>2. ProgressTo(l, e, d, loop, i)
      BY Zenon, <1>2, <1>9, <3>1, ProgressMove
    <3> QED BY Zenon, <3>2 DEF ProgressTo
  <2>3. Moved(u, q, i) = Mix(s, q, w, a)
    BY Zenon, <1>10, <2>2 DEF MixMoves, u
  <2> HIDE DEF w, a
  <2>4. Len(a) = n + 1
    BY Zenon, <1>1, <1>6, <1>8, <2>2
  <2> QED BY Zenon, <1>8, <2>1, <2>2, <2>3, <2>4 DEF Reached, TurnIfAny, l
<1> QED BY Zenon, <1>7, <1>8

LEMMA LoopEnds ==
  ASSUME NEW m, NEW s, Rep(m, s), NEW q \in Queues, q # ready_queue,
         SmallLists, priority \in [Item -> Int], NEW loop, NEW f,
         Loops(m, q, loop, f, Cardinality(Item))
  PROVE  \E e, d : /\ Progress(s[q], e, d, loop) /\ Len(e) = 0
                   /\ Rep(f[Cardinality(Item)], Mix(s, q, e, d))
<1> DEFINE N == Cardinality(Item)
           Bad == {n \in 0 .. N : ~Reached(s, q, loop, f[n], n)}
<1>0. /\ s \in [Queues -> Seq(Item)] /\ N \in Nat
      /\ Len(s[q]) \in Nat /\ Len(s[q]) <= N
  <2>1. Fits(s[q]) /\ s \in [Queues -> Seq(Item)]
    BY Zenon DEF SmallLists, Rep
  <2>2. Len(s[q]) \in Nat
    BY Zenon, RepParts
  <2> QED BY Zenon, <2>1, <2>2 DEF Fits
<1>1. \A n \in 0 .. N : f[n] = Next1(m, q, loop, f, n)
  BY Zenon DEF Loops
<1> HIDE DEF N
<1>2. 0 \in 0 .. N /\ N \in 0 .. N /\ Bad \subseteq Nat
  BY <1>0
<1>3. Reached(s, q, loop, f[0], 0)
  <2>1. f[0] = m
    BY Zenon, <1>1, <1>2 DEF Next1
  <2>2. PICK e, d : Progress(s[q], e, d, loop) /\ Mix(s, q, e, d) = s /\ Len(d) = 0
    BY Zenon, <1>0, ProgressStart
  <2> QED BY Zenon, <2>1, <2>2 DEF Reached
<1>4. Bad = {}
  <2>1. SUFFICES ASSUME Bad # {} PROVE FALSE
    BY Zenon
  <2>2. PICK n \in Bad : \A k \in Bad : n <= k
    BY Zenon, <1>2, <2>1, Least
  <2>3. n # 0
    BY Zenon, <1>3, <2>2
  <2>4. n \in 0 .. N /\ n - 1 \in 0 .. N /\ n - 1 \in Nat /\ ~(n <= n - 1) /\ (n - 1) + 1 = n
    BY <1>0, <2>2, <2>3
  <2>5. Reached(s, q, loop, f[n - 1], n - 1)
    BY Zenon, <2>2, <2>4
  <2>6. f[n] = TurnIfAny(f[n - 1], q, loop)
    BY Zenon, <1>1, <2>3, <2>4 DEF Next1
  <2>7. Reached(s, q, loop, f[n], (n - 1) + 1)
    BY Zenon, <1>0, <2>4, <2>5, <2>6, ReachedNext
  <2>8. Reached(s, q, loop, f[n], n)
    BY Zenon, <2>4, <2>7
  <2> QED BY Zenon, <2>2, <2>8
<1>5. PICK e, d : /\ Progress(s[q], e, d, loop) /\ Rep(f[N], Mix(s, q, e, d))
                  /\ Len(e) = 0 \/ Len(d) = N
  BY Zenon, <1>2, <1>4 DEF Reached
<1>6. Len(e) = 0
  <2>1. Len(e) \in Nat /\ Len(d) \in Nat /\ Len(e) + Len(d) = Len(s[q])
    BY Zenon, <1>5, SeqFacts DEF Progress, Parts
  <2>2. \A x, y, z, k \in Nat : x + y = z /\ z <= k /\ y = k => x = 0
    OBVIOUS
  <2> QED BY Zenon, <1>0, <1>5, <2>1, <2>2
<1> QED BY Zenon, <1>5, <1>6 DEF N

\* The list of q has gone to the end of the ready queue, in the order w.
Emptied(s, q, w) ==
  [[s EXCEPT ![q] = <<>>] EXCEPT ![ready_queue] = s[ready_queue] \o w]

LEMMA MixEmpty ==
  ASSUME NEW s \in [Queues -> Seq(Item)], NEW q \in Queues,
         NEW e \in Seq(1 .. Len(s[q])), NEW d, Len(e) = 0
  PROVE  Mix(s, q, e, d) = Emptied(s, q, Read(s[q], d))
<1>1. s[q] \in Seq(Item)
  BY Zenon
<1>2. Read(s[q], e) \in Seq(Item) /\ Len(Read(s[q], e)) = 0
  BY Zenon, <1>1, ReadSeq
<1> DEFINE v == Read(s[q], e)
<1> HIDE DEF v
<1>3. v = <<>>
  <2>1. v \in Seq(Item) /\ Len(v) = 0
    BY Zenon, <1>2 DEF v
  <2> QED BY ONLY <2>1
<1> QED BY Zenon, <1>3 DEF Mix, Emptied, v

\* clear_waiting_queue: the ready queue gets the list as it is.
LEMMA ClearRep ==
  ASSUME NEW m, NEW s, Rep(m, s), NEW q \in Queues, q # ready_queue,
         SmallLists, priority \in [Item -> Int]
  PROVE  Rep(clear_waiting_queue(m, q), Emptied(s, q, s[q]))
<1>0. s \in [Queues -> Seq(Item)] /\ s[q] \in Seq(Item) /\ Cardinality(Item) \in Nat
  BY Zenon DEF SmallLists, Rep, Fits
<1>1. PICK f : /\ Loops(m, q, "clear", f, Cardinality(Item))
               /\ clear_waiting_queue(m, q) = f[Cardinality(Item)]
  BY Zenon, <1>0, ClearLoops
<1>2. PICK e, d : /\ Progress(s[q], e, d, "clear") /\ Len(e) = 0
                  /\ Rep(f[Cardinality(Item)], Mix(s, q, e, d))
  BY Zenon, <1>1, LoopEnds
<1> DEFINE l == s[q]
           v == Read(l, d)
<1>3. e \in Seq(1 .. Len(l)) /\ d \in Seq(1 .. Len(l)) /\ Len(e) + Len(d) = Len(l)
  BY Zenon, <1>2 DEF Progress, Parts
<1>4. InTurn(e, d)
  <2>1. "clear" # "unblock"
    OBVIOUS
  <2> QED BY Zenon, <1>2, <2>1 DEF Progress
<1>5. Mix(s, q, e, d) = Emptied(s, q, v)
  BY Zenon, <1>0, <1>2, <1>3, MixEmpty
<1>6. v \in Seq(Item) /\ Len(v) = Len(d) /\ \A j \in 1 .. Len(d) : v[j] = l[d[j]]
  BY Zenon, <1>0, <1>3, ReadSeq
<1>7. Len(d) = Len(l)
  <2>1. Len(d) \in Nat /\ Len(l) \in Nat
    BY Zenon, <1>0, <1>3, SeqFacts
  <2>2. \A x \in Nat : 0 + x = x
    OBVIOUS
  <2> QED BY Zenon, <1>2, <1>3, <2>1, <2>2
<1>8. v = l
  <2>1. \A j \in 1 .. Len(d) : v[j] = l[j]
    BY Zenon, <1>4, <1>6 DEF InTurn
  <2> HIDE DEF v, l
  <2>2. Len(v) = Len(l) /\ \A j \in 1 .. Len(v) : v[j] = l[j]
    BY Zenon, <1>6, <1>7, <2>1
  <2>3. v \in Seq(Item) /\ l \in Seq(Item)
    BY Zenon, <1>0, <1>6 DEF l
  <2> QED BY Zenon, <2>2, <2>3, SameSeq
<1> HIDE DEF v
<1> QED BY Zenon, <1>1, <1>2, <1>5, <1>8

\* The list l is woken in the order d of its positions.
WokenIn(l, d) ==
  /\ d \in Seq(1 .. Len(l)) /\ Len(d) = Len(l)
  /\ \A j, k \in 1 .. Len(d) : d[j] = d[k] => j = k
  /\ \A x \in 1 .. Len(l) : \E j \in 1 .. Len(d) : d[j] = x
  /\ \A j, k \in 1 .. Len(d) : j < k => Leaves(l, d[j], d[k])

\* do_unblock_all: the ready queue gets the list in the order of the priorities.
LEMMA UnblockAllRep ==
  ASSUME NEW m, NEW s, Rep(m, s), NEW q \in Queues, q # ready_queue,
         SmallLists, priority \in [Item -> Int]
  PROVE  \E d : /\ WokenIn(s[q], d)
                /\ Rep(do_unblock_all(m, q), Emptied(s, q, Read(s[q], d)))
<1>0. s \in [Queues -> Seq(Item)] /\ s[q] \in Seq(Item) /\ Cardinality(Item) \in Nat
  BY Zenon DEF SmallLists, Rep, Fits
<1>1. PICK f : /\ Loops(m, q, "unblock", f, Cardinality(Item))
               /\ do_unblock_all(m, q) = f[Cardinality(Item)]
  BY Zenon, <1>0, UnblockLoops
<1>2. PICK e, d : /\ Progress(s[q], e, d, "unblock") /\ Len(e) = 0
                  /\ Rep(f[Cardinality(Item)], Mix(s, q, e, d))
  BY Zenon, <1>1, LoopEnds
<1> DEFINE l == s[q]
<1>3. /\ e \in Seq(1 .. Len(l)) /\ d \in Seq(1 .. Len(l)) /\ Len(e) + Len(d) = Len(l)
      /\ Parts(Len(l), e, d) /\ Ordered(l, e, d)
  BY Zenon, <1>2 DEF Progress, Parts
<1>4. Mix(s, q, e, d) = Emptied(s, q, Read(l, d))
  BY Zenon, <1>0, <1>2, <1>3, MixEmpty
<1>5. Len(d) = Len(l)
  <2>1. Len(d) \in Nat /\ Len(l) \in Nat
    BY Zenon, <1>0, <1>3, SeqFacts
  <2>2. \A x \in Nat : 0 + x = x
    OBVIOUS
  <2> QED BY Zenon, <1>2, <1>3, <2>1, <2>2
<1> HIDE DEF l
<1>6. 1 .. Len(e) = {}
  <2>1. 1 .. 0 = {}
    OBVIOUS
  <2> QED BY Zenon, <1>2, <2>1
<1>7. WokenIn(l, d)
  BY Zenon, <1>3, <1>5, <1>6 DEF WokenIn, Parts, Ordered
<1> QED BY Zenon, <1>1, <1>2, <1>4, <1>7 DEF l

-----------------------------------------------------------------------------
(* A step of the module                                                    *)

\* What an operation does to the sequences.
Changes(s, t, q, name) ==
  \/ \E p \in Item :
       /\ Fresh(s, p)
       /\ \/ name = "push" /\ t = [s EXCEPT ![q] = Append(s[q], p)]
          \/ name = "enqueue" /\ t = [s EXCEPT ![q] = <<p>> \o s[q]]
  \/ \E i \in 1 .. Len(s[q]) :
       name = "remove" /\ t = [s EXCEPT ![q] = Without(s[q], i)]
  \/ /\ 1 \in 1 .. Len(s[q])
     /\ name = "dequeue" /\ t = [s EXCEPT ![q] = Without(s[q], 1)]
  \/ q # ready_queue /\ name = "clear" /\ t = Emptied(s, q, s[q])
  \/ /\ q # ready_queue /\ name = "unblock_one"
     /\ \/ Len(s[q]) = 0 /\ t = s
        \/ \E i : Peak(s[q], i) /\ t = Moved(s, q, i)
  \/ /\ q # ready_queue /\ name = "unblock_all"
     /\ \E d : WokenIn(s[q], d) /\ t = Emptied(s, q, Read(s[q], d))

\* The sequences that the pointers lead to.
lists == [q \in Queues |-> Chain(Memory, head[q])]

ListInv == Rep(Memory, lists) /\ priority \in [Item -> Priority]

LEMMA ListsOf ==
  ASSUME SmallLists, NEW s, Rep(Memory, s)
  PROVE  lists = s
<1>1. s \in [Queues -> Seq(Item)]
  BY Zenon DEF Rep
<1>2. \A q \in Queues : Memory.head[q] = head[q]
  BY DEF Memory
<1>3. \A q \in Queues : Chain(Memory, head[q]) = s[q]
  BY Zenon, <1>2, ChainIsList DEF SmallLists
<1>4. s = [q \in Queues |-> s[q]]
  BY Zenon, <1>1
<1> QED BY Zenon, <1>3, <1>4 DEF lists

LEMMA ListsOfNext ==
  ASSUME SmallLists, NEW s, Rep(Memory', s)
  PROVE  lists' = s
<1>1. s \in [Queues -> Seq(Item)]
  BY Zenon DEF Rep
<1>2. \A q \in Queues : Memory'.head[q] = head'[q]
  BY DEF Memory
<1>3. \A q \in Queues : Chain(Memory', head'[q]) = s[q]
  BY Zenon, <1>2, ChainIsList DEF SmallLists
<1>4. s = [q \in Queues |-> s[q]]
  BY Zenon, <1>1
<1>5. lists' = [q \in Queues |-> Chain(Memory', head'[q])]
  BY Zenon DEF lists
<1> QED BY Zenon, <1>3, <1>4, <1>5

LEMMA CallMemory ==
  ASSUME NEW name, NEW m, m \in Memories, Call(name, m)
  PROVE  Memory' = m /\ call' = name /\ priority' = priority
<1>1. m = [head |-> m.head, tail |-> m.tail, prev |-> m.prev, next |-> m.next]
  BY DEF Memories
<1>2. Memory' = [head |-> head', tail |-> tail', prev |-> prev', next |-> next']
  BY Zenon DEF Memory
<1> QED BY Zenon, <1>1, <1>2 DEF Call

LEMMA CallRep ==
  ASSUME NEW name, NEW m, NEW t, Rep(m, t), Call(name, m)
  PROVE  Rep(Memory', t) /\ call' = name /\ priority' = priority
<1>1. m \in Memories
  BY Zenon DEF Rep
<1> QED BY Zenon, <1>1, CallMemory

LEMMA NextChanges ==
  ASSUME SmallLists, NEW s, Rep(Memory, s), priority \in [Item -> Int], Next
  PROVE  /\ priority' = priority
         /\ \E t : Rep(Memory', t) /\ \E q \in Queues : Changes(s, t, q, call')
<1> DEFINE After(q) == /\ priority' = priority
                       /\ \E t : Rep(Memory', t) /\ Changes(s, t, q, call')
<1>1. ASSUME NEW q \in Queues, NEW t, NEW m, NEW name, Rep(m, t), Call(name, m),
             Changes(s, t, q, name)
      PROVE  After(q)
  BY Zenon, <1>1, CallRep
<1> SUFFICES \E q \in Queues : After(q)
  BY Zenon
<1> HIDE DEF After
<1>0. ASSUME NEW q \in Queues, NEW p
      PROVE  check_in_queue(Memory, q, p) <=> \E i \in 1 .. Len(s[q]) : s[q][i] = p
  <2>1. Fits(s[q])
    BY Zenon DEF SmallLists
  <2> QED BY <2>1, InList
<1>2. \A p : Free(p) => Fresh(s, p)
  BY Zenon, <1>0 DEF Free, Fresh
<1>3. PICK q \in Queues :
        \/ \E p \in Item :
             \/ Free(p) /\ Call("push", queue_push(Memory, q, p))
             \/ Free(p) /\ Call("enqueue", enqueue(Memory, q, p))
             \/ /\ check_in_queue(Memory, q, p)
                /\ Call("remove", queue_remove(Memory, q, p))
        \/ ~queue_is_empty(Memory, q) /\ Call("dequeue", queue_dequeue(Memory, q))
        \/ q # ready_queue /\ Call("clear", clear_waiting_queue(Memory, q))
        \/ q # ready_queue /\ Call("unblock_one", do_unblock_one(Memory, q))
        \/ q # ready_queue /\ Call("unblock_all", do_unblock_all(Memory, q))
  BY Zenon DEF Next
<1>4. ASSUME NEW p \in Item, Free(p), Call("push", queue_push(Memory, q, p))
      PROVE  After(q)
  <2> DEFINE t == [s EXCEPT ![q] = Append(s[q], p)]
  <2>1. Rep(queue_push(Memory, q, p), t)
    BY Zenon, <1>2, <1>4, PushRep
  <2>2. Changes(s, t, q, "push")
    BY Zenon, <1>2, <1>4 DEF Changes
  <2> HIDE DEF t
  <2> QED BY Zenon, <1>1, <1>4, <2>1, <2>2
<1>5. ASSUME NEW p \in Item, Free(p), Call("enqueue", enqueue(Memory, q, p))
      PROVE  After(q)
  <2> DEFINE t == [s EXCEPT ![q] = <<p>> \o s[q]]
  <2>1. Rep(enqueue(Memory, q, p), t)
    BY Zenon, <1>2, <1>5, EnqueueRep
  <2>2. Changes(s, t, q, "enqueue")
    BY Zenon, <1>2, <1>5 DEF Changes
  <2> HIDE DEF t
  <2> QED BY Zenon, <1>1, <1>5, <2>1, <2>2
<1>6. ASSUME NEW p \in Item, check_in_queue(Memory, q, p),
             Call("remove", queue_remove(Memory, q, p))
      PROVE  After(q)
  <2>1. PICK i \in 1 .. Len(s[q]) : s[q][i] = p
    BY Zenon, <1>0, <1>6
  <2> DEFINE t == [s EXCEPT ![q] = Without(s[q], i)]
  <2>2. Rep(queue_remove(Memory, q, p), t)
    BY Zenon, <2>1, RemoveRep
  <2>3. Changes(s, t, q, "remove")
    BY Zenon DEF Changes
  <2> HIDE DEF t
  <2> QED BY Zenon, <1>1, <1>6, <2>2, <2>3
<1>7. ASSUME ~queue_is_empty(Memory, q), Call("dequeue", queue_dequeue(Memory, q))
      PROVE  After(q)
  <2>1. queue_dequeue(Memory, q) = queue_remove(Memory, q, s[q][1])
    BY Zenon, <1>7, DequeueIsRemove
  <2>4. 1 \in 1 .. Len(s[q])
    <3>1. Len(s[q]) \in Nat /\ Len(s[q]) # 0
      BY Zenon, <1>7, RepParts, EmptyList
    <3>2. \A n \in Nat : n # 0 => 1 \in 1 .. n
      OBVIOUS
    <3> QED BY Zenon, <3>1, <3>2
  <2> DEFINE t == [s EXCEPT ![q] = Without(s[q], 1)]
  <2>5. Rep(queue_remove(Memory, q, s[q][1]), t)
    BY Zenon, <2>4, RemoveRep
  <2>3. Changes(s, t, q, "dequeue")
    BY Zenon, <2>4 DEF Changes
  <2> HIDE DEF t
  <2>2. Rep(queue_dequeue(Memory, q), t)
    BY Zenon, <2>1, <2>5
  <2> QED BY Zenon, <1>1, <1>7, <2>2, <2>3
<1>8. ASSUME q # ready_queue, Call("clear", clear_waiting_queue(Memory, q))
      PROVE  After(q)
  <2>1. Rep(clear_waiting_queue(Memory, q), Emptied(s, q, s[q]))
    BY Zenon, <1>8, ClearRep
  <2>2. Changes(s, Emptied(s, q, s[q]), q, "clear")
    BY Zenon, <1>8 DEF Changes
  <2> QED BY Zenon, <1>1, <1>8, <2>1, <2>2
<1>9. ASSUME q # ready_queue, Call("unblock_one", do_unblock_one(Memory, q))
      PROVE  After(q)
  <2>1. CASE queue_is_empty(Memory, q)
    <3>1. do_unblock_one(Memory, q) = Memory
      BY Zenon, <2>1 DEF do_unblock_one
    <3>2. Changes(s, s, q, "unblock_one")
      BY Zenon, <1>9, <2>1, EmptyList DEF Changes
    <3> QED BY Zenon, <1>1, <1>9, <3>1, <3>2
  <2>2. CASE ~queue_is_empty(Memory, q)
    <3>1. PICK i : Takes(s[q], i, "unblock") /\ Rep(Turn(Memory, q, "unblock"), Moved(s, q, i))
      BY Zenon, <1>9, <2>2, TurnMoves
    <3>2. Rep(do_unblock_one(Memory, q), Moved(s, q, i)) /\ Peak(s[q], i)
      BY Zenon, <3>1 DEF Turn, Takes
    <3>3. Changes(s, Moved(s, q, i), q, "unblock_one")
      BY Zenon, <1>9, <3>2 DEF Changes
    <3> QED BY Zenon, <1>1, <1>9, <3>2, <3>3
  <2> QED BY Zenon, <2>1, <2>2
<1>10. ASSUME q # ready_queue, Call("unblock_all", do_unblock_all(Memory, q))
       PROVE  After(q)
  <2>1. PICK d : /\ WokenIn(s[q], d)
                 /\ Rep(do_unblock_all(Memory, q), Emptied(s, q, Read(s[q], d)))
    BY Zenon, <1>10, UnblockAllRep
  <2>2. Changes(s, Emptied(s, q, Read(s[q], d)), q, "unblock_all")
    BY Zenon, <1>10, <2>1 DEF Changes
  <2> QED BY Zenon, <1>1, <1>10, <2>1, <2>2
<1> QED BY Zenon, <1>3, <1>4, <1>5, <1>6, <1>7, <1>8, <1>9, <1>10

LEMMA InitRep == Init => Rep(Memory, [q \in Queues |-> <<>>])
<1> SUFFICES ASSUME Init PROVE Rep(Memory, [q \in Queues |-> <<>>])
  OBVIOUS
<1> DEFINE s == [q \in Queues |-> <<>>]
<1>1. Memory \in Memories
  BY DEF Init, Memory, Memories, Link
<1>2. s \in [Queues -> Seq(Item)] /\ \A q \in Queues : Len(s[q]) = 0
  OBVIOUS
<1>3. \A q \in Queues : Memory.head[q] = NULL /\ Memory.tail[q] = NULL
  BY DEF Init, Memory
<1> HIDE DEF s
<1>4. \A n : n = 0 => 1 .. n = {}
  OBVIOUS
<1>5. Once(s)
  BY Zenon, <1>2, <1>4 DEF Once
<1>6. \A q \in Queues : IsList(Memory, q, s[q])
  BY Zenon, <1>2, <1>3, <1>4 DEF IsList
<1>7. Rep(Memory, s)
  BY Zenon, <1>1, <1>2, <1>5, <1>6 DEF Rep
<1> QED BY Zenon, <1>7 DEF s

LEMMA ListInvInit == SmallLists /\ Init => ListInv
BY Zenon, InitRep, ListsOf DEF ListInv, Init

LEMMA PriorityType == priority \in [Item -> Priority] => priority \in [Item -> Int]
BY Zenon, QueueAssumption

LEMMA ListInvNext ==
  ASSUME SmallLists, ListInv, [Next]_vars
  PROVE  /\ ListInv' /\ priority' = priority
         /\ \/ lists' = lists /\ UNCHANGED vars
            \/ \E q \in Queues : Changes(lists, lists', q, call')
<1>1. CASE Next
  <2>1. PICK t : Rep(Memory', t) /\ \E q \in Queues : Changes(lists, t, q, call')
    BY Zenon, <1>1, PriorityType, NextChanges DEF ListInv
  <2>2. priority' = priority
    BY Zenon, <1>1, PriorityType, NextChanges DEF ListInv
  <2>3. lists' = t
    BY Zenon, <2>1, ListsOfNext
  <2> QED BY Zenon, <2>1, <2>2, <2>3 DEF ListInv
<1>2. CASE UNCHANGED vars
  BY Zenon, <1>2 DEF vars, ListInv, lists, Memory
<1> QED BY Zenon, <1>1, <1>2

-----------------------------------------------------------------------------
(***************************************************************************)
(* The sequences of module Lists.                                          *)
(***************************************************************************)
CONSTANTS NUM_MAX_TASK, Mutex, sleeping_queue, recv_block_queue

ASSUME ListsAssumption ==
  /\ NUM_MAX_TASK \in Nat
  /\ Item = 0 .. NUM_MAX_TASK - 1
  /\ Queues = Mutex \cup {ready_queue}

\* The queues of the kernel that no operation is called on here.
OtherQueue == {sleeping_queue, recv_block_queue} \cup Item

\* The contents of every queue of the kernel.
contents ==
  [q \in Queues \cup OtherQueue |->
     IF q \in Queues THEN Chain(Memory, head[q]) ELSE <<>>]

L == INSTANCE Lists WITH Client <- Queues, queue <- contents

\* queue.c implements the sequences that the model of the kernel works with:
\* every operation changes the lists as the operator of module Sched or Sync
\* that stands for it does, and do_unblock_all wakes in the order LeavesBefore.
ImplementsLists == L!Spec

Abs(s) == [q \in Queues \cup OtherQueue |-> IF q \in Queues THEN s[q] ELSE <<>>]

LEMMA ContentsAre == contents = Abs(lists)
<1>1. \A q \in Queues : lists[q] = Chain(Memory, head[q])
  BY Zenon DEF lists
<1> QED BY Zenon, <1>1 DEF contents, Abs

LEMMA ContentsNext == contents' = Abs(lists')
<1>1. \A q \in Queues : lists'[q] = Chain(Memory', head'[q])
  BY Zenon DEF lists
<1>2. contents' = [q \in Queues \cup OtherQueue |->
                     IF q \in Queues THEN Chain(Memory', head'[q]) ELSE <<>>]
  BY Zenon DEF contents, OtherQueue
<1> QED BY Zenon, <1>1, <1>2 DEF Abs

LEMMA KernelQueues == /\ L!K!Queue = Queues \cup OtherQueue /\ L!K!Slot = Item
                      /\ ready_queue \in Queues
BY ListsAssumption, QueueAssumption DEF L!K!Queue, L!K!WaitQueue, L!K!Slot, OtherQueue

LEMMA AbsAt == \A s : \A q \in Queues : Abs(s)[q] = s[q]
BY Zenon DEF Abs

\* f is s with one queue assigned.
Wrote(f, s, q, w) == f = [r \in L!K!Queue |-> IF r = q THEN w ELSE Abs(s)[r]]

\* f is s with queue q emptied into the ready queue, in the order w.
Cleared(f, s, q, w) ==
  f = [r \in L!K!Queue |-> CASE r = q -> <<>>
                             [] r = ready_queue -> Abs(s)[r] \o w
                             [] OTHER -> Abs(s)[r]]

IsAbs(f, t) == f = Abs(t)

LEMMA AbsWrote ==
  ASSUME NEW s, DOMAIN s = Queues, NEW q \in Queues, NEW w, NEW f, Wrote(f, s, q, w)
  PROVE  IsAbs(f, [s EXCEPT ![q] = w])
<1> DEFINE t == [s EXCEPT ![q] = w]
<1>1. \A r \in Queues : t[r] = IF r = q THEN w ELSE s[r]
  BY Zenon
<1> HIDE DEF t
<1>2. \A r \in Queues \cup OtherQueue :
        (IF r = q THEN w ELSE Abs(s)[r]) = IF r \in Queues THEN t[r] ELSE <<>>
  BY Zenon, <1>1 DEF Abs
<1>3. Abs(t) = [r \in Queues \cup OtherQueue |->
                  IF r = q THEN w ELSE Abs(s)[r]]
  BY Zenon, <1>2 DEF Abs
<1> QED BY Zenon, <1>3, KernelQueues DEF t, Wrote, IsAbs

LEMMA AbsCleared ==
  ASSUME NEW s, DOMAIN s = Queues, NEW q \in Queues, q # ready_queue, NEW w,
         NEW f, Cleared(f, s, q, w)
  PROVE  IsAbs(f, Emptied(s, q, w))
<1> DEFINE t == Emptied(s, q, w)
           v == s[ready_queue] \o w
           g(r) == CASE r = q -> <<>>
                     [] r = ready_queue -> Abs(s)[r] \o w
                     [] OTHER -> Abs(s)[r]
<1>0. Abs(s)[ready_queue] \o w = v
  BY Zenon, AbsAt, KernelQueues
<1>1. t = [[s EXCEPT ![q] = <<>>] EXCEPT ![ready_queue] = v]
  BY Zenon DEF Emptied
<1> HIDE DEF v, t
<1>2. /\ t[q] = <<>> /\ t[ready_queue] = v
      /\ \A r \in Queues : r # q /\ r # ready_queue => t[r] = s[r]
  BY <1>1, KernelQueues
<1>3. g(q) = <<>> /\ g(ready_queue) = v
  BY <1>0
<1>4. \A r : r # q /\ r # ready_queue => g(r) = Abs(s)[r]
  OBVIOUS
<1>5. f = [r \in L!K!Queue |-> g(r)]
  BY Zenon DEF Cleared
<1> HIDE DEF g
<1>6. \A r \in Queues \cup OtherQueue :
        g(r) = IF r \in Queues THEN t[r] ELSE <<>>
  BY Zenon, <1>2, <1>3, <1>4, KernelQueues DEF Abs
<1>7. Abs(t) = [r \in Queues \cup OtherQueue |-> g(r)]
  BY Zenon, <1>6 DEF Abs
<1> QED BY Zenon, <1>5, <1>7, KernelQueues DEF t, IsAbs

LEMMA PushAbs ==
  ASSUME NEW s, DOMAIN s = Queues, contents = Abs(s), NEW q \in Queues, NEW p
  PROVE  IsAbs(L!K!queue_push(L!K!Now, q, p).queue, [s EXCEPT ![q] = Append(s[q], p)])
<1> DEFINE w == Append(contents[q], p)
           f == L!K!queue_push(L!K!Now, q, p).queue
<1>1. f = [r \in L!K!Queue |-> IF r = q THEN w ELSE contents[r]]
  BY DEF L!K!queue_push, L!K!Now
<1>2. w = Append(s[q], p)
  BY Zenon, AbsAt
<1> HIDE DEF w, f
<1>3. Wrote(f, s, q, w)
  BY Zenon, <1>1 DEF Wrote
<1>4. IsAbs(f, [s EXCEPT ![q] = w])
  BY Zenon, <1>3, AbsWrote
<1> QED BY Zenon, <1>2, <1>4 DEF f

LEMMA EnqueueAbs ==
  ASSUME NEW s, DOMAIN s = Queues, contents = Abs(s), NEW q \in Queues, NEW p
  PROVE  IsAbs([L!K!Now EXCEPT !.queue = [contents EXCEPT ![q] = <<p>> \o @]].queue,
               [s EXCEPT ![q] = <<p>> \o s[q]])
<1> DEFINE w == <<p>> \o contents[q]
           f == [contents EXCEPT ![q] = w]
<1>1. [L!K!Now EXCEPT !.queue = [contents EXCEPT ![q] = <<p>> \o @]].queue = f
  BY DEF L!K!Now
<1>2. w = <<p>> \o s[q]
  BY Zenon, AbsAt
<1> HIDE DEF w
<1>4. DOMAIN contents = L!K!Queue
  BY Zenon, KernelQueues DEF Abs
<1>5. contents = [r \in L!K!Queue |-> contents[r]]
  BY Zenon, <1>4, KernelQueues DEF Abs
<1>6. f = [r \in L!K!Queue |-> IF r = q THEN w ELSE contents[r]]
  BY <1>4, <1>5
<1> HIDE DEF f
<1>7. Wrote(f, s, q, w)
  BY Zenon, <1>6 DEF Wrote
<1>8. IsAbs(f, [s EXCEPT ![q] = w])
  BY Zenon, <1>7, AbsWrote
<1> QED BY Zenon, <1>1, <1>2, <1>8

LEMMA RemoveAbs ==
  ASSUME NEW s, DOMAIN s = Queues, contents = Abs(s), NEW q \in Queues, NEW i
  PROVE  IsAbs(L!K!queue_remove(L!K!Now, q, i).queue, [s EXCEPT ![q] = Without(s[q], i)])
<1> DEFINE w == L!K!RemoveAt(contents[q], i)
           f == L!K!queue_remove(L!K!Now, q, i).queue
<1>1. f = [r \in L!K!Queue |-> IF r = q THEN w ELSE contents[r]]
  BY DEF L!K!queue_remove, L!K!Now
<1>2. w = Without(s[q], i)
  BY Zenon, AbsAt DEF L!K!RemoveAt, Without
<1> HIDE DEF w, f
<1>3. Wrote(f, s, q, w)
  BY Zenon, <1>1 DEF Wrote
<1>4. IsAbs(f, [s EXCEPT ![q] = w])
  BY Zenon, <1>3, AbsWrote
<1> QED BY Zenon, <1>2, <1>4 DEF f

LEMMA ClearAbs ==
  ASSUME NEW s, DOMAIN s = Queues, contents = Abs(s), NEW q \in Queues, q # ready_queue
  PROVE  IsAbs(L!K!clear_waiting_queue(L!K!Now, q).queue, Emptied(s, q, s[q]))
<1> DEFINE f == L!K!clear_waiting_queue(L!K!Now, q).queue
<1>1. f = [r \in L!K!Queue |-> CASE r = q -> <<>>
                                 [] r = ready_queue -> contents[r] \o contents[q]
                                 [] OTHER -> contents[r]]
  BY DEF L!K!clear_waiting_queue, L!K!Now
<1> HIDE DEF f
<1>2. Cleared(f, s, q, s[q])
  BY Zenon, <1>1, AbsAt DEF Cleared
<1> QED BY Zenon, <1>2, AbsCleared DEF f

\* do_unblock_one on a queue that is not empty.
LEMMA UnblockOneAbs ==
  ASSUME NEW s, DOMAIN s = Queues, contents = Abs(s), NEW q \in Queues, q # ready_queue, NEW i
  PROVE  IsAbs(L!K!MakeReady(L!K!Now, q, i).queue, Moved(s, q, i))
<1> DEFINE t == [s EXCEPT ![q] = Without(s[q], i)]
           k == L!K!queue_remove(L!K!Now, q, i)
           p == contents[q][i]
           w == Append(Abs(t)[ready_queue], p)
           f == L!K!MakeReady(L!K!Now, q, i).queue
<1>0. IsAbs(k.queue, t)
  BY Zenon, RemoveAbs
<1>1. k.queue = Abs(t)
  <2> HIDE DEF k, t
  <2> QED BY Zenon, <1>0 DEF IsAbs
<1>2. f = [r \in L!K!Queue |-> IF r = ready_queue THEN Append(k.queue[ready_queue], p)
                               ELSE k.queue[r]]
  <2> DEFINE n == L!K!Now
             x == L!K!SetStatus(k, p, "READY")
  <2>1. n.queue = contents /\ "queue" \in DOMAIN n
    BY DEF L!K!Now
  <2> HIDE DEF n
  <2>2. f = L!K!queue_push(x, ready_queue, p).queue
    BY Zenon, <2>1 DEF L!K!MakeReady, n
  <2>3. "queue" \in DOMAIN k
    BY <2>1 DEF L!K!queue_remove, n
  <2> HIDE DEF k, p
  <2>4. x.queue = k.queue /\ "queue" \in DOMAIN x
    BY <2>3 DEF L!K!SetStatus
  <2> HIDE DEF x, f
  <2>5. L!K!queue_push(x, ready_queue, p).queue =
          [r \in L!K!Queue |-> IF r = ready_queue THEN Append(x.queue[ready_queue], p)
                               ELSE x.queue[r]]
    BY <2>4 DEF L!K!queue_push
  <2> QED BY Zenon, <2>2, <2>4, <2>5
<1>3. DOMAIN t = Queues /\ t[ready_queue] = s[ready_queue]
  BY KernelQueues
<1>4. Abs(t)[ready_queue] = s[ready_queue] /\ p = s[q][i]
  BY Zenon, <1>3, AbsAt, KernelQueues
<1> HIDE DEF k, t, f, p
<1>5. Wrote(f, t, ready_queue, w)
  BY Zenon, <1>1, <1>2 DEF Wrote
<1>6. w = Append(s[ready_queue], s[q][i])
  BY Zenon, <1>4
<1> HIDE DEF w
<1>7. IsAbs(f, [t EXCEPT ![ready_queue] = w])
  BY Zenon, <1>3, <1>5, AbsWrote, KernelQueues
<1> QED BY Zenon, <1>6, <1>7 DEF f, t, Moved

\* The elements of a list, and how many they are.
Elements(l) == {l[i] : i \in 1 .. Len(l)}

SizeOf(S) ==
  LET CS[T \in SUBSET S] == IF T = {} THEN 0 ELSE 1 + CS[T \ {CHOOSE x : x \in T}]
  IN  CS[S]

Counted(l) == SizeOf(Elements(l)) = Len(l) /\ Len(l) \in 0 .. NUM_MAX_TASK

CountedLists == \A m, s : Rep(m, s) => \A q \in Queues : Counted(s[q])

\* The list l, each of its elements once, in an order that do_unblock_all can
\* produce.
InOrder(l, o) ==
  /\ o \in [1 .. Len(l) -> Elements(l)]
  /\ \A a, b \in 1 .. Len(l) : o[a] = o[b] => a = b
  /\ \A x \in Elements(l) : \E a \in 1 .. Len(l) : o[a] = x
  /\ \A a, b \in 1 .. Len(l) : a < b =>
       \E i, j \in 1 .. Len(l) : o[a] = l[i] /\ o[b] = l[j] /\ Leaves(l, i, j)

LEMMA ReadInOrder ==
  ASSUME NEW l \in Seq(Item), NEW d, WokenIn(l, d),
         \A i, j \in 1 .. Len(l) : l[i] = l[j] => i = j
  PROVE  InOrder(l, Read(l, d))
<1> DEFINE o == Read(l, d)
           n == Len(l)
<1>0. /\ n = Len(d)
      /\ \A j, k \in 1 .. n : d[j] = d[k] => j = k
      /\ \A x \in 1 .. n : \E j \in 1 .. n : d[j] = x
      /\ \A j, k \in 1 .. n : j < k => Leaves(l, d[j], d[k])
  BY Zenon DEF WokenIn
<1>1. \A j \in 1 .. n : d[j] \in 1 .. n
  <2>1. d \in Seq(1 .. n)
    BY Zenon DEF WokenIn
  <2> QED BY <1>0, <2>1
<1>2. o = [j \in 1 .. n |-> l[d[j]]]
  BY Zenon, <1>0 DEF Read
<1> HIDE DEF o, n
<1>3. o \in [1 .. n -> Elements(l)]
  BY Zenon, <1>1, <1>2 DEF Elements, n
<1>4. \A a \in 1 .. n : o[a] = l[d[a]]
  BY Zenon, <1>2
<1>5. ASSUME NEW a \in 1 .. n, NEW b \in 1 .. n, o[a] = o[b]
      PROVE  a = b
  <2>1. l[d[a]] = l[d[b]] /\ d[a] \in 1 .. n /\ d[b] \in 1 .. n
    BY Zenon, <1>1, <1>4, <1>5
  <2>2. d[a] = d[b]
    BY Zenon, <2>1 DEF n
  <2> QED BY Zenon, <1>0, <2>2
<1>6. ASSUME NEW x \in Elements(l)
      PROVE  \E a \in 1 .. n : o[a] = x
  <2>1. PICK i \in 1 .. n : l[i] = x
    BY Zenon DEF Elements, n
  <2>2. PICK a \in 1 .. n : d[a] = i
    BY Zenon, <1>0
  <2> QED BY Zenon, <1>4, <2>1, <2>2
<1>7. \A a, b \in 1 .. n : a < b =>
        \E i, j \in 1 .. n : o[a] = l[i] /\ o[b] = l[j] /\ Leaves(l, i, j)
  BY Zenon, <1>0, <1>1, <1>4
<1> QED BY Zenon, <1>3, <1>5, <1>6, <1>7 DEF InOrder, n, o

LEMMA LockedOne == \A q \in Mutex : L!K!Locked(<<q>>) = {q}
<1> TAKE q \in Mutex
<1>1. DOMAIN <<q>> = {1} /\ <<q>>[1] = q
  OBVIOUS
<1>2. \A l \in Mutex : [x \in Mutex |-> "LOCKED"][l] = "LOCKED"
  OBVIOUS
<1> QED BY Zenon, <1>1, <1>2 DEF L!K!Locked

LEMMA WokenOne ==
  ASSUME NEW s, contents = Abs(s), NEW q \in Queues, q \in Mutex, s[q] \in Seq(Item)
  PROVE  L!K!Woken(L!K!Now, <<q>>) = Elements(s[q])
<1>1. L!K!Now.queue = contents /\ contents[q] = s[q]
  <2>1. L!K!Now.queue = contents
    BY DEF L!K!Now
  <2> QED BY Zenon, <2>1, AbsAt
<1>2. DOMAIN s[q] = 1 .. Len(s[q])
  OBVIOUS
<1>3. L!K!Range(s[q]) = Elements(s[q])
  BY Zenon, <1>2 DEF L!K!Range, Elements
<1>4. L!K!Woken(L!K!Now, <<q>>) = UNION {L!K!Range(L!K!Now.queue[l]) : l \in {q}}
  BY Zenon, LockedOne DEF L!K!Woken
<1>5. L!K!Range(L!K!Now.queue[q]) = Elements(s[q])
  BY Zenon, <1>1, <1>3
<1> QED BY Zenon, <1>4, <1>5

LEMMA OrdersOne ==
  ASSUME NEW l, Counted(l), NEW o, InOrder(l, o)
  PROVE  o \in L!K!Orders(Elements(l))
<1> DEFINE S == Elements(l)
           n == Len(l)
<1>1. SizeOf(S) = n /\ n \in 0 .. NUM_MAX_TASK
  BY Zenon DEF Counted
<1>2. L!K!Cardinality(S) = SizeOf(S)
  BY Zenon DEF L!K!Cardinality, SizeOf
<1>3. /\ o \in [1 .. n -> S] /\ \A a, b \in 1 .. n : o[a] = o[b] => a = b
      /\ \A x \in S : \E a \in 1 .. n : o[a] = x
  BY Zenon DEF InOrder
<1> HIDE DEF S, n
<1>4. o \in L!K!Bijection(1 .. n, S)
  BY Zenon, <1>3 DEF L!K!Bijection, L!K!Injection, L!K!Surjection, L!K!IsInjective
<1>5. n \in {x \in 0 .. NUM_MAX_TASK : x = L!K!Cardinality(S)}
  BY Zenon, <1>1, <1>2
<1> QED BY Zenon, <1>4, <1>5 DEF L!K!Orders, S

LEMMA WakeOrderOne ==
  ASSUME NEW s, contents = Abs(s), NEW q \in Queues, q \in Mutex, s[q] \in Seq(Item),
         Counted(s[q]), NEW o, InOrder(s[q], o)
  PROVE  o \in L!K!WakeOrders(L!K!Now, <<q>>)
<1> DEFINE l == s[q]
<1>1. L!K!Now.queue[q] = l /\ DOMAIN l = 1 .. Len(l)
  <2>1. L!K!Now.queue = contents
    BY DEF L!K!Now
  <2>2. DOMAIN l = 1 .. Len(l)
    OBVIOUS
  <2> QED BY Zenon, <2>1, <2>2, AbsAt
<1>2. o \in L!K!Orders(L!K!Woken(L!K!Now, <<q>>))
  BY Zenon, WokenOne, OrdersOne
<1>3. DOMAIN o = 1 .. Len(l)
  BY Zenon DEF InOrder
<1> HIDE DEF l
<1>4. \A i, j : Leaves(l, i, j) => L!K!LeavesBefore(l, i, j)
  BY Zenon DEF Leaves, L!K!LeavesBefore
<1>5. ASSUME NEW a \in DOMAIN o, NEW b \in DOMAIN o, a < b
      PROVE  \E i \in DOMAIN L!K!Now.queue[q], j \in DOMAIN L!K!Now.queue[q] :
               /\ o[a] = L!K!Now.queue[q][i] /\ o[b] = L!K!Now.queue[q][j]
               /\ L!K!LeavesBefore(L!K!Now.queue[q], i, j)
  <2>1. InOrder(l, o) /\ a \in 1 .. Len(l) /\ b \in 1 .. Len(l)
    BY Zenon, <1>3, <1>5 DEF l
  <2>2. PICK i \in 1 .. Len(l), j \in 1 .. Len(l) :
          o[a] = l[i] /\ o[b] = l[j] /\ Leaves(l, i, j)
    BY Zenon, <1>5, <2>1 DEF InOrder
  <2>3. i \in DOMAIN l /\ j \in DOMAIN l /\ L!K!LeavesBefore(l, i, j)
    BY Zenon, <1>1, <1>4, <2>2
  <2> QED BY Zenon, <1>1, <2>2, <2>3
<1>6. q \in L!K!Locked(<<q>>)
  BY Zenon, LockedOne
<1> QED BY Zenon, <1>2, <1>5, <1>6 DEF L!K!WakeOrders

LEMMA UnblockAllAbs ==
  ASSUME NEW s, DOMAIN s = Queues, contents = Abs(s), NEW q \in Queues, q \in Mutex,
         q # ready_queue, NEW o
  PROVE  IsAbs(L!K!WakeWaiters(L!K!Now, <<q>>, o).queue, Emptied(s, q, o))
<1> DEFINE f == L!K!WakeWaiters(L!K!Now, <<q>>, o).queue
<1>1. f = [r \in L!K!Queue |-> CASE r \in L!K!Locked(<<q>>) -> <<>>
                                 [] r = ready_queue -> contents[r] \o o
                                 [] OTHER -> contents[r]]
  BY DEF L!K!WakeWaiters, L!K!Now
<1>2. \A r : r \in L!K!Locked(<<q>>) <=> r = q
  BY Zenon, LockedOne
<1> HIDE DEF f
<1>3. Cleared(f, s, q, o)
  BY <1>1, <1>2 DEF Cleared
<1> QED BY Zenon, <1>3, AbsCleared DEF f

\* The steps of the operations, one by one.
LEMMA ListsStep ==
  ASSUME NEW s, s \in [Queues -> Seq(Item)], Once(s), contents = Abs(s),
         \A q \in Queues : Counted(s[q]),
         NEW t, contents' = Abs(t), priority' = priority,
         NEW q \in Queues, Changes(s, t, q, call')
  PROVE  L!Next
<1> DEFINE Does(k, u) == IsAbs(k.queue, u)
<1>0. DOMAIN s = Queues /\ s[q] \in Seq(Item) /\ contents[q] = s[q]
  BY Zenon, AbsAt
<1>1. DOMAIN contents[q] = 1 .. Len(s[q])
  BY <1>0
<1>2. \A name, k : call' = name /\ Does(k, t) => L!Call(name, k)
  BY Zenon DEF L!Call, IsAbs
<1> HIDE DEF Does
<1>3. ASSUME NEW p \in Item, Fresh(s, p),
             \/ call' = "push" /\ t = [s EXCEPT ![q] = Append(s[q], p)]
             \/ call' = "enqueue" /\ t = [s EXCEPT ![q] = <<p>> \o s[q]]
      PROVE  L!Next
  <2>1. L!Free(p)
    <3>1. ASSUME NEW r \in Queues PROVE p \notin L!K!Range(contents[r])
      <4>1. contents[r] = s[r] /\ s[r] \in Seq(Item)
        BY Zenon, <3>1, AbsAt
      <4>2. DOMAIN s[r] = 1 .. Len(s[r])
        BY <4>1
      <4> QED BY Zenon, <1>3, <3>1, <4>1, <4>2 DEF Fresh, L!K!Range
    <3> QED BY Zenon, <3>1 DEF L!Free
  <2>2. CASE call' = "push" /\ t = [s EXCEPT ![q] = Append(s[q], p)]
    <3>1. Does(L!K!queue_push(L!K!Now, q, p), t)
      BY Zenon, <1>0, <2>2, PushAbs DEF Does
    <3>2. L!Call("push", L!K!queue_push(L!K!Now, q, p))
      BY Zenon, <1>2, <2>2, <3>1
    <3> QED BY Zenon, <2>1, <3>2, KernelQueues DEF L!Next
  <2>3. CASE call' = "enqueue" /\ t = [s EXCEPT ![q] = <<p>> \o s[q]]
    <3> DEFINE k == [L!K!Now EXCEPT !.queue = [contents EXCEPT ![q] = <<p>> \o @]]
    <3>1. Does(k, t)
      BY Zenon, <1>0, <2>3, EnqueueAbs DEF Does
    <3> HIDE DEF k
    <3>2. L!Call("enqueue", k)
      BY Zenon, <1>2, <2>3, <3>1
    <3> QED BY Zenon, <2>1, <3>2, KernelQueues DEF L!Next, k
  <2> QED BY Zenon, <1>3, <2>2, <2>3
<1>4. ASSUME NEW i \in 1 .. Len(s[q]), t = [s EXCEPT ![q] = Without(s[q], i)],
             call' = "remove" \/ (call' = "dequeue" /\ i = 1)
      PROVE  L!Next
  <2>1. Does(L!K!queue_remove(L!K!Now, q, i), t)
    BY Zenon, <1>0, <1>4, RemoveAbs DEF Does
  <2>2. CASE call' = "remove"
    <3>1. L!Call("remove", L!K!queue_remove(L!K!Now, q, i))
      BY Zenon, <1>2, <2>1, <2>2
    <3> QED BY Zenon, <1>1, <1>4, <3>1 DEF L!Next
  <2>3. CASE call' = "dequeue" /\ i = 1
    <3>1. L!Call("dequeue", L!K!queue_remove(L!K!Now, q, 1))
      BY Zenon, <1>2, <2>1, <2>3
    <3>2. contents[q] # <<>>
      BY <1>0, <1>1, <1>4
    <3> QED BY Zenon, <3>1, <3>2 DEF L!Next
  <2> QED BY Zenon, <1>4, <2>2, <2>3
<1>5. ASSUME q # ready_queue, call' = "clear", t = Emptied(s, q, s[q])
      PROVE  L!Next
  <2>1. Does(L!K!clear_waiting_queue(L!K!Now, q), t)
    BY Zenon, <1>0, <1>5, ClearAbs DEF Does
  <2>2. L!Call("clear", L!K!clear_waiting_queue(L!K!Now, q))
    BY Zenon, <1>2, <1>5, <2>1
  <2> QED BY Zenon, <1>5, <2>2 DEF L!Next
<1>6. ASSUME q # ready_queue, call' = "unblock_one", Len(s[q]) = 0, t = s
      PROVE  L!Next
  <2>1. L!K!Now.queue = contents
    BY DEF L!K!Now
  <2>2. L!Call("unblock_one", L!K!Now)
    BY Zenon, <1>2, <1>6, <2>1 DEF Does, IsAbs
  <2>3. contents[q] = <<>>
    BY <1>0, <1>6
  <2> QED BY Zenon, <1>6, <2>2, <2>3 DEF L!Next
<1>7. ASSUME q # ready_queue, call' = "unblock_one", NEW i, Peak(s[q], i), t = Moved(s, q, i)
      PROVE  L!Next
  <2>1. Does(L!K!MakeReady(L!K!Now, q, i), t)
    BY Zenon, <1>0, <1>7, UnblockOneAbs DEF Does
  <2>2. L!Call("unblock_one", L!K!MakeReady(L!K!Now, q, i))
    BY Zenon, <1>2, <1>7, <2>1
  <2>3. i \in DOMAIN contents[q] /\ L!K!FirstPeak(contents[q], i)
    BY Zenon, <1>0, <1>1, <1>7 DEF Peak, L!K!FirstPeak
  <2> QED BY Zenon, <1>7, <2>2, <2>3 DEF L!Next
<1>8. ASSUME q # ready_queue, call' = "unblock_all", NEW d, WokenIn(s[q], d),
             t = Emptied(s, q, Read(s[q], d))
      PROVE  L!Next
  <2> DEFINE o == Read(s[q], d)
  <2>1. q \in Mutex
    BY Zenon, <1>8, ListsAssumption
  <2>2. \A i, j \in 1 .. Len(s[q]) : s[q][i] = s[q][j] => i = j
    BY Zenon DEF Once
  <2>3. InOrder(s[q], o)
    BY Zenon, <1>0, <1>8, <2>2, ReadInOrder
  <2> HIDE DEF o
  <2>4. o \in L!K!WakeOrders(L!K!Now, <<q>>)
    BY Zenon, <1>0, <2>1, <2>3, WakeOrderOne
  <2>5. Does(L!K!WakeWaiters(L!K!Now, <<q>>, o), t)
    BY Zenon, <1>0, <1>8, <2>1, UnblockAllAbs DEF Does, o
  <2>6. L!Call("unblock_all", L!K!WakeWaiters(L!K!Now, <<q>>, o))
    BY Zenon, <1>2, <1>8, <2>5
  <2> QED BY Zenon, <2>1, <2>4, <2>6 DEF L!Next
<1> QED BY Zenon, <1>3, <1>4, <1>5, <1>6, <1>7, <1>8 DEF Changes

LEMMA ListsInit == ASSUME SmallLists, Init PROVE L!Init
<1> DEFINE s == [q \in Queues |-> <<>>]
<1>1. lists = s
  BY Zenon, InitRep, ListsOf
<1>2. contents = Abs(s)
  BY Zenon, <1>1, ContentsAre
<1>3. Abs(s) = [q \in L!K!Queue |-> <<>>]
  BY Zenon, KernelQueues DEF Abs
<1>4. priority \in [L!K!Slot -> Priority] /\ call = "init"
  BY Zenon, KernelQueues DEF Init
<1> QED BY Zenon, <1>2, <1>3, <1>4 DEF L!Init

LEMMA ListsNext ==
  ASSUME SmallLists, CountedLists, ListInv, [Next]_vars
  PROVE  [L!Next]_<<contents, priority, call>>
<1>1. CASE lists' = lists /\ UNCHANGED vars
  <2>1. contents' = contents
    BY Zenon, <1>1, ContentsAre, ContentsNext
  <2> QED BY Zenon, <1>1, <2>1 DEF vars
<1>2. ASSUME NEW q \in Queues, Changes(lists, lists', q, call')
      PROVE  L!Next
  <2>1. /\ lists \in [Queues -> Seq(Item)] /\ Once(lists)
        /\ \A r \in Queues : Counted(lists[r])
    BY Zenon DEF ListInv, Rep, CountedLists
  <2>2. priority' = priority
    BY Zenon, ListInvNext
  <2> QED BY Zenon, <1>2, <2>1, <2>2, ContentsAre, ContentsNext, ListsStep
<1> QED BY Zenon, <1>1, <1>2, ListInvNext

LEMMA SizeIs == \A S : Cardinality(S) = SizeOf(S)
BY Zenon DEF Cardinality, SizeOf

\* What is left to show of the sizes.
Small == \A l \in Seq(Item) :
           (\A i, j \in 1 .. Len(l) : l[i] = l[j] => i = j) =>
             SizeOf(Elements(l)) = Len(l) /\ Len(l) \in 0 .. NUM_MAX_TASK

LEMMA SmallCounted ==
  ASSUME Small, SizeOf(Item) = NUM_MAX_TASK
  PROVE  SmallLists /\ CountedLists
<1>1. ASSUME NEW m, NEW s, Rep(m, s), NEW q \in Queues
      PROVE  Counted(s[q])
  <2>1. s[q] \in Seq(Item) /\ \A i, j \in 1 .. Len(s[q]) : s[q][i] = s[q][j] => i = j
    BY Zenon, <1>1 DEF Rep, Once
  <2> QED BY Zenon, <2>1 DEF Small, Counted
<1>2. \A n, k : n \in 0 .. k => n <= k
  OBVIOUS
<1>3. Cardinality(Item) = NUM_MAX_TASK /\ NUM_MAX_TASK \in Nat
  BY Zenon, SizeIs, ListsAssumption
<1>4. \A l : Counted(l) => Fits(l)
  BY Zenon, <1>2, <1>3 DEF Counted, Fits
<1> QED BY Zenon, <1>1, <1>4 DEF SmallLists, CountedLists

-----------------------------------------------------------------------------
(* The facts on finite sets come from the library, which is brought in     *)
(* only here: its theorems would be in the way of all the steps above.     *)
LOCAL INSTANCE FiniteSetTheorems

LEMMA SizeIsCardinality == \A S : Cardinality(S) = SizeOf(S)
BY Zenon DEF Cardinality, SizeOf

LEMMA SmallHolds == Small /\ SizeOf(Item) = NUM_MAX_TASK
<1>1. IsFiniteSet(Item) /\ Cardinality(Item) = NUM_MAX_TASK
  <2>1. IsFiniteSet(0 .. NUM_MAX_TASK - 1)
        /\ Cardinality(0 .. NUM_MAX_TASK - 1)
             = IF 0 > NUM_MAX_TASK - 1 THEN 0 ELSE (NUM_MAX_TASK - 1) - 0 + 1
    BY ListsAssumption, FS_Interval
  <2>2. (IF 0 > NUM_MAX_TASK - 1 THEN 0 ELSE (NUM_MAX_TASK - 1) - 0 + 1) = NUM_MAX_TASK
    BY ListsAssumption
  <2> QED BY Zenon, <2>1, <2>2, ListsAssumption
<1>2. ASSUME NEW l \in Seq(Item), \A i, j \in 1 .. Len(l) : l[i] = l[j] => i = j
      PROVE  Cardinality(Elements(l)) = Len(l) /\ Len(l) \in 0 .. NUM_MAX_TASK
  <2> DEFINE n == Len(l)
             S == Elements(l)
  <2>1. n \in Nat /\ DOMAIN l = 1 .. n /\ l \in [1 .. n -> Item]
    OBVIOUS
  <2> HIDE DEF n
  <2>2. IsFiniteSet(1 .. n) /\ Cardinality(1 .. n) = n
    <3>1. IsFiniteSet(1 .. n) /\ Cardinality(1 .. n) = IF 1 > n THEN 0 ELSE n - 1 + 1
      BY <2>1, FS_Interval
    <3>2. (IF 1 > n THEN 0 ELSE n - 1 + 1) = n
      BY <2>1
    <3> QED BY <3>1, <3>2
  <2>3. S \subseteq Item /\ l \in [1 .. n -> S] /\ \A x \in S : \E i \in 1 .. n : l[i] = x
    BY Zenon, <2>1 DEF Elements, n
  <2> HIDE DEF S
  <2>4. l \in Bijection(1 .. n, S)
    BY Zenon, <1>2, <2>1, <2>3 DEF n, Bijection, Injection, Surjection, IsInjective
  <2>5. IsFiniteSet(S) /\ Cardinality(S) <= Cardinality(Item)
    BY Zenon, <1>1, <2>3, FS_Subset
  <2>6. Cardinality(S) = n
    BY Zenon, <2>2, <2>4, FS_Bijection DEF ExistsBijection
  <2>7. n <= NUM_MAX_TASK
    BY Zenon, <1>1, <2>5, <2>6
  <2>8. n \in 0 .. NUM_MAX_TASK
    BY <2>1, <2>7, ListsAssumption
  <2> QED BY Zenon, <2>6, <2>8 DEF S, n
<1> QED BY Zenon, <1>1, <1>2, SizeIsCardinality DEF Small

\* In every state the pointers of queue.c are those of proper lists: a pcb is in
\* at most one of them, and head, tail, prev and next agree with their order.
THEOREM ListsAreSound == Spec => []ListInv
<1>1. SmallLists
  BY Zenon, SmallHolds, SmallCounted
<1>2. Init => ListInv
  BY Zenon, <1>1, ListInvInit
<1>3. ListInv /\ [Next]_vars => ListInv'
  BY Zenon, <1>1, ListInvNext
<1> QED BY <1>2, <1>3, PTL DEF Spec

\* For any number of pcbs and mutexes and any priorities, queue.c and the loops
\* over it implement the sequences of modules Sched and Sync.
THEOREM QueueIsLists == Spec => ImplementsLists
<1>1. SmallLists /\ CountedLists
  BY Zenon, SmallHolds, SmallCounted
<1>2. Init => L!Init
  BY Zenon, <1>1, ListsInit
<1>3. ListInv /\ [Next]_vars => [L!Next]_<<contents, priority, call>>
  BY Zenon, <1>1, ListsNext
<1> QED BY <1>2, <1>3, ListsAreSound, PTL DEF Spec, ImplementsLists, L!Spec

=============================================================================
