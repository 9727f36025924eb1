--------------------------- MODULE NoteStackProofs ---------------------------
(***************************************************************************)
(* Proofs about the stack of pressed keys, for every capacity: the linked  *)
(* list and the sorted view always hold the same slots, and what a press   *)
(* and a release do to the list.                                           *)
(***************************************************************************)
EXTENDS NoteStack, OrderLemmas

-----------------------------------------------------------------------------
(* Sequences.                                                              *)

\* Removing an element closes the gap.
LEMMA RemoveAtFacts ==
  ASSUME NEW S, NEW q \in Seq(S), NEW k \in 1..Len(q)
  PROVE  /\ RemoveAt(q, k) \in Seq(S)
         /\ Len(RemoveAt(q, k)) = Len(q) - 1
         /\ \A i \in 1..(Len(q) - 1) :
               RemoveAt(q, k)[i] = IF i < k THEN q[i] ELSE q[i + 1]
<1> DEFINE before == SubSeq(q, 1, k - 1)
           after == SubSeq(q, k + 1, Len(q))
<1>1. /\ before \in Seq(S) /\ Len(before) = k - 1
      /\ \A i \in 1..(k - 1) : before[i] = q[i]
  OBVIOUS
<1>2. /\ after \in Seq(S) /\ Len(after) = Len(q) - k
      /\ \A i \in 1..(Len(q) - k) : after[i] = q[k + i]
  OBVIOUS
<1> HIDE DEF before, after
<1>3. before \o after \in Seq(S) /\ Len(before \o after) = Len(q) - 1
  BY <1>1, <1>2
<1>4. \A i \in 1..(Len(q) - 1) :
         (before \o after)[i] = IF i < k THEN before[i] ELSE after[i - (k - 1)]
  BY <1>1, <1>2
<1>5. ASSUME NEW i \in 1..(Len(q) - 1)
      PROVE  (before \o after)[i] = IF i < k THEN q[i] ELSE q[i + 1]
  <2>1. CASE i < k
    BY <1>1, <1>4, <2>1
  <2>2. CASE ~(i < k)
    <3>1. i - (k - 1) \in 1..(Len(q) - k) /\ k + (i - (k - 1)) = i + 1
      BY <2>2
    <3> QED BY <1>2, <1>4, <2>2, <3>1
  <2> QED BY <2>1, <2>2
<1> QED
  BY <1>3, <1>5 DEF RemoveAt, before, after

\* r is q with e inserted at place k: the elements behind it move.
Inserted(r, q, k, e) ==
    /\ Len(r) = Len(q) + 1
    /\ \A i \in 1..(Len(q) + 1) :
          r[i] = IF i < k THEN q[i] ELSE IF i = k THEN e ELSE q[i - 1]

\* That is what InsertAt does.
LEMMA InsertAtFacts ==
  ASSUME NEW S, NEW q \in Seq(S), NEW k \in 1..(Len(q) + 1), NEW e \in S
  PROVE  InsertAt(q, k, e) \in Seq(S) /\ Inserted(InsertAt(q, k, e), q, k, e)
<1> DEFINE before == SubSeq(q, 1, k - 1)
           after == SubSeq(q, k, Len(q))
           front == before \o <<e>>
<1>1. /\ before \in Seq(S) /\ Len(before) = k - 1
      /\ \A i \in 1..(k - 1) : before[i] = q[i]
  OBVIOUS
<1>2. /\ after \in Seq(S) /\ Len(after) = (Len(q) + 1) - k
      /\ \A i \in 1..((Len(q) + 1) - k) : after[i] = q[(k - 1) + i]
  OBVIOUS
<1> HIDE DEF before, after
<1>3. /\ front \in Seq(S) /\ Len(front) = k
      /\ \A i \in 1..k : front[i] = IF i < k THEN q[i] ELSE e
  BY <1>1
<1> HIDE DEF front
<1>4. front \o after \in Seq(S) /\ Len(front \o after) = Len(q) + 1
  BY <1>2, <1>3
<1>5. \A i \in 1..(Len(q) + 1) :
         (front \o after)[i] = IF i <= k THEN front[i] ELSE after[i - k]
  BY <1>2, <1>3
<1>6. ASSUME NEW i \in 1..(Len(q) + 1)
      PROVE  (front \o after)[i] = IF i < k THEN q[i] ELSE IF i = k THEN e ELSE q[i - 1]
  <2>1. CASE i <= k
    BY <1>3, <1>5, <2>1
  <2>2. CASE ~(i <= k)
    <3>1. i - k \in 1..((Len(q) + 1) - k) /\ (k - 1) + (i - k) = i - 1
      BY <2>2
    <3>2. after[i - k] = q[i - 1]
      BY <1>2, <3>1
    <3>3. ~(i < k) /\ i # k
      BY <2>2
    <3> QED BY <1>5, <2>2, <3>2, <3>3
  <2> QED BY <2>1, <2>2
<1> QED
  BY <1>4, <1>6 DEF InsertAt, before, after, front, Inserted

RangeOf(q) == {q[i] : i \in DOMAIN q}

\* An injective sequence has as many elements as members.
LEMMA InjectiveLength ==
  ASSUME NEW S, NEW q \in Seq(S), IsInjective(q)
  PROVE  IsFiniteSet(RangeOf(q)) /\ Cardinality(RangeOf(q)) = Len(q)
<1>1. IsFiniteSet(1..Len(q)) /\ Cardinality(1..Len(q)) = Len(q)
  <2>1. Len(q) \in Nat /\ 1 \in Int /\ Len(q) \in Int
    OBVIOUS
  <2>2. Cardinality(1..Len(q)) = IF 1 > Len(q) THEN 0 ELSE (Len(q) - 1) + 1
    BY <2>1, FS_Interval
  <2> QED
    BY <2>1, <2>2, FS_Interval
<1>2. q \in Bijection(1..Len(q), RangeOf(q))
  BY DEF Bijection, Injection, Surjection, IsInjective, RangeOf
<1>3. ExistsBijection(1..Len(q), RangeOf(q))
  BY <1>2 DEF ExistsBijection
<1> QED
  BY <1>1, <1>3, FS_Bijection

\* An injective sequence of slots is no longer than the pool, and a sequence
\* as long as the pool names every slot.
LEMMA SlotsFit ==
  ASSUME Capacity \in Nat, NEW q \in Seq(Slots), IsInjective(q)
  PROVE  /\ Len(q) <= Capacity
         /\ Len(q) = Capacity <=> RangeOf(q) = Slots
<1>1. IsFiniteSet(Slots) /\ Cardinality(Slots) = Capacity
  <2>1. 1 \in Int /\ Capacity \in Int
    OBVIOUS
  <2>2. Cardinality(Slots) = IF 1 > Capacity THEN 0 ELSE (Capacity - 1) + 1
    BY <2>1, FS_Interval DEF Slots
  <2> QED
    BY <2>1, <2>2, FS_Interval DEF Slots
<1>2. RangeOf(q) \in SUBSET Slots
  BY DEF RangeOf
<1> QED
  BY <1>1, <1>2, InjectiveLength, FS_Subset

-----------------------------------------------------------------------------
(* The list.                                                               *)

Used(s) == {i \in Slots : NoteAt(s, i) # FreeSlot}

\* o names the slots in use, in the order of the links.
Lists(s, o) ==
    /\ o \in Seq(Slots) /\ IsInjective(o)
    /\ RangeOf(o) = Used(s)
    /\ Threads(s, o)

\* Inductive: a list and a sorted view of the same slots, a note on each, and no note twice.
StackOK(s) ==
    /\ s \in [root : Slots \cup {0},
              pool : [Slots -> [note : Int, velocity : Velocities \cup {0},
                                flagged : BOOLEAN, next : Slots \cup {0}]],
              sorted : Seq(Slots)]
    /\ \A i \in Slots : NoteAt(s, i) = FreeSlot => s.pool[i] = FreeEntry
    /\ \A i, j \in Used(s) : NoteAt(s, i) = NoteAt(s, j) => i = j
    /\ \E o \in Seq(Slots) : Lists(s, o)
    /\ IsInjective(s.sorted) /\ RangeOf(s.sorted) = Used(s)

\* Followed from the root, the links leave no choice.
LEMMA SameLinks ==
  ASSUME NEW s, NEW a \in Seq(Slots), NEW b \in Seq(Slots), Threads(s, a), Threads(s, b)
  PROVE  Len(a) <= Len(b) /\ \A k \in 1..Len(a) : a[k] = b[k]
<1> DEFINE D == {k \in 1..Len(a) : ~(k <= Len(b) /\ a[k] = b[k])}
<1>1. ASSUME D # {}
      PROVE  FALSE
  <2>1. D \in SUBSET Nat
    OBVIOUS
  <2>2. PICK m \in D : \A x \in D : m <= x
    <3> HIDE DEF D
    <3> QED BY <1>1, <2>1, MinOfNaturals
  <2>3. m \in 1..Len(a) /\ ~(m <= Len(b) /\ a[m] = b[m]) /\ a[m] \in Slots /\ a # <<>>
    OBVIOUS
  <2>4. CASE m = 1
    <3>1. s.root = a[1] /\ s.root # 0
      BY <2>3, <2>4 DEF Threads, Slots
    <3>2. b # <<>> /\ s.root = b[1]
      BY <3>1 DEF Threads
    <3> QED BY <2>3, <2>4, <3>1, <3>2
  <2>5. CASE m # 1
    <3>1. m - 1 \in 1..Len(a) /\ m - 1 # Len(a) /\ (m - 1) + 1 = m /\ m - 1 \notin D
      <4>1. m - 1 < m
        BY <2>3
      <4> QED BY <2>2, <2>3, <2>5, <4>1
    <3>2. m - 1 \in 1..Len(b) /\ a[m - 1] = b[m - 1]
      BY <3>1
    <3>3. s.pool[a[m - 1]].next = a[m] /\ a[m] # 0
      BY <2>3, <3>1 DEF Threads, Slots
    <3>4. m - 1 # Len(b) /\ s.pool[b[m - 1]].next = b[m]
      BY <3>1, <3>2, <3>3 DEF Threads
    <3> QED BY <2>3, <3>2, <3>3, <3>4
  <2> QED BY <2>4, <2>5
<1>2. \A k \in 1..Len(a) : k <= Len(b) /\ a[k] = b[k]
  BY <1>1
<1>3. Len(a) <= Len(b)
  <2>1. CASE Len(a) = 0
    BY <2>1
  <2>2. CASE Len(a) # 0
    BY <1>2, <2>2
  <2> QED BY <2>1, <2>2
<1> QED
  BY <1>2, <1>3

\* Listing reads the list, and any list of the slots in use is that one.
LEMMA ListingFacts ==
  ASSUME Capacity \in Nat, NEW s
  PROVE  /\ StackOK(s) => Lists(s, Listing(s))
         /\ \A o : Lists(s, o) => o = Listing(s)
<1>1. ASSUME NEW o, Lists(s, o)
      PROVE  /\ o \in SeqOf(Slots, Capacity) /\ IsInjective(o) /\ Threads(s, o)
             /\ o = Listing(s)
  <2>1. o \in Seq(Slots) /\ Len(o) \in 0..Capacity /\ o \in [1..Len(o) -> Slots]
    BY <1>1, SlotsFit DEF Lists
  <2>2. o \in SeqOf(Slots, Capacity)
    BY <2>1 DEF SeqOf
  <2>3. /\ Listing(s) \in SeqOf(Slots, Capacity)
        /\ Threads(s, Listing(s))
    BY <1>1, <2>2 DEF Listing, Lists
  <2>4. Listing(s) \in Seq(Slots)
    <3>1. PICK m \in 0..Capacity : Listing(s) \in [1..m -> Slots]
      BY <2>3 DEF SeqOf
    <3> QED BY <3>1
  <2>5. /\ Len(o) = Len(Listing(s))
        /\ \A k \in 1..Len(o) : o[k] = Listing(s)[k]
    <3>1. Threads(s, o)
      BY <1>1 DEF Lists
    <3>2. Len(o) <= Len(Listing(s)) /\ \A k \in 1..Len(o) : o[k] = Listing(s)[k]
      BY <2>1, <2>3, <2>4, <3>1, SameLinks
    <3>3. Len(Listing(s)) <= Len(o)
      BY <2>1, <2>3, <2>4, <3>1, SameLinks
    <3>4. Len(o) \in Nat /\ Len(Listing(s)) \in Nat
      BY <2>1, <2>4
    <3> QED BY <3>2, <3>3, <3>4
  <2>6. o = Listing(s)
    BY <2>1, <2>4, <2>5
  <2> QED
    BY <1>1, <2>2, <2>6 DEF Lists
<1>2. ASSUME StackOK(s)
      PROVE  Lists(s, Listing(s))
  BY <1>1, <1>2 DEF StackOK
<1> QED
  BY <1>1, <1>2

\* The list and the sorted view are as long as each other.
LEMMA SameLength ==
  ASSUME NEW s, NEW o, StackOK(s), Lists(s, o)
  PROVE  Size(s) = Len(o) /\ Size(s) \in Nat
BY InjectiveLength DEF StackOK, Lists, Size

-----------------------------------------------------------------------------
(* Releasing a key.                                                        *)

\* Removing an element of an injective sequence removes it from its range.
LEMMA RemoveAtRange ==
  ASSUME NEW S, NEW q \in Seq(S), IsInjective(q), NEW k \in 1..Len(q)
  PROVE  /\ IsInjective(RemoveAt(q, k))
         /\ RangeOf(RemoveAt(q, k)) = RangeOf(q) \ {q[k]}
<1> DEFINE r == RemoveAt(q, k)
           at(i) == IF i < k THEN i ELSE i + 1
<1>1. /\ r \in Seq(S) /\ Len(r) = Len(q) - 1
      /\ \A i \in 1..(Len(q) - 1) : r[i] = q[at(i)]
  BY RemoveAtFacts
<1>2. DOMAIN r = 1..(Len(q) - 1) /\ DOMAIN q = 1..Len(q)
  BY <1>1
<1>3. /\ \A i \in 1..(Len(q) - 1) : at(i) \in 1..Len(q) /\ at(i) # k
      /\ \A i, j \in 1..(Len(q) - 1) : at(i) = at(j) => i = j
  OBVIOUS
<1>4. \A j \in 1..Len(q) : j # k => \E i \in 1..(Len(q) - 1) : at(i) = j
  <2> SUFFICES ASSUME NEW j \in 1..Len(q), j # k
               PROVE  \E i \in 1..(Len(q) - 1) : at(i) = j
    OBVIOUS
  <2>1. CASE j < k
    <3>1. j \in 1..(Len(q) - 1) /\ at(j) = j
      BY <2>1
    <3> QED BY <3>1
  <2>2. CASE j > k
    <3>1. j - 1 \in 1..(Len(q) - 1) /\ at(j - 1) = j
      BY <2>2
    <3> QED BY <3>1
  <2> QED BY <2>1, <2>2
<1> HIDE DEF r, at
<1>5. IsInjective(r)
  BY <1>1, <1>2, <1>3 DEF IsInjective
<1>6. RangeOf(r) = RangeOf(q) \ {q[k]}
  <2>1. ASSUME NEW x \in RangeOf(r)
        PROVE  x \in RangeOf(q) /\ x # q[k]
    <3>1. PICK i \in 1..(Len(q) - 1) : x = r[i]
      BY <1>2 DEF RangeOf
    <3>2. at(i) \in 1..Len(q) /\ at(i) # k /\ x = q[at(i)]
      BY <1>1, <1>3, <3>1
    <3> QED BY <1>2, <3>2 DEF IsInjective, RangeOf
  <2>2. ASSUME NEW x \in RangeOf(q), x # q[k]
        PROVE  x \in RangeOf(r)
    <3>1. PICK j \in 1..Len(q) : x = q[j]
      BY <1>2 DEF RangeOf
    <3>2. PICK i \in 1..(Len(q) - 1) : at(i) = j
      BY <1>4, <2>2, <3>1
    <3>3. r[i] = x
      BY <1>1, <3>1, <3>2
    <3> QED BY <1>2, <3>3 DEF RangeOf
  <2> QED BY <2>1, <2>2
<1> QED
  BY <1>5, <1>6 DEF r

\* The stack without the slot at place k of its list and c of its sorted view.
Unlinked(s, o, k, c) ==
    [ root   |-> IF k = 1 THEN s.pool[o[k]].next ELSE s.root,
      pool   |-> [(IF k = 1 THEN s.pool
                   ELSE [s.pool EXCEPT ![o[k - 1]].next = s.pool[o[k]].next])
                     EXCEPT ![o[k]] = FreeEntry],
      sorted |-> RemoveAt(s.sorted, c) ]

\* The other keys keep their notes and their order.
LEMMA UnlinkFacts ==
  ASSUME NEW s, NEW o, StackOK(s), Lists(s, o), NEW k \in 1..Len(o),
         NEW c \in 1..Len(s.sorted), s.sorted[c] = o[k],
         NEW t, t = Unlinked(s, o, k, c)
  PROVE  /\ StackOK(t) /\ Lists(t, RemoveAt(o, k))
         /\ \A i \in Slots \ {o[k]} :
               /\ t.pool[i].note = s.pool[i].note
               /\ t.pool[i].velocity = s.pool[i].velocity
               /\ t.pool[i].flagged = s.pool[i].flagged
         /\ Size(t) = Size(s) - 1
<1> DEFINE slot == o[k]
           r == RemoveAt(o, k)
           next == s.pool[slot].next
<1>1. /\ s.pool \in [Slots -> [note : Int, velocity : Velocities \cup {0},
                               flagged : BOOLEAN, next : Slots \cup {0}]]
      /\ s.root \in Slots \cup {0}
      /\ s.sorted \in Seq(Slots) /\ IsInjective(s.sorted) /\ RangeOf(s.sorted) = Used(s)
  BY DEF StackOK
<1>2. /\ o \in Seq(Slots) /\ IsInjective(o) /\ RangeOf(o) = Used(s) /\ Threads(s, o)
      /\ DOMAIN o = 1..Len(o) /\ slot \in Slots
  BY DEF Lists
<1>3. /\ r \in Seq(Slots) /\ Len(r) = Len(o) - 1 /\ DOMAIN r = 1..(Len(o) - 1)
      /\ \A i \in 1..(Len(o) - 1) : r[i] = IF i < k THEN o[i] ELSE o[i + 1]
  <2>1. /\ r \in Seq(Slots) /\ Len(r) = Len(o) - 1
        /\ \A i \in 1..(Len(o) - 1) : r[i] = IF i < k THEN o[i] ELSE o[i + 1]
    BY <1>2, RemoveAtFacts
  <2>2. DOMAIN r = 1..(Len(o) - 1)
    <3> HIDE DEF r
    <3> QED BY <2>1
  <2> QED BY <2>1, <2>2
<1>4. IsInjective(r) /\ RangeOf(r) = Used(s) \ {slot}
  BY <1>2, RemoveAtRange
<1>5. /\ t.sorted \in Seq(Slots) /\ Len(t.sorted) = Len(s.sorted) - 1
      /\ IsInjective(t.sorted) /\ RangeOf(t.sorted) = Used(s) \ {slot}
  <2>1. t.sorted = RemoveAt(s.sorted, c)
    BY DEF Unlinked
  <2>2. t.sorted \in Seq(Slots) /\ Len(t.sorted) = Len(s.sorted) - 1
    <3>1. s.sorted \in Seq(Slots) /\ c \in 1..Len(s.sorted)
      BY <1>1
    <3>2. PICK q \in Seq(Slots) : q = s.sorted
      BY <3>1
    <3>3. RemoveAt(q, c) \in Seq(Slots) /\ Len(RemoveAt(q, c)) = Len(q) - 1
      BY <3>1, <3>2, RemoveAtFacts
    <3> QED BY <2>1, <3>2, <3>3
  <2>3. IsInjective(t.sorted) /\ RangeOf(t.sorted) = Used(s) \ {slot}
    BY <1>1, <2>1, RemoveAtRange
  <2> QED BY <2>2, <2>3
<1>6. next \in Slots \cup {0} /\ next = IF k = Len(o) THEN 0 ELSE o[k + 1]
  BY <1>1, <1>2 DEF Threads
<1>7. t.pool = [i \in Slots |->
                  IF i = slot THEN FreeEntry
                  ELSE IF k # 1 /\ i = o[k - 1] THEN [s.pool[i] EXCEPT !.next = next]
                  ELSE s.pool[i]]
  <2>1. CASE k = 1
    BY <1>1, <1>2, <2>1 DEF Unlinked
  <2>2. CASE k # 1
    <3>1. k - 1 \in 1..Len(o) /\ o[k - 1] \in Slots
      BY <1>2, <2>2
    <3> QED BY <1>1, <1>2, <2>2, <3>1 DEF Unlinked
  <2> QED BY <2>1, <2>2
<1>8. \A i \in Slots : t.pool[i] = IF i = slot THEN FreeEntry
                                   ELSE IF k # 1 /\ i = o[k - 1]
                                        THEN [s.pool[i] EXCEPT !.next = next]
                                   ELSE s.pool[i]
  BY <1>7
<1> HIDE DEF slot, r, next
<1>9. \A i \in Slots : /\ i # slot => /\ t.pool[i].note = s.pool[i].note
                                      /\ t.pool[i].velocity = s.pool[i].velocity
                                      /\ t.pool[i].flagged = s.pool[i].flagged
                                      /\ (~(k # 1 /\ i = o[k - 1])
                                           => t.pool[i].next = s.pool[i].next)
                                      /\ (k # 1 /\ i = o[k - 1] => t.pool[i].next = next)
                       /\ i = slot => t.pool[i] = FreeEntry
  BY <1>1, <1>8
<1>10. Used(t) = Used(s) \ {slot}
  BY <1>9 DEF Used, NoteAt, FreeEntry
<1>11. Threads(t, r)
  <2>1. t.root = IF r = <<>> THEN 0 ELSE r[1]
    <3>1. CASE k = 1
      <4>1. t.root = next
        BY <1>1, <3>1 DEF Unlinked, next, slot
      <4> QED BY <1>2, <1>3, <1>6, <3>1, <4>1
    <3>2. CASE k # 1
      <4>1. t.root = s.root /\ o # <<>> /\ s.root = o[1]
        BY <1>1, <1>2, <3>2 DEF Unlinked, Threads
      <4> QED BY <1>2, <1>3, <3>2, <4>1
    <3> QED BY <3>1, <3>2
  <2>0. Len(o) \in Nat /\ Len(r) = Len(o) - 1
    BY <1>2, <1>3
  <2>2. ASSUME NEW i \in 1..(Len(o) - 1)
        PROVE  t.pool[r[i]].next = IF i = Len(r) THEN 0 ELSE r[i + 1]
    <3>0. \A j \in 1..Len(o) : s.pool[o[j]].next = IF j = Len(o) THEN 0 ELSE o[j + 1]
      BY <1>2 DEF Threads
    <3>00. /\ \A j \in 1..Len(o) : o[j] \in Slots
           /\ \A j, l \in 1..Len(o) : o[j] = o[l] => j = l
      BY <1>2 DEF IsInjective
    <3>1. CASE i >= k
      <4>1. /\ r[i] = o[i + 1] /\ o[i + 1] \in Slots /\ o[i + 1] # slot
            /\ ~(k # 1 /\ o[i + 1] = o[k - 1])
        BY <1>2, <1>3, <3>00, <3>1 DEF slot
      <4>2. t.pool[r[i]].next = IF i + 1 = Len(o) THEN 0 ELSE o[(i + 1) + 1]
        BY <1>9, <3>0, <4>1
      <4> QED BY <1>2, <1>3, <3>1, <4>2
    <3>2. CASE i = k - 1
      <4>1. k # 1 /\ r[i] = o[k - 1] /\ o[k - 1] \in Slots /\ o[k - 1] # slot
        BY <1>2, <1>3, <3>00, <3>2 DEF slot
      <4>2. t.pool[r[i]].next = next
        BY <1>9, <4>1
      <4>3. (i = Len(r)) = (k = Len(o))
        BY <2>0, <3>2
      <4>4. i + 1 = k /\ (k # Len(o) => k \in 1..(Len(o) - 1) /\ ~(k < k))
        BY <2>0, <3>2
      <4>5. k # Len(o) => r[k] = o[k + 1]
        BY <1>3, <4>4
      <4> QED BY <1>6, <4>2, <4>3, <4>4, <4>5
    <3>3. CASE i < k - 1
      <4>1. /\ r[i] = o[i] /\ o[i] \in Slots /\ o[i] # slot
            /\ ~(k # 1 /\ o[i] = o[k - 1])
        BY <1>2, <1>3, <3>00, <3>3 DEF slot
      <4>2. i \in 1..Len(o) /\ i # Len(o) /\ i # Len(r) /\ i + 1 \in 1..(Len(o) - 1) /\ i + 1 < k
        BY <2>0, <3>3
      <4>3. t.pool[r[i]].next = s.pool[o[i]].next
        BY <1>9, <4>1
      <4>4. s.pool[o[i]].next = o[i + 1]
        BY <3>0, <4>2
      <4>5. r[i + 1] = o[i + 1]
        BY <1>3, <4>2
      <4> QED BY <4>2, <4>3, <4>4, <4>5
    <3> QED BY <3>1, <3>2, <3>3
  <2> QED BY <1>3, <2>1, <2>2 DEF Threads
<1>12. Lists(t, r)
  BY <1>3, <1>4, <1>10, <1>11 DEF Lists
<1>13. t.root \in Slots \cup {0}
  BY <1>1, <1>6 DEF Unlinked, next, slot
<1>14. t.pool \in [Slots -> [note : Int, velocity : Velocities \cup {0},
                            flagged : BOOLEAN, next : Slots \cup {0}]]
  <2>1. FreeEntry \in [note : Int, velocity : Velocities \cup {0},
                       flagged : BOOLEAN, next : Slots \cup {0}]
    BY DEF FreeEntry, FreeSlot
  <2>2. ASSUME NEW i \in Slots
        PROVE  t.pool[i] \in [note : Int, velocity : Velocities \cup {0},
                              flagged : BOOLEAN, next : Slots \cup {0}]
    <3>1. PICK e \in [note : Int, velocity : Velocities \cup {0},
                      flagged : BOOLEAN, next : Slots \cup {0}] : e = s.pool[i]
      BY <1>1
    <3>2. [e EXCEPT !.next = next] \in [note : Int, velocity : Velocities \cup {0},
                                        flagged : BOOLEAN, next : Slots \cup {0}]
      BY <1>6, <3>1
    <3> QED BY <1>8, <2>1, <3>1, <3>2
  <2> QED BY <1>7, <2>2
<1>15. StackOK(t)
  <2>1. t \in [root : Slots \cup {0},
               pool : [Slots -> [note : Int, velocity : Velocities \cup {0},
                                 flagged : BOOLEAN, next : Slots \cup {0}]],
               sorted : Seq(Slots)]
    <3>1. t.sorted \in Seq(Slots)
      BY <1>5
    <3> QED BY <1>13, <1>14, <3>1 DEF Unlinked
  <2>2. \A i \in Slots : NoteAt(t, i) = FreeSlot => t.pool[i] = FreeEntry
    <3> SUFFICES ASSUME NEW i \in Slots, NoteAt(t, i) = FreeSlot, i # slot
                 PROVE  t.pool[i] = FreeEntry
      BY <1>9
    <3>1. NoteAt(s, i) = FreeSlot /\ s.pool[i] = FreeEntry
      BY <1>9 DEF NoteAt, StackOK
    <3>2. \A j \in 1..Len(o) : o[j] # i
      BY <1>2, <3>1 DEF Used, RangeOf
    <3>3. ~(k # 1 /\ i = o[k - 1])
      BY <3>2
    <3> QED BY <1>8, <3>1, <3>3
  <2>3. \A i, j \in Used(t) : NoteAt(t, i) = NoteAt(t, j) => i = j
    BY <1>9, <1>10 DEF StackOK, Used, NoteAt
  <2> QED
    BY <1>3, <1>5, <1>10, <1>12, <2>1, <2>2, <2>3 DEF StackOK
<1> QED
  BY <1>5, <1>9, <1>12, <1>15 DEF Size, slot, r

\* NoteOff does nothing without a key that holds the note, and unlinks that key if there is one.
LEMMA NoteOffResult ==
  ASSUME Capacity \in Nat, NEW s, StackOK(s), NEW note
  PROVE  \/ /\ AfterNoteOff(s, note) = s
            /\ \A i \in Used(s) : NoteAt(s, i) # note
         \/ \E k \in 1..Len(Listing(s)), c \in 1..Len(s.sorted) :
               /\ NoteAt(s, Listing(s)[k]) = note
               /\ s.sorted[c] = Listing(s)[k]
               /\ AfterNoteOff(s, note) = Unlinked(s, Listing(s), k, c)
<1> DEFINE o == Listing(s)
           hits == {i \in DOMAIN o : NoteAt(s, o[i]) = note}
           place == PlaceOf(s, o, note)
<1>1. Lists(s, o)
  BY ListingFacts
<1> HIDE DEF o
<1>2. /\ o \in Seq(Slots) /\ DOMAIN o = 1..Len(o) /\ Len(o) \in Nat
      /\ RangeOf(o) = Used(s)
  BY <1>1 DEF Lists
<1>3. /\ s.sorted \in Seq(Slots) /\ DOMAIN s.sorted = 1..Len(s.sorted)
      /\ RangeOf(s.sorted) = Used(s)
  BY DEF StackOK
<1>4. CASE hits = {}
  <2>1. place = 0 /\ AfterNoteOff(s, note) = s
    BY <1>4 DEF PlaceOf, AfterNoteOff, o
  <2>2. \A i \in Used(s) : NoteAt(s, i) # note
    BY <1>2, <1>4 DEF RangeOf
  <2> QED BY <2>1, <2>2
<1>5. CASE hits # {}
  <2>1. hits \in SUBSET Nat
    BY <1>2
  <2>2. place \in hits
    <3>1. place = Min(hits)
      BY <1>5 DEF PlaceOf
    <3> HIDE DEF hits, place
    <3> QED BY <1>5, <2>1, <3>1, MinOfNaturals
  <2>3. place \in 1..Len(o) /\ place # 0 /\ NoteAt(s, o[place]) = note
    BY <1>2, <2>2
  <2>4. \E c \in 1..Len(s.sorted) : s.sorted[c] = o[place]
    <3>1. o[place] \in RangeOf(s.sorted)
      BY <1>2, <1>3, <2>3 DEF RangeOf
    <3> QED BY <1>3, <3>1 DEF RangeOf
  <2> DEFINE c == CHOOSE i \in DOMAIN s.sorted : s.sorted[i] = o[place]
  <2>5. c \in 1..Len(s.sorted) /\ s.sorted[c] = o[place]
    <3> HIDE DEF place
    <3> QED BY <1>3, <2>4
  <2>6. AfterNoteOff(s, note) = Unlinked(s, o, place, c)
    BY <2>3 DEF AfterNoteOff, Unlinked, o
  <2> QED
    <3> HIDE DEF c, place
    <3> QED BY <2>3, <2>5, <2>6 DEF o
<1> QED
  BY <1>4, <1>5

\* What a release keeps.
LEMMA NoteOffFacts ==
  ASSUME Capacity \in Nat, NEW s, StackOK(s), NEW note,
         NEW t, t = AfterNoteOff(s, note)
  PROVE  /\ StackOK(t)
         /\ \A i \in Used(t) : i \in Used(s) /\ NoteAt(t, i) = NoteAt(s, i)
         /\ \A i \in Used(t) : NoteAt(t, i) # note
         /\ (\E i \in Used(s) : NoteAt(s, i) = note) => Size(t) = Size(s) - 1
         /\ (\A i \in Used(s) : NoteAt(s, i) # note) => t = s
<1> DEFINE o == Listing(s)
<1>1. Lists(s, o)
  BY ListingFacts
<1> HIDE DEF o
<1>2. CASE t = s /\ \A i \in Used(s) : NoteAt(s, i) # note
  BY <1>2
<1>3. ASSUME NEW k \in 1..Len(o), NEW c \in 1..Len(s.sorted),
             NoteAt(s, o[k]) = note, s.sorted[c] = o[k], t = Unlinked(s, o, k, c)
      PROVE  /\ StackOK(t)
             /\ \A i \in Used(t) : i \in Used(s) /\ NoteAt(t, i) = NoteAt(s, i)
             /\ \A i \in Used(t) : NoteAt(t, i) # note
             /\ Size(t) = Size(s) - 1
             /\ o[k] \in Used(s)
  <2>1. /\ StackOK(t) /\ Lists(t, RemoveAt(o, k))
        /\ \A i \in Slots \ {o[k]} : NoteAt(t, i) = NoteAt(s, i)
        /\ Size(t) = Size(s) - 1
    BY <1>1, <1>3, UnlinkFacts DEF NoteAt
  <2>2. Used(t) = Used(s) \ {o[k]} /\ o[k] \in Used(s)
    <3>1. o \in Seq(Slots) /\ IsInjective(o) /\ RangeOf(o) = Used(s) /\ DOMAIN o = 1..Len(o)
      BY <1>1 DEF Lists
    <3>2. RangeOf(RemoveAt(o, k)) = Used(s) \ {o[k]}
      BY <3>1, RemoveAtRange
    <3>3. RangeOf(RemoveAt(o, k)) = Used(t)
      BY <2>1 DEF Lists
    <3> QED BY <3>1, <3>2, <3>3 DEF RangeOf
  <2>3. \A i, j \in Used(s) : NoteAt(s, i) = NoteAt(s, j) => i = j
    BY DEF StackOK
  <2>4. \A i \in Used(t) : NoteAt(t, i) # note
    <3> SUFFICES ASSUME NEW i \in Used(t), NoteAt(t, i) = note
                 PROVE  FALSE
      OBVIOUS
    <3>1. i \in Used(s) /\ i # o[k] /\ i \in Slots
      BY <2>2 DEF Used
    <3> QED BY <1>3, <2>1, <2>2, <2>3, <3>1
  <2>5. \A i \in Used(t) : i \in Used(s) /\ NoteAt(t, i) = NoteAt(s, i)
    BY <2>1, <2>2 DEF Used
  <2> QED BY <2>1, <2>2, <2>4, <2>5
<1>4. \/ t = s /\ \A i \in Used(s) : NoteAt(s, i) # note
      \/ \E k \in 1..Len(o), c \in 1..Len(s.sorted) :
            NoteAt(s, o[k]) = note /\ s.sorted[c] = o[k] /\ t = Unlinked(s, o, k, c)
  BY NoteOffResult DEF o
<1>5. CASE \E k \in 1..Len(o), c \in 1..Len(s.sorted) :
             NoteAt(s, o[k]) = note /\ s.sorted[c] = o[k] /\ t = Unlinked(s, o, k, c)
  <2>1. PICK k \in 1..Len(o), c \in 1..Len(s.sorted) :
             NoteAt(s, o[k]) = note /\ s.sorted[c] = o[k] /\ t = Unlinked(s, o, k, c)
    BY <1>5
  <2> QED BY <1>3, <2>1
<1> QED
  BY <1>2, <1>4, <1>5

-----------------------------------------------------------------------------
(* Pressing a key.                                                         *)

\* Inserting an element adds it to the range.
LEMMA InsertedRange ==
  ASSUME NEW S, NEW q \in Seq(S), IsInjective(q), NEW k \in 1..(Len(q) + 1),
         NEW e \in S, e \notin RangeOf(q),
         NEW r \in Seq(S), Inserted(r, q, k, e)
  PROVE  IsInjective(r) /\ RangeOf(r) = RangeOf(q) \cup {e}
<1> DEFINE from(i) == IF i < k THEN i ELSE i - 1
<1>1. DOMAIN r = 1..(Len(q) + 1) /\ DOMAIN q = 1..Len(q) /\ Len(q) \in Nat
  BY DEF Inserted
<1>2. /\ \A i \in 1..(Len(q) + 1) : i # k => from(i) \in 1..Len(q)
      /\ \A i, j \in 1..(Len(q) + 1) : i # k /\ j # k /\ from(i) = from(j) => i = j
  BY <1>1
<1>3. \A i \in 1..(Len(q) + 1) : r[i] = IF i = k THEN e ELSE q[from(i)]
  BY <1>1 DEF Inserted
<1>4. \A j \in 1..Len(q) : \E i \in 1..(Len(q) + 1) : i # k /\ from(i) = j
  <2> SUFFICES ASSUME NEW j \in 1..Len(q)
               PROVE  \E i \in 1..(Len(q) + 1) : i # k /\ from(i) = j
    OBVIOUS
  <2>1. CASE j < k
    <3>1. j \in 1..(Len(q) + 1) /\ j # k /\ from(j) = j
      BY <2>1, <1>1
    <3> QED BY <3>1
  <2>2. CASE ~(j < k)
    <3>1. j + 1 \in 1..(Len(q) + 1) /\ j + 1 # k /\ from(j + 1) = j
      BY <2>2, <1>1
    <3> QED BY <3>1
  <2> QED BY <2>1, <2>2
<1> HIDE DEF from
<1>5. \A j \in 1..Len(q) : q[j] # e
  BY <1>1 DEF RangeOf
<1>6. ASSUME NEW i \in 1..(Len(q) + 1), NEW j \in 1..(Len(q) + 1), r[i] = r[j]
      PROVE  i = j
  <2>1. CASE i = k \/ j = k
    BY <1>2, <1>3, <1>5, <1>6, <2>1
  <2>2. CASE i # k /\ j # k
    <3>1. q[from(i)] = q[from(j)]
      BY <1>3, <1>6, <2>2
    <3>2. from(i) = from(j)
      BY <1>1, <1>2, <2>2, <3>1 DEF IsInjective
    <3> QED BY <1>2, <2>2, <3>2
  <2> QED BY <2>1, <2>2
<1>7. ASSUME NEW x \in RangeOf(r)
      PROVE  x \in RangeOf(q) \cup {e}
  <2>1. PICK i \in 1..(Len(q) + 1) : x = r[i]
    BY <1>1 DEF RangeOf
  <2>2. x = e \/ (i # k /\ x = q[from(i)])
    BY <1>3, <2>1
  <2> QED BY <1>1, <1>2, <2>2 DEF RangeOf
<1>8. ASSUME NEW x \in RangeOf(q)
      PROVE  x \in RangeOf(r)
  <2>1. PICK j \in 1..Len(q) : x = q[j]
    BY <1>1 DEF RangeOf
  <2>2. PICK i \in 1..(Len(q) + 1) : i # k /\ from(i) = j
    BY <1>4
  <2>3. r[i] = x
    BY <1>3, <2>1, <2>2
  <2> QED BY <1>1, <2>3 DEF RangeOf
<1>9. e \in RangeOf(r)
  <2>1. r[k] = e
    BY <1>3
  <2> QED BY <1>1, <2>1 DEF RangeOf
<1> QED
  BY <1>1, <1>6, <1>7, <1>8, <1>9 DEF IsInjective

\* The stack that Clear leaves.
LEMMA EmptyFacts == StackOK(EmptyStack) /\ Lists(EmptyStack, <<>>) /\ Size(EmptyStack) = 0
<1> DEFINE e == EmptyStack
           none == <<>>
<1>1. none \in Seq(Slots) /\ DOMAIN none = {} /\ Len(none) = 0
  OBVIOUS
<1>2. \A i \in Slots : e.pool[i] = FreeEntry /\ NoteAt(e, i) = FreeSlot
  BY DEF EmptyStack, NoteAt, FreeEntry
<1>3. e.root = 0 /\ e.sorted = none
  BY DEF EmptyStack
<1>4. e.pool \in [Slots -> [note : Int, velocity : Velocities \cup {0},
                            flagged : BOOLEAN, next : Slots \cup {0}]]
  BY DEF EmptyStack, FreeEntry, FreeSlot
<1>5. Used(e) = {} /\ IsInjective(none) /\ RangeOf(none) = {}
  BY <1>1, <1>2 DEF Used, IsInjective, RangeOf
<1>6. Lists(e, none)
  BY <1>1, <1>3, <1>5 DEF Lists, Threads
<1>7. e \in [root : Slots \cup {0},
             pool : [Slots -> [note : Int, velocity : Velocities \cup {0},
                               flagged : BOOLEAN, next : Slots \cup {0}]],
             sorted : Seq(Slots)]
  BY <1>1, <1>3, <1>4 DEF EmptyStack
<1> QED
  BY <1>1, <1>2, <1>3, <1>5, <1>6, <1>7 DEF StackOK, Size

\* After WithRoomFor a slot is free, and none holds the note.
LEMMA RoomFacts ==
  ASSUME Capacity \in Nat \ {0}, NEW s, StackOK(s), NEW note,
         NEW t, t = WithRoomFor(s, note)
  PROVE  /\ StackOK(t)
         /\ Size(t) < Capacity
         /\ \A i \in Used(t) : NoteAt(t, i) # note
<1> DEFINE u == AfterNoteOff(s, note)
<1>1. StackOK(u) /\ \A i \in Used(u) : NoteAt(u, i) # note
  BY NoteOffFacts
<1>2. t = IF Size(u) = Capacity THEN AfterNoteOff(u, LeastRecentNote(u)) ELSE u
  BY DEF WithRoomFor
<1> HIDE DEF u
<1>3. Size(u) \in Nat /\ Size(u) <= Capacity /\ (Size(u) = Capacity => Used(u) = Slots)
  BY <1>1, SlotsFit DEF StackOK, Size
<1>4. CASE Size(u) # Capacity
  BY <1>1, <1>2, <1>3, <1>4
<1>5. CASE Size(u) = Capacity
  <2> DEFINE o == Listing(u)
             Ends == {i \in Slots : u.pool[i].next = 0}
             oldest == Max(Ends)
  <2>1. /\ o \in Seq(Slots) /\ Len(o) = Capacity
        /\ u.pool[o[Len(o)]].next = 0
    <3>1. Lists(u, o)
      BY <1>1, ListingFacts
    <3>2. o \in Seq(Slots) /\ Len(o) = Capacity
      BY <1>1, <1>5, <3>1, SameLength DEF Lists
    <3>3. Len(o) \in DOMAIN o
      BY <3>2
    <3> QED BY <3>1, <3>2, <3>3 DEF Lists, Threads
  <2>2. o[Len(o)] \in Ends
    BY <2>1
  <2>3. oldest \in Ends
    <3>1. Ends \in SUBSET (0..((Capacity + 1) - 1)) /\ Capacity + 1 \in Nat /\ Ends # {}
      BY <2>2 DEF Slots
    <3> HIDE DEF Ends
    <3> QED BY <3>1, MaxOfIndices
  <2>4. oldest \in Used(u) /\ LeastRecentNote(u) = NoteAt(u, oldest)
    BY <1>3, <1>5, <2>3 DEF LeastRecentNote
  <2> HIDE DEF oldest
  <2>5. /\ StackOK(t)
        /\ \A i \in Used(t) : i \in Used(u) /\ NoteAt(t, i) = NoteAt(u, i)
        /\ Size(t) = Size(u) - 1
    BY <1>1, <1>2, <1>5, <2>4, NoteOffFacts
  <2> QED BY <1>1, <1>3, <1>5, <2>5
<1> QED
  BY <1>4, <1>5

\* t is s with a new first key in a free slot.
Pushed(s, t, note, velocity) ==
    \E slot \in Slots :
        /\ slot \notin Used(s) /\ t.root = slot
        /\ t.pool[slot] = [note |-> note, velocity |-> velocity,
                           flagged |-> FALSE, next |-> s.root]
        /\ \A i \in Slots \ {slot} : t.pool[i] = s.pool[i]
        /\ Lists(t, <<slot>> \o Listing(s))

\* That is what Push does.
LEMMA PushFacts ==
  ASSUME Capacity \in Nat, NEW s, StackOK(s), Size(s) < Capacity,
         NEW note \in Int, note # FreeSlot, \A i \in Used(s) : NoteAt(s, i) # note,
         NEW velocity \in Velocities,
         NEW t, t = Push(s, note, velocity)
  PROVE  /\ StackOK(t)
         /\ Size(t) = Size(s) + 1
         /\ Pushed(s, t, note, velocity)
<1> DEFINE Free == {i \in Slots : NoteAt(s, i) = FreeSlot}
           slot == Min(Free)
           point == InsertionPoint(s, note)
           entry == [note |-> note, velocity |-> velocity, flagged |-> FALSE, next |-> s.root]
           o == Listing(s)
           r == <<slot>> \o o
<1>1. /\ s.pool \in [Slots -> [note : Int, velocity : Velocities \cup {0},
                               flagged : BOOLEAN, next : Slots \cup {0}]]
      /\ s.root \in Slots \cup {0}
      /\ s.sorted \in Seq(Slots) /\ IsInjective(s.sorted) /\ RangeOf(s.sorted) = Used(s)
      /\ Len(s.sorted) \in Nat /\ DOMAIN s.sorted = 1..Len(s.sorted)
  BY DEF StackOK
<1>2. /\ o \in Seq(Slots) /\ IsInjective(o) /\ RangeOf(o) = Used(s) /\ Threads(s, o)
      /\ DOMAIN o = 1..Len(o) /\ Len(o) \in Nat
  BY ListingFacts DEF Lists
<1>3. Free # {} /\ Free \in SUBSET Nat
  <2>1. Used(s) # Slots
    BY <1>1, SlotsFit DEF Size
  <2> QED BY <2>1 DEF Used, Slots
<1>4. slot \in Free
  <2> HIDE DEF Free
  <2> QED BY <1>3, MinOfNaturals
<1>5. slot \in Slots /\ slot \notin Used(s) /\ NoteAt(s, slot) = FreeSlot
  BY <1>4 DEF Used
<1>6. point \in 1..(Len(s.sorted) + 1)
  <2> DEFINE P == {i \in 1..Size(s) : NoteAt(s, s.sorted[i]) > note} \cup {Size(s) + 1}
  <2>1. P \in SUBSET Nat /\ P # {} /\ P \in SUBSET (1..(Len(s.sorted) + 1))
    BY <1>1 DEF Size
  <2>2. point = Min(P)
    BY DEF InsertionPoint
  <2> HIDE DEF P, point
  <2>3. point \in P
    BY <2>1, <2>2, MinOfNaturals
  <2> QED BY <2>1, <2>3
<1>7. t = [root |-> slot, pool |-> [s.pool EXCEPT ![slot] = entry],
           sorted |-> InsertAt(s.sorted, point, slot)]
  BY DEF Push
<1> HIDE DEF Free, slot, point, o
<1>8. /\ t.root = slot /\ t.pool[slot] = entry
      /\ \A i \in Slots \ {slot} : t.pool[i] = s.pool[i]
      /\ t.sorted = InsertAt(s.sorted, point, slot)
      /\ t.pool \in [Slots -> [note : Int, velocity : Velocities \cup {0},
                               flagged : BOOLEAN, next : Slots \cup {0}]]
  BY <1>1, <1>5, <1>7
<1>9. /\ NoteAt(t, slot) = note
      /\ \A i \in Slots \ {slot} : NoteAt(t, i) = NoteAt(s, i)
      /\ Used(t) = Used(s) \cup {slot}
  BY <1>5, <1>8 DEF NoteAt, Used
<1>10. /\ t.sorted \in Seq(Slots) /\ Len(t.sorted) = Len(s.sorted) + 1
       /\ IsInjective(t.sorted) /\ RangeOf(t.sorted) = Used(t)
  <2> HIDE DEF r, entry
  <2> DEFINE q == s.sorted
             u == InsertAt(q, point, slot)
  <2>0. q \in Seq(Slots) /\ slot \in Slots /\ point \in 1..(Len(q) + 1)
    BY <1>1, <1>5, <1>6
  <2>4. IsInjective(q) /\ slot \notin RangeOf(q)
    BY <1>1, <1>5
  <2>3. t.sorted = u
    BY <1>8
  <2> HIDE DEF q
  <2>1. u \in Seq(Slots) /\ Inserted(u, q, point, slot)
    BY <2>0, InsertAtFacts
  <2> HIDE DEF u
  <2>2. IsInjective(u) /\ RangeOf(u) = RangeOf(q) \cup {slot}
    BY <2>0, <2>4, <2>1, InsertedRange
  <2> QED BY <1>1, <1>9, <2>3, <2>1, <2>2 DEF q, Inserted
<1>11. /\ r \in Seq(Slots) /\ Len(r) = Len(o) + 1 /\ DOMAIN r = 1..(Len(o) + 1)
       /\ r[1] = slot /\ \A i \in 2..(Len(o) + 1) : r[i] = o[i - 1]
  BY <1>2, <1>5
<1> HIDE DEF r
<1>12. IsInjective(r) /\ RangeOf(r) = Used(t)
  <2>1. Inserted(r, o, 1, slot)
    BY <1>2, <1>11 DEF Inserted
  <2>2. 1 \in 1..(Len(o) + 1) /\ slot \notin RangeOf(o)
    BY <1>2, <1>5
  <2> QED BY <1>2, <1>5, <1>9, <1>11, <2>1, <2>2, InsertedRange
<1>13. Threads(t, r)
  <2>1. r # <<>> /\ t.root = r[1]
    BY <1>2, <1>8, <1>11
  <2>2. ASSUME NEW i \in 1..(Len(o) + 1)
        PROVE  t.pool[r[i]].next = IF i = Len(r) THEN 0 ELSE r[i + 1]
    <3>1. CASE i = 1
      <4>1. t.pool[r[1]].next = s.root
        BY <1>8, <1>11
      <4>2. s.root = IF o = <<>> THEN 0 ELSE o[1]
        BY <1>2 DEF Threads
      <4>3. o = <<>> <=> Len(o) = 0
        BY <1>2
      <4>4. Len(o) # 0 => r[2] = o[1]
        BY <1>2, <1>11
      <4> QED BY <1>2, <1>11, <3>1, <4>1, <4>2, <4>3, <4>4
    <3>2. CASE i # 1
      <4>1. i - 1 \in 1..Len(o) /\ r[i] = o[i - 1] /\ (i - 1 = Len(o) <=> i = Len(r))
        BY <1>2, <1>11, <3>2
      <4>2. o[i - 1] \in Slots \ {slot}
        <5>1. o[i - 1] \in Slots /\ o[i - 1] \in RangeOf(o)
          BY <1>2, <4>1 DEF RangeOf
        <5> QED BY <1>2, <1>5, <5>1
      <4>3. t.pool[r[i]].next = s.pool[o[i - 1]].next
        BY <1>8, <4>1, <4>2
      <4>4. s.pool[o[i - 1]].next = IF i - 1 = Len(o) THEN 0 ELSE o[(i - 1) + 1]
        BY <1>2, <4>1 DEF Threads
      <4>5. i # Len(r) => r[i + 1] = o[(i - 1) + 1]
        <5> SUFFICES ASSUME i # Len(r) PROVE r[i + 1] = o[(i - 1) + 1]
          OBVIOUS
        <5>1. i + 1 \in 2..(Len(o) + 1) /\ (i + 1) - 1 = (i - 1) + 1
          BY <1>2, <1>11
        <5> QED BY <1>11, <5>1
      <4> QED BY <4>1, <4>3, <4>4, <4>5
    <3> QED BY <3>1, <3>2
  <2> QED BY <1>11, <2>1, <2>2 DEF Threads
<1>14. Lists(t, r)
  BY <1>11, <1>12, <1>13 DEF Lists
<1>15. StackOK(t)
  <2>1. t \in [root : Slots \cup {0},
               pool : [Slots -> [note : Int, velocity : Velocities \cup {0},
                                 flagged : BOOLEAN, next : Slots \cup {0}]],
               sorted : Seq(Slots)]
    <3>1. t.sorted \in Seq(Slots) /\ t.root \in Slots \cup {0}
      BY <1>5, <1>8, <1>10
    <3>2. t = [root |-> t.root, pool |-> t.pool, sorted |-> t.sorted]
      BY <1>7
    <3> QED BY <1>8, <3>1, <3>2
  <2>2. \A i \in Slots : NoteAt(t, i) = FreeSlot => t.pool[i] = FreeEntry
    BY <1>8, <1>9 DEF StackOK, NoteAt
  <2>3. \A i, j \in Used(t) : NoteAt(t, i) = NoteAt(t, j) => i = j
    <3>1. \A i \in Used(s) : /\ i \in Slots \ {slot} /\ NoteAt(t, i) = NoteAt(s, i)
                             /\ NoteAt(t, i) # note
      BY <1>5, <1>9 DEF Used
    <3>2. \A i, j \in Used(s) : NoteAt(s, i) = NoteAt(s, j) => i = j
      BY DEF StackOK
    <3> QED BY <1>9, <3>1, <3>2
  <2> QED
    BY <1>10, <1>11, <1>14, <2>1, <2>2, <2>3 DEF StackOK
<1> QED
  BY <1>5, <1>8, <1>10, <1>14, <1>15 DEF Size, Pushed, r, o

\* After NoteOn the note is the most recent one.
LEMMA NoteOnFacts ==
  ASSUME Capacity \in Nat \ {0}, NEW s, StackOK(s),
         NEW note \in Int, note # FreeSlot, NEW velocity \in Velocities,
         NEW t, t = AfterNoteOn(s, note, velocity)
  PROVE  StackOK(t) /\ Size(t) # 0 /\ MostRecentNote(t) = note
<1> DEFINE u == WithRoomFor(s, note)
<1>1. StackOK(u) /\ Size(u) < Capacity /\ \A i \in Used(u) : NoteAt(u, i) # note
  BY RoomFacts
<1>2. t = Push(u, note, velocity)
  BY DEF AfterNoteOn
<1>3. Size(u) \in Nat
  BY <1>1 DEF StackOK, Size
<1> HIDE DEF u
<1>4. /\ StackOK(t) /\ Size(t) = Size(u) + 1
      /\ \E slot \in Slots :
            t.root = slot /\ t.pool[slot] = [note |-> note, velocity |-> velocity,
                                            flagged |-> FALSE, next |-> u.root]
  <2>1. Capacity \in Nat
    OBVIOUS
  <2>2. /\ StackOK(t) /\ Size(t) = Size(u) + 1
        /\ Pushed(u, t, note, velocity)
    BY <1>1, <1>2, <2>1, PushFacts
  <2>3. PICK slot \in Slots :
           t.root = slot /\ t.pool[slot] = [note |-> note, velocity |-> velocity,
                                           flagged |-> FALSE, next |-> u.root]
    BY <2>2 DEF Pushed
  <2> QED BY <2>2, <2>3
<1>5. t.root # 0 /\ NoteAt(t, t.root) = note
  BY <1>4 DEF Slots, NoteAt
<1> QED
  BY <1>3, <1>4, <1>5 DEF MostRecentNote

\* A release of another key leaves the most recent one where it is.
LEMMA TopStays ==
  ASSUME Capacity \in Nat, NEW s, StackOK(s), NEW note,
         NEW t, t = AfterNoteOff(s, note), MostRecentNote(s) # note
  PROVE  Size(t) # 0 => Size(s) # 0 /\ MostRecentNote(t) = MostRecentNote(s)
<1> DEFINE o == Listing(s)
<1>1. Lists(s, o)
  BY ListingFacts
<1> HIDE DEF o
<1>2. CASE t = s
  BY <1>2
<1>3. ASSUME NEW k \in 1..Len(o), NEW c \in 1..Len(s.sorted),
             NoteAt(s, o[k]) = note, s.sorted[c] = o[k], t = Unlinked(s, o, k, c)
      PROVE  Size(s) # 0 /\ MostRecentNote(t) = MostRecentNote(s)
  <2>1. /\ o \in Seq(Slots) /\ IsInjective(o) /\ DOMAIN o = 1..Len(o) /\ Len(o) # 0
        /\ o # <<>> /\ s.root = o[1] /\ 1 \in 1..Len(o) /\ o[1] \in Slots /\ o[1] # 0
    BY <1>1 DEF Lists, Threads, Slots
  <2>2. MostRecentNote(s) = NoteAt(s, o[1])
    BY <2>1 DEF MostRecentNote
  <2>3. k # 1 /\ o[1] # o[k]
    BY <1>3, <2>1, <2>2 DEF IsInjective
  <2>4. t.root = s.root
    BY <1>3, <2>3 DEF Unlinked
  <2>5. t.pool[o[1]].note = s.pool[o[1]].note
    BY <1>1, <1>3, <2>1, <2>3, UnlinkFacts
  <2>6. Size(s) # 0
    BY <1>1, <2>1, SameLength
  <2> QED BY <2>1, <2>2, <2>4, <2>5, <2>6 DEF MostRecentNote, NoteAt
<1>4. \/ t = s
      \/ \E k \in 1..Len(o), c \in 1..Len(s.sorted) :
            NoteAt(s, o[k]) = note /\ s.sorted[c] = o[k] /\ t = Unlinked(s, o, k, c)
  BY NoteOffResult DEF o
<1>5. CASE \E k \in 1..Len(o), c \in 1..Len(s.sorted) :
             NoteAt(s, o[k]) = note /\ s.sorted[c] = o[k] /\ t = Unlinked(s, o, k, c)
  <2>1. PICK k \in 1..Len(o), c \in 1..Len(s.sorted) :
             NoteAt(s, o[k]) = note /\ s.sorted[c] = o[k] /\ t = Unlinked(s, o, k, c)
    BY <1>5
  <2> QED BY <1>3, <2>1
<1> QED
  BY <1>2, <1>4, <1>5

-----------------------------------------------------------------------------
(* Sustaining a key.                                                       *)

\* A flag changes nothing but the flag.
LEMMA FlagFacts ==
  ASSUME NEW s, StackOK(s), NEW note, NEW t, t = AfterFlag(s, note)
  PROVE  StackOK(t) /\ \A x : Lists(s, x) => Lists(t, x)
<1> DEFINE Slot == [note : Int, velocity : Velocities \cup {0},
                    flagged : BOOLEAN, next : Slots \cup {0}]
<1>1. /\ s \in [root : Slots \cup {0}, pool : [Slots -> Slot], sorted : Seq(Slots)]
      /\ \A i \in Slots : NoteAt(s, i) = FreeSlot => s.pool[i] = FreeEntry
      /\ \A i, j \in Used(s) : NoteAt(s, i) = NoteAt(s, j) => i = j
      /\ IsInjective(s.sorted) /\ RangeOf(s.sorted) = Used(s)
  BY DEF StackOK
<1>2. PICK o \in Seq(Slots) : Lists(s, o)
  BY DEF StackOK
<1>3. /\ t.root = s.root /\ t.sorted = s.sorted
      /\ t.pool = [i \in Slots |-> IF NoteAt(s, i) = note /\ s.pool[i].velocity # 0
                                   THEN [s.pool[i] EXCEPT !.flagged = TRUE] ELSE s.pool[i]]
      /\ DOMAIN t = {"root", "pool", "sorted"}
  BY <1>1 DEF AfterFlag
<1>4. ASSUME NEW i \in Slots
      PROVE  /\ t.pool[i] \in Slot
             /\ NoteAt(t, i) = NoteAt(s, i) /\ t.pool[i].next = s.pool[i].next
             /\ s.pool[i].velocity = 0 => t.pool[i] = s.pool[i]
  <2>1. s.pool[i] \in Slot
    BY <1>1
  <2>2. \/ t.pool[i] = s.pool[i]
        \/ t.pool[i] = [s.pool[i] EXCEPT !.flagged = TRUE] /\ s.pool[i].velocity # 0
    BY <1>3
  <2> QED BY <2>1, <2>2 DEF NoteAt
<1>5. t = [root |-> t.root, pool |-> t.pool, sorted |-> t.sorted]
  <2> DEFINE f == [i \in Slots |-> IF NoteAt(s, i) = note /\ s.pool[i].velocity # 0
                                  THEN [s.pool[i] EXCEPT !.flagged = TRUE] ELSE s.pool[i]]
  <2>1. t = [s EXCEPT !.pool = f]
    BY DEF AfterFlag
  <2> HIDE DEF f
  <2>2. s = [root |-> s.root, pool |-> s.pool, sorted |-> s.sorted]
    BY <1>1
  <2>3. t = [root |-> s.root, pool |-> f, sorted |-> s.sorted]
    BY <2>1, <2>2
  <2> QED BY <2>3
<1>6. t.pool \in [Slots -> Slot]
  BY <1>3, <1>4
<1>7. t \in [root : Slots \cup {0}, pool : [Slots -> Slot], sorted : Seq(Slots)]
  <2> HIDE DEF Slot
  <2>1. t.root \in Slots \cup {0} /\ t.sorted \in Seq(Slots)
    BY <1>1, <1>3
  <2> QED BY <1>5, <1>6, <2>1
<1>8. \A i \in Slots : NoteAt(t, i) = FreeSlot => t.pool[i] = FreeEntry
  <2>1. FreeEntry.velocity = 0
    BY DEF FreeEntry
  <2> QED BY <1>1, <1>4, <2>1
<1>9. Used(t) = Used(s)
  BY <1>4 DEF Used
<1>10. \A i, j \in Used(t) : NoteAt(t, i) = NoteAt(t, j) => i = j
  BY <1>1, <1>4, <1>9 DEF Used
<1>11. ASSUME NEW x, Lists(s, x)
       PROVE  Lists(t, x)
  <2>1. x \in Seq(Slots) /\ \A i \in DOMAIN x : x[i] \in Slots
    BY <1>11 DEF Lists
  <2>2. Threads(s, x)
    BY <1>11 DEF Lists
  <2>3. Threads(t, x)
    BY <1>3, <1>4, <2>1, <2>2 DEF Threads
  <2> QED BY <1>9, <1>11, <2>3 DEF Lists
<1> QED
  BY <1>1, <1>2, <1>3, <1>7, <1>8, <1>9, <1>10, <1>11 DEF StackOK

-----------------------------------------------------------------------------
(* The notes held.                                                         *)

HeldNotes(s) == {NoteAt(s, i) : i \in Used(s)}

\* A release takes its note away, and no other comes.
LEMMA OffHolds ==
  ASSUME Capacity \in Nat, NEW s, StackOK(s), NEW note, NEW t, t = AfterNoteOff(s, note)
  PROVE  HeldNotes(t) \subseteq HeldNotes(s) \ {note}
<1>1. /\ \A i \in Used(t) : i \in Used(s) /\ NoteAt(t, i) = NoteAt(s, i)
      /\ \A i \in Used(t) : NoteAt(t, i) # note
  BY NoteOffFacts
<1> QED
  BY <1>1 DEF HeldNotes

\* A press adds its note only.
LEMMA OnHolds ==
  ASSUME Capacity \in Nat \ {0}, NEW s, StackOK(s),
         NEW note \in Int, note # FreeSlot, NEW velocity \in Velocities,
         NEW t, t = AfterNoteOn(s, note, velocity)
  PROVE  HeldNotes(t) \subseteq HeldNotes(s) \cup {note}
<1> DEFINE v == AfterNoteOff(s, note)
           u == WithRoomFor(s, note)
<1>0. Capacity \in Nat
  OBVIOUS
<1>1. StackOK(v) /\ HeldNotes(v) \subseteq HeldNotes(s)
  BY <1>0, NoteOffFacts, OffHolds
<1>2. u = v \/ u = AfterNoteOff(v, LeastRecentNote(v))
  BY DEF WithRoomFor
<1>3. HeldNotes(u) \subseteq HeldNotes(s)
  <2> HIDE DEF u, v
  <2> QED BY <1>0, <1>1, <1>2, OffHolds
<1>4. StackOK(u) /\ Size(u) < Capacity /\ \A i \in Used(u) : NoteAt(u, i) # note
  BY RoomFacts
<1>5. t = Push(u, note, velocity)
  BY DEF AfterNoteOn
<1> HIDE DEF u, v
<1>6. StackOK(t) /\ Size(t) = Size(u) + 1 /\ Pushed(u, t, note, velocity)
  BY <1>0, <1>4, <1>5, PushFacts
<1>7. PICK slot \in Slots :
         /\ t.pool[slot] = [note |-> note, velocity |-> velocity,
                            flagged |-> FALSE, next |-> u.root]
         /\ \A i \in Slots \ {slot} : t.pool[i] = u.pool[i]
  BY <1>6 DEF Pushed
<1>8. t.pool[slot].note = note
  BY <1>7
<1>9. ASSUME NEW i \in Used(t)
      PROVE  \/ NoteAt(t, i) = note
             \/ i \in Used(u) /\ NoteAt(t, i) = NoteAt(u, i)
  BY <1>7, <1>8 DEF Used, NoteAt
<1>10. HeldNotes(t) \subseteq HeldNotes(u) \cup {note}
  BY <1>9 DEF HeldNotes
<1> QED
  BY <1>3, <1>10

\* The most recent note is held, if any is.
LEMMA TopIsHeld ==
  ASSUME Capacity \in Nat, NEW s, StackOK(s)
  PROVE  /\ HeldNotes(s) = {} => Size(s) = 0
         /\ s.root # 0 => MostRecentNote(s) \in HeldNotes(s)
         /\ FreeSlot \notin HeldNotes(s)
<1>1. FreeSlot \notin HeldNotes(s)
  BY DEF HeldNotes, Used
<1>2. ASSUME HeldNotes(s) = {}
      PROVE  Size(s) = 0
  <2>1. RangeOf(s.sorted) = {} /\ s.sorted \in Seq(Slots)
    BY <1>2 DEF StackOK, HeldNotes
  <2>2. ~(1 \in DOMAIN s.sorted)
    BY <2>1 DEF RangeOf
  <2>3. DOMAIN s.sorted = 1..Len(s.sorted) /\ Len(s.sorted) \in Nat
    BY <2>1
  <2> QED BY <2>2, <2>3 DEF Size
<1>3. ASSUME s.root # 0
      PROVE  MostRecentNote(s) \in HeldNotes(s)
  <2>1. Lists(s, Listing(s))
    BY ListingFacts
  <2>2. PICK o : Lists(s, o)
    BY <2>1
  <2>3. o # <<>> /\ s.root = o[1] /\ o \in Seq(Slots)
    BY <1>3, <2>2 DEF Lists, Threads
  <2>4. 1 \in DOMAIN o
    BY <2>3
  <2>5. s.root \in Used(s)
    BY <2>2, <2>3, <2>4 DEF Lists, RangeOf
  <2> QED BY <1>3, <2>5 DEF MostRecentNote, HeldNotes
<1> QED
  BY <1>1, <1>2, <1>3

-----------------------------------------------------------------------------
(* The stack implements KeyStack.                                          *)

KeyOf(s, slot) == [note     |-> s.pool[slot].note,
                   velocity |-> s.pool[slot].velocity,
                   flagged  |-> s.pool[slot].flagged]

\* The keys in the order of the list: Held, for any stack.
Contents(s) == [i \in 1..Len(Listing(s)) |-> KeyOf(s, Listing(s)[i])]

KeyRecords == [note : Int, velocity : Velocities \cup {0}, flagged : BOOLEAN]

\* A sequence of keys without a note.
Minus(keys, note) ==
    LET places == {i \in DOMAIN keys : keys[i].note = note}
    IN  IF places = {} THEN keys ELSE RemoveAt(keys, CHOOSE i \in places : TRUE)

\* Each key of the list is there once.
LEMMA ContentsFacts ==
  ASSUME Capacity \in Nat, NEW s, StackOK(s), NEW o, Lists(s, o)
  PROVE  /\ o \in Seq(Slots) /\ Len(o) \in Nat
         /\ Contents(s) \in Seq(KeyRecords) /\ Len(Contents(s)) = Len(o)
         /\ \A i \in 1..Len(o) : Contents(s)[i] = KeyOf(s, o[i])
         /\ \A i, j \in 1..Len(o) : Contents(s)[i].note = Contents(s)[j].note => i = j
<1>1. o = Listing(s)
  BY ListingFacts
<1>2. o \in Seq(Slots) /\ Len(o) \in Nat /\ DOMAIN o = 1..Len(o) /\ IsInjective(o)
  BY DEF Lists
<1>3. Contents(s) = [i \in 1..Len(o) |-> KeyOf(s, o[i])]
  BY <1>1 DEF Contents
<1>4. ASSUME NEW i \in 1..Len(o)
      PROVE  KeyOf(s, o[i]) \in KeyRecords /\ KeyOf(s, o[i]).note = NoteAt(s, o[i])
  <2>1. o[i] \in Slots
    BY <1>2
  <2> QED BY <2>1 DEF StackOK, KeyOf, KeyRecords, NoteAt
<1>5. Contents(s) \in [1..Len(o) -> KeyRecords]
  BY <1>3, <1>4
<1>6. Contents(s) \in Seq(KeyRecords) /\ Len(Contents(s)) = Len(o)
  <2> HIDE DEF KeyRecords
  <2> QED BY <1>2, <1>5
<1>7. \A i, j \in 1..Len(o) : NoteAt(s, o[i]) = NoteAt(s, o[j]) => i = j
  <2>1. \A i \in 1..Len(o) : o[i] \in Used(s)
    BY <1>2 DEF Lists, RangeOf
  <2>2. \A x, y \in Used(s) : NoteAt(s, x) = NoteAt(s, y) => x = y
    BY DEF StackOK
  <2> QED BY <1>2, <2>1, <2>2 DEF IsInjective
<1> QED
  BY <1>2, <1>3, <1>4, <1>6, <1>7

\* Two sequences of the same elements.
LEMMA SameSequence ==
  ASSUME NEW S, NEW a \in Seq(S), NEW b \in Seq(S), Len(a) = Len(b),
         \A i \in 1..Len(a) : a[i] = b[i]
  PROVE  a = b
OBVIOUS

\* A release takes its key out of the sequence.
LEMMA OffContents ==
  ASSUME Capacity \in Nat, NEW s, StackOK(s), NEW note, NEW t, t = AfterNoteOff(s, note)
  PROVE  Contents(t) = Minus(Contents(s), note)
<1> DEFINE o == Listing(s)
           keys == Contents(s)
           places == {i \in DOMAIN keys : keys[i].note = note}
<1>1. Lists(s, o)
  BY ListingFacts
<1>2. \/ t = s /\ \A i \in Used(s) : NoteAt(s, i) # note
      \/ \E k \in 1..Len(o), c \in 1..Len(s.sorted) :
            NoteAt(s, o[k]) = note /\ s.sorted[c] = o[k] /\ t = Unlinked(s, o, k, c)
  BY NoteOffResult
<1> HIDE DEF o
<1>3. /\ o \in Seq(Slots) /\ Len(o) \in Nat
      /\ keys \in Seq(KeyRecords) /\ Len(keys) = Len(o)
      /\ \A i \in 1..Len(o) : keys[i] = KeyOf(s, o[i])
      /\ \A i, j \in 1..Len(o) : keys[i].note = keys[j].note => i = j
  BY <1>1, ContentsFacts
<1> HIDE DEF keys
<1>4. DOMAIN keys = 1..Len(o)
  BY <1>3
<1>5. \A i \in 1..Len(o) : o[i] \in Slots /\ o[i] \in Used(s) /\ keys[i].note = NoteAt(s, o[i])
  <2> SUFFICES ASSUME NEW i \in 1..Len(o)
               PROVE  o[i] \in Slots /\ o[i] \in Used(s) /\ keys[i].note = NoteAt(s, o[i])
    OBVIOUS
  <2>1. KeyOf(s, o[i]).note = NoteAt(s, o[i])
    BY DEF KeyOf, NoteAt
  <2>2. keys[i] = KeyOf(s, o[i])
    BY <1>3
  <2> QED BY <1>1, <1>3, <2>1, <2>2 DEF Lists, RangeOf
<1>6. CASE t = s /\ \A i \in Used(s) : NoteAt(s, i) # note
  <2>1. places = {}
    BY <1>4, <1>5, <1>6
  <2> QED BY <1>6, <2>1 DEF Minus, keys
<1>7. ASSUME NEW k \in 1..Len(o), NEW c \in 1..Len(s.sorted),
             NoteAt(s, o[k]) = note, s.sorted[c] = o[k], t = Unlinked(s, o, k, c)
      PROVE  Contents(t) = Minus(keys, note)
  <2> DEFINE r == RemoveAt(o, k)
  <2>1. /\ StackOK(t) /\ Lists(t, r)
        /\ \A i \in Slots \ {o[k]} : KeyOf(t, i) = KeyOf(s, i)
    BY <1>1, <1>7, UnlinkFacts DEF KeyOf
  <2>2. places = {k}
    BY <1>3, <1>4, <1>5, <1>7
  <2>3. Minus(keys, note) = RemoveAt(keys, k)
    BY <2>2 DEF Minus
  <2>4. /\ Len(r) = Len(o) - 1
        /\ \A i \in 1..(Len(o) - 1) : r[i] = IF i < k THEN o[i] ELSE o[i + 1]
    BY <1>3, RemoveAtFacts
  <2>5. /\ RemoveAt(keys, k) \in Seq(KeyRecords) /\ Len(RemoveAt(keys, k)) = Len(o) - 1
        /\ \A i \in 1..(Len(o) - 1) :
              RemoveAt(keys, k)[i] = IF i < k THEN keys[i] ELSE keys[i + 1]
    <3>1. k \in 1..Len(keys)
      BY <1>3
    <3> QED BY <1>3, <3>1, RemoveAtFacts
  <2> HIDE DEF r
  <2>6. /\ Contents(t) \in Seq(KeyRecords) /\ Len(Contents(t)) = Len(o) - 1
        /\ \A i \in 1..(Len(o) - 1) : Contents(t)[i] = KeyOf(t, r[i])
    BY <2>1, <2>4, ContentsFacts
  <2>7. ASSUME NEW i \in 1..(Len(o) - 1)
        PROVE  Contents(t)[i] = RemoveAt(keys, k)[i]
    <3>1. PICK j \in 1..Len(o) : j # k /\ j = IF i < k THEN i ELSE i + 1
      BY <1>3
    <3>2. r[i] = o[j] /\ RemoveAt(keys, k)[i] = keys[j]
      BY <2>4, <2>5, <3>1
    <3>3. o[j] \in Slots \ {o[k]}
      BY <1>3, <1>5, <3>1
    <3>4. KeyOf(t, o[j]) = KeyOf(s, o[j]) /\ keys[j] = KeyOf(s, o[j])
      BY <1>3, <2>1, <3>3
    <3>5. Contents(t)[i] = KeyOf(t, r[i])
      BY <2>6
    <3> QED BY <3>2, <3>4, <3>5
  <2>8. Contents(t) = RemoveAt(keys, k)
    BY <2>5, <2>6, <2>7, SameSequence
  <2> QED BY <2>3, <2>8
<1>8. CASE \E k \in 1..Len(o), c \in 1..Len(s.sorted) :
             NoteAt(s, o[k]) = note /\ s.sorted[c] = o[k] /\ t = Unlinked(s, o, k, c)
  <2>1. PICK k \in 1..Len(o), c \in 1..Len(s.sorted) :
             NoteAt(s, o[k]) = note /\ s.sorted[c] = o[k] /\ t = Unlinked(s, o, k, c)
    BY <1>8
  <2> QED BY <1>7, <2>1 DEF keys
<1> QED
  BY <1>2, <1>6, <1>8

\* In a full stack, the end of the list goes.
LEMMA RoomContents ==
  ASSUME Capacity \in Nat \ {0}, NEW s, StackOK(s), NEW note, NEW t, t = WithRoomFor(s, note),
         NEW others, others = Minus(Contents(s), note)
  PROVE  /\ others \in Seq(KeyRecords)
         /\ Contents(t) = IF Len(others) = Capacity THEN Front(others) ELSE others
<1> DEFINE u == AfterNoteOff(s, note)
           o == Listing(u)
           oldest == LeastRecentNote(u)
<1>0. Capacity \in Nat
  OBVIOUS
<1>1. StackOK(u) /\ Contents(u) = others
  BY <1>0, NoteOffFacts, OffContents
<1>2. t = IF Size(u) = Capacity THEN AfterNoteOff(u, oldest) ELSE u
  BY DEF WithRoomFor
<1> HIDE DEF u
<1>3. Lists(u, o)
  BY <1>0, <1>1, ListingFacts
<1> HIDE DEF o
<1>4. /\ o \in Seq(Slots) /\ Len(o) \in Nat
      /\ others \in Seq(KeyRecords) /\ Len(others) = Len(o)
      /\ \A i \in 1..Len(o) : others[i] = KeyOf(u, o[i])
      /\ \A i, j \in 1..Len(o) : others[i].note = others[j].note => i = j
  <2> HIDE DEF oldest
  <2> QED BY <1>0, <1>1, <1>3, ContentsFacts
<1>5. Size(u) = Len(o)
  BY <1>1, <1>3, SameLength
<1>6. CASE Size(u) = Capacity
  <2> DEFINE n == Len(o)
             Ends == {i \in Slots : u.pool[i].next = 0}
  <2>1. n \in 1..Len(o) /\ n = Capacity /\ RangeOf(o) = Slots /\ DOMAIN o = 1..Len(o)
    <3>0. Len(o) \in Nat /\ Len(o) = Capacity /\ o \in Seq(Slots)
      BY <1>4, <1>5, <1>6
    <3>1. n = Capacity /\ n \in 1..Len(o) /\ DOMAIN o = 1..Len(o)
      BY <3>0
    <3>2. o \in Seq(Slots) /\ IsInjective(o)
      BY <1>3 DEF Lists
    <3>3. RangeOf(o) = Slots
      BY <1>0, <3>1, <3>2, SlotsFit
    <3> QED BY <3>1, <3>3
  <2>2. Threads(u, o)
    BY <1>3 DEF Lists
  <2>3. Ends = {o[n]}
    <3>1. ASSUME NEW i \in 1..Len(o)
          PROVE  o[i] \in Slots /\ (u.pool[o[i]].next = 0 <=> i = n)
      <4>1. u.pool[o[i]].next = IF i = n THEN 0 ELSE o[i + 1]
        BY <2>1, <2>2 DEF Threads
      <4>2. o[i] \in Slots /\ (i # n => o[i + 1] \in Slots)
        BY <1>4
      <4> QED BY <4>1, <4>2 DEF Slots
    <3> QED BY <2>1, <3>1 DEF RangeOf
  <2>4. Max(Ends) = o[n]
    <3> DEFINE m == o[n] + 1
    <3>0. o[n] \in Nat
      BY <1>4, <2>1 DEF Slots
    <3>1. Ends \in SUBSET (0..(m - 1)) /\ m \in Nat /\ Ends # {}
      <4>1. o[n] \in 0..(m - 1) /\ m \in Nat
        BY <3>0
      <4> HIDE DEF Ends, m, n
      <4> QED BY <2>3, <4>1
    <3> HIDE DEF Ends, m
    <3>2. Max(Ends) \in Ends
      BY <3>1, MaxOfIndices
    <3> QED BY <2>3, <3>2
  <2>5. oldest = NoteAt(u, o[n]) /\ others[n].note = oldest
    <3>1. oldest = NoteAt(u, o[n])
      BY <2>4 DEF LeastRecentNote
    <3>2. others[n] = KeyOf(u, o[n])
      BY <1>4, <2>1
    <3>3. KeyOf(u, o[n]).note = NoteAt(u, o[n])
      BY DEF KeyOf, NoteAt
    <3> QED BY <3>1, <3>2, <3>3
  <2> HIDE DEF oldest, Ends
  <2>6. {i \in DOMAIN others : others[i].note = oldest} = {n}
    BY <1>4, <2>1, <2>5
  <2>7. Contents(t) = Minus(others, oldest)
    BY <1>0, <1>1, <1>2, <1>6, OffContents
  <2>8. Contents(t) = RemoveAt(others, n)
    BY <2>6, <2>7 DEF Minus
  <2>9. /\ RemoveAt(others, n) \in Seq(KeyRecords) /\ Len(RemoveAt(others, n)) = n - 1
        /\ \A i \in 1..(n - 1) :
              RemoveAt(others, n)[i] = IF i < n THEN others[i] ELSE others[i + 1]
    <3>1. n \in 1..Len(others) /\ Len(others) = n
      BY <1>4, <2>1
    <3>2. PICK q \in Seq(KeyRecords) : q = others
      BY <1>4
    <3> HIDE DEF n
    <3>3. /\ RemoveAt(q, n) \in Seq(KeyRecords)
          /\ Len(RemoveAt(q, n)) = Len(q) - 1
          /\ \A i \in 1..(Len(q) - 1) :
                RemoveAt(q, n)[i] = IF i < n THEN q[i] ELSE q[i + 1]
      BY <3>1, <3>2, RemoveAtFacts
    <3> QED BY <3>1, <3>2, <3>3
  <2>10. /\ Front(others) \in Seq(KeyRecords) /\ Len(Front(others)) = n - 1
         /\ \A i \in 1..(n - 1) : Front(others)[i] = others[i]
    <3> HIDE DEF KeyRecords
    <3> QED BY <1>4, <2>1 DEF Front
  <2>11. RemoveAt(others, n) = Front(others)
    <3>1. n \in Int
      BY <1>4
    <3> HIDE DEF n
    <3>2. \A i \in 1..Len(RemoveAt(others, n)) : RemoveAt(others, n)[i] = Front(others)[i]
      BY <2>9, <2>10, <3>1
    <3> QED BY <2>9, <2>10, <3>2, SameSequence
  <2> QED BY <1>4, <1>5, <1>6, <2>8, <2>11
<1>7. CASE Size(u) # Capacity
  BY <1>1, <1>2, <1>4, <1>5, <1>7
<1> QED
  BY <1>4, <1>6, <1>7

\* A new key comes first.
LEMMA PushContents ==
  ASSUME Capacity \in Nat, NEW s, StackOK(s), Size(s) < Capacity,
         NEW note \in Int, note # FreeSlot, \A i \in Used(s) : NoteAt(s, i) # note,
         NEW velocity \in Velocities, NEW t, t = Push(s, note, velocity)
  PROVE  Contents(t) = <<[note |-> note, velocity |-> velocity, flagged |-> FALSE]>> \o Contents(s)
<1>1. StackOK(t) /\ Size(t) = Size(s) + 1 /\ Pushed(s, t, note, velocity)
  BY PushFacts
<1> DEFINE key == [note |-> note, velocity |-> velocity, flagged |-> FALSE]
           o == Listing(s)
           keys == Contents(s)
<1>2. PICK slot \in Slots :
            /\ slot \notin Used(s)
            /\ t.pool[slot] = [note |-> note, velocity |-> velocity,
                               flagged |-> FALSE, next |-> s.root]
            /\ \A i \in Slots \ {slot} : t.pool[i] = s.pool[i]
            /\ Lists(t, <<slot>> \o o)
  BY <1>1 DEF Pushed
<1>3. Lists(s, o)
  BY ListingFacts
<1> HIDE DEF o
<1>4. /\ o \in Seq(Slots) /\ Len(o) \in Nat
      /\ keys \in Seq(KeyRecords) /\ Len(keys) = Len(o)
      /\ \A i \in 1..Len(o) : keys[i] = KeyOf(s, o[i])
  BY <1>3, ContentsFacts
<1> DEFINE r == <<slot>> \o o
<1>5. Len(r) = Len(o) + 1 /\ r[1] = slot /\ \A i \in 1..Len(o) : r[i + 1] = o[i]
  BY <1>4
<1> HIDE DEF r
<1>6. /\ Contents(t) \in Seq(KeyRecords) /\ Len(Contents(t)) = Len(o) + 1
      /\ \A i \in 1..(Len(o) + 1) : Contents(t)[i] = KeyOf(t, r[i])
  <2>1. Lists(t, r)
    BY <1>2 DEF r
  <2> QED BY <1>1, <1>5, <2>1, ContentsFacts
<1> HIDE DEF keys
<1>7. KeyOf(t, slot) = key /\ key \in KeyRecords
  BY <1>2 DEF KeyOf, KeyRecords
<1> HIDE DEF key
<1>8. ASSUME NEW i \in 1..Len(o)
      PROVE  Contents(t)[i + 1] = keys[i]
  <2>1. o[i] \in Slots \ {slot}
    <3>1. o[i] \in RangeOf(o)
      BY <1>4 DEF RangeOf
    <3> QED BY <1>2, <1>3, <1>4, <3>1 DEF Lists
  <2>2. KeyOf(t, o[i]) = KeyOf(s, o[i])
    BY <1>2, <2>1 DEF KeyOf
  <2>3. Contents(t)[i + 1] = KeyOf(t, r[i + 1])
    BY <1>4, <1>6
  <2> QED BY <1>4, <1>5, <2>2, <2>3
<1>9. Contents(t)[1] = key
  BY <1>4, <1>5, <1>6, <1>7
<1>10. /\ <<key>> \o keys \in Seq(KeyRecords) /\ Len(<<key>> \o keys) = Len(o) + 1
       /\ (<<key>> \o keys)[1] = key
       /\ \A i \in 1..Len(o) : (<<key>> \o keys)[i + 1] = keys[i]
  <2> HIDE DEF KeyRecords
  <2> QED BY <1>4, <1>7
<1>11. ASSUME NEW i \in 1..(Len(o) + 1)
       PROVE  Contents(t)[i] = (<<key>> \o keys)[i]
  <2>1. i = 1 \/ \E j \in 1..Len(o) : i = j + 1
    <3>1. i # 1 => i - 1 \in 1..Len(o) /\ i = (i - 1) + 1
      BY <1>4
    <3> QED BY <3>1
  <2> QED BY <1>8, <1>9, <1>10, <2>1
<1>12. Contents(t) = <<key>> \o keys
  <2> DEFINE b == <<key>> \o keys
  <2>1. b \in Seq(KeyRecords) /\ Len(b) = Len(o) + 1
    BY <1>10
  <2>2. \A i \in 1..Len(Contents(t)) : Contents(t)[i] = b[i]
    BY <1>6, <1>11
  <2> HIDE DEF b
  <2>3. Contents(t) = b
    BY <1>6, <2>1, <2>2, SameSequence
  <2> QED BY <2>3 DEF b
<1> QED
  BY <1>12 DEF key, keys

\* A new key before the others, of which a full stack forgets the oldest.
Topped(note, velocity, others) ==
    <<[note |-> note, velocity |-> velocity, flagged |-> FALSE]>>
        \o (IF Len(others) = Capacity THEN Front(others) ELSE others)

\* A press puts its key on top, and forgets the oldest other in a full stack.
LEMMA OnContents ==
  ASSUME Capacity \in Nat \ {0}, NEW s, StackOK(s),
         NEW note \in Int, note # FreeSlot, NEW velocity \in Velocities,
         NEW t, t = AfterNoteOn(s, note, velocity)
  PROVE  Contents(t) = Topped(note, velocity, Minus(Contents(s), note))
<1> DEFINE u == WithRoomFor(s, note)
<1>1. StackOK(u) /\ Size(u) < Capacity /\ \A i \in Used(u) : NoteAt(u, i) # note
  BY RoomFacts
<1>2. t = Push(u, note, velocity)
  BY DEF AfterNoteOn
<1> DEFINE others == Minus(Contents(s), note)
<1>3. Contents(u) = IF Len(others) = Capacity THEN Front(others) ELSE others
  BY RoomContents
<1> HIDE DEF u, others
<1>4. Contents(t) = <<[note |-> note, velocity |-> velocity, flagged |-> FALSE]>> \o Contents(u)
  <2>1. Capacity \in Nat
    OBVIOUS
  <2> QED BY <1>1, <1>2, <2>1, PushContents
<1> QED
  BY <1>3, <1>4 DEF Topped, others

\* A key released under the pedal keeps its place.
LEMMA FlagContents ==
  ASSUME Capacity \in Nat, NEW s, StackOK(s), NEW note, NEW t, t = AfterFlag(s, note)
  PROVE  Contents(t) = [i \in DOMAIN Contents(s) |->
                           IF Contents(s)[i].note = note /\ Contents(s)[i].velocity # 0
                           THEN [Contents(s)[i] EXCEPT !.flagged = TRUE]
                           ELSE Contents(s)[i]]
<1> DEFINE o == Listing(s)
           keys == Contents(s)
<1>1. Lists(s, o) /\ StackOK(t) /\ \A x : Lists(s, x) => Lists(t, x)
  BY ListingFacts, FlagFacts
<1>2. Lists(t, o)
  BY <1>1
<1> HIDE DEF o
<1>3. /\ o \in Seq(Slots) /\ Len(o) \in Nat
      /\ keys \in Seq(KeyRecords) /\ Len(keys) = Len(o)
      /\ \A i \in 1..Len(o) : keys[i] = KeyOf(s, o[i])
  BY <1>1, ContentsFacts
<1>4. /\ Contents(t) \in Seq(KeyRecords) /\ Len(Contents(t)) = Len(o)
      /\ \A i \in 1..Len(o) : Contents(t)[i] = KeyOf(t, o[i])
  BY <1>1, <1>2, ContentsFacts
<1> HIDE DEF keys
<1>5. ASSUME NEW i \in 1..Len(o)
      PROVE  Contents(t)[i] = IF keys[i].note = note /\ keys[i].velocity # 0
                              THEN [keys[i] EXCEPT !.flagged = TRUE] ELSE keys[i]
  <2>1. o[i] \in Slots
    BY <1>3
  <2>2. s.pool[o[i]] \in [note : Int, velocity : Velocities \cup {0},
                          flagged : BOOLEAN, next : Slots \cup {0}]
    BY <2>1 DEF StackOK
  <2>3. t.pool[o[i]] = IF NoteAt(s, o[i]) = note /\ s.pool[o[i]].velocity # 0
                       THEN [s.pool[o[i]] EXCEPT !.flagged = TRUE] ELSE s.pool[o[i]]
    BY <2>1 DEF AfterFlag, StackOK
  <2>4. keys[i] = KeyOf(s, o[i]) /\ Contents(t)[i] = KeyOf(t, o[i])
    BY <1>3, <1>4
  <2>5. /\ keys[i].note = NoteAt(s, o[i]) /\ keys[i].velocity = s.pool[o[i]].velocity
        /\ keys[i] = [note |-> s.pool[o[i]].note, velocity |-> s.pool[o[i]].velocity,
                      flagged |-> s.pool[o[i]].flagged]
    BY <2>4 DEF KeyOf, NoteAt
  <2>6. CASE NoteAt(s, o[i]) = note /\ s.pool[o[i]].velocity # 0
    <3>1. Contents(t)[i] = [note |-> s.pool[o[i]].note, velocity |-> s.pool[o[i]].velocity,
                            flagged |-> TRUE]
      BY <2>2, <2>3, <2>4, <2>6 DEF KeyOf
    <3>2. keys[i] \in KeyRecords /\ Contents(t)[i] \in KeyRecords
      BY <1>3, <1>4
    <3> DEFINE a == keys[i]
               b == Contents(t)[i]
               c == [a EXCEPT !.flagged = TRUE]
    <3>3. b.note = a.note /\ b.velocity = a.velocity /\ b.flagged = TRUE
      BY <2>5, <3>1
    <3> HIDE DEF a, b
    <3>4. c \in KeyRecords /\ c.note = a.note /\ c.velocity = a.velocity /\ c.flagged = TRUE
      BY <3>2 DEF KeyRecords, a
    <3> HIDE DEF c
    <3>5. b = c
      BY <3>2, <3>3, <3>4 DEF KeyRecords, b
    <3> QED BY <2>5, <2>6, <3>5 DEF a, b, c
  <2>7. CASE ~(NoteAt(s, o[i]) = note /\ s.pool[o[i]].velocity # 0)
    <3>1. Contents(t)[i] = KeyOf(s, o[i])
      BY <2>3, <2>4, <2>7 DEF KeyOf
    <3> QED BY <2>4, <2>5, <2>7, <3>1
  <2> QED BY <2>6, <2>7
<1>6. Contents(t) = [i \in 1..Len(o) |-> Contents(t)[i]] /\ DOMAIN keys = 1..Len(o)
  BY <1>3, <1>4
<1>7. Contents(t) = [i \in DOMAIN keys |-> IF keys[i].note = note /\ keys[i].velocity # 0
                                           THEN [keys[i] EXCEPT !.flagged = TRUE]
                                           ELSE keys[i]]
  BY <1>5, <1>6
<1> QED
  BY <1>7 DEF keys

\* Inductive.
StackInv == StackOK(stack)

\* Held, the refinement mapping, is Contents of the variable.
LEMMA HeldContents == Held = Contents(stack)
BY DEF Held, Contents, KeyOf

LEMMA StackStarts ==
  ASSUME Capacity \in Nat
  PROVE  Init => StackInv /\ Keys!KeysInit
<1>1. ASSUME Init
      PROVE  StackInv /\ Held = <<>>
  <2>1. StackOK(stack) /\ Lists(stack, <<>>)
    BY <1>1, EmptyFacts DEF Init
  <2>2. Contents(stack) \in Seq(KeyRecords) /\ Len(Contents(stack)) = 0
    BY <2>1, ContentsFacts
  <2> QED BY HeldContents, <2>1, <2>2 DEF StackInv
<1> QED BY <1>1 DEF Keys!KeysInit

\* Each operation keeps the list whole and is one of the abstract stack.
LEMMA StackSteps ==
  ASSUME Capacity \in Nat \ {0}, StackNotes \subseteq 0..127
  PROVE  StackInv /\ [Next]_stack => StackInv' /\ [Keys!KeysNext]_Held
<1> SUFFICES ASSUME StackOK(stack), [Next]_stack
             PROVE  StackOK(stack') /\ [Keys!KeysNext]_Held
  BY DEF StackInv
<1>1. Held' = Contents(stack')
  BY DEF Held, Contents, KeyOf
<1>2. \A note : Keys!Without(note) = Minus(Contents(stack), note)
  BY HeldContents DEF Keys!Without, Minus, Keys!RemoveAt, RemoveAt
<1>3. ASSUME NEW note \in StackNotes, NEW velocity \in Velocities, NoteOn(note, velocity)
      PROVE  StackOK(stack') /\ Keys!Press(note, velocity)
  <2>1. note \in Int /\ note # FreeSlot /\ stack' = AfterNoteOn(stack, note, velocity)
    BY <1>3 DEF FreeSlot, NoteOn
  <2>2. StackOK(stack')
    BY <2>1, NoteOnFacts
  <2>3. Contents(stack') = Topped(note, velocity, Minus(Contents(stack), note))
    BY <2>1, OnContents
  <2>4. Held' = Topped(note, velocity, Keys!Without(note))
    BY <1>1, <1>2, <2>3
  <2> QED BY <2>2, <2>4 DEF Keys!Press, Keys!Front, Front, Topped
<1>4. ASSUME NEW note \in StackNotes, NoteOff(note)
      PROVE  StackOK(stack') /\ Keys!Release(note)
  <2>1. stack' = AfterNoteOff(stack, note)
    BY <1>4 DEF NoteOff
  <2>2. StackOK(stack') /\ Contents(stack') = Minus(Contents(stack), note)
    BY <2>1, NoteOffFacts, OffContents
  <2> QED BY <1>1, <1>2, <2>2 DEF Keys!Release
<1>5. ASSUME NEW note \in StackNotes, Flag(note)
      PROVE  StackOK(stack') /\ Keys!Sustain(note)
  <2>1. stack' = AfterFlag(stack, note)
    BY <1>5 DEF Flag
  <2>2. StackOK(stack')
    BY <2>1, FlagFacts
  <2>3. Contents(stack') = [i \in DOMAIN Contents(stack) |->
                         IF Contents(stack)[i].note = note /\ Contents(stack)[i].velocity # 0
                         THEN [Contents(stack)[i] EXCEPT !.flagged = TRUE]
                         ELSE Contents(stack)[i]]
    BY <2>1, FlagContents
  <2> QED BY HeldContents, <1>1, <2>2, <2>3 DEF Keys!Sustain
<1>6. ASSUME Clear
      PROVE  StackOK(stack') /\ Keys!ReleaseAll
  <2>1. stack' = EmptyStack
    BY <1>6 DEF Clear
  <2>2. StackOK(stack') /\ Lists(stack', <<>>)
    BY <2>1, EmptyFacts
  <2>3. Contents(stack') \in Seq(KeyRecords) /\ Len(Contents(stack')) = 0
    BY <2>2, ContentsFacts
  <2> QED BY <1>1, <2>2, <2>3 DEF Keys!ReleaseAll
<1>7. CASE UNCHANGED stack
  BY HeldContents, <1>1, <1>7
<1> QED
  BY <1>3, <1>4, <1>5, <1>6, <1>7 DEF Next, Keys!KeysNext

\* For every capacity and set of notes, the linked list of note_stack.h, with
\* its evictions, and the sustain marks of Part::NoteOff implement the stack of
\* keys: ImplementsKeyStack.
THEOREM ListImplementsKeyStack ==
  ASSUME Capacity \in Nat \ {0}, StackNotes \subseteq 0..127
  PROVE  Spec => ImplementsKeyStack
<1>1. Init => StackInv /\ Keys!KeysInit
  BY StackStarts
<1>2. StackInv /\ [Next]_stack => StackInv' /\ [Keys!KeysNext]_Held
  BY StackSteps
<1> QED
  BY <1>1, <1>2, PTL DEF Spec, ImplementsKeyStack, Keys!KeysSpec
=============================================================================
