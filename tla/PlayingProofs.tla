--------------------------------- MODULE PlayingProofs --------------------------------
(***************************************************************************)
(* Proofs about what decides which note sounds, and when.                  *)
(*                                                                         *)
(* The voice allocator, for every set of notes and every set of pool       *)
(* sizes: AllocInv is inductive; NoteOnOneVoice, FindSeesActive and the    *)
(* refinement of VoicePool follow from it.                                 *)
(*                                                                         *)
(* What the clock drives in src/controller/multi.cc and part.cc: the ticks *)
(* of MultiClock are neither lost nor early, the updates of the LFOs come  *)
(* at their rate (LfoRefresh), a clock tick finds the LFO that follows it  *)
(* where it sets it (PartLfos), and each step of the Arpeggiator reads a   *)
(* key that is pressed.                                                    *)
(***************************************************************************)
EXTENDS Allocators, Arpeggiator, MultiClock, PartLfos, OrderLemmas

\* The lemmas on the stack of keys that shares the storage of the allocator.
KS == INSTANCE NoteStackProofs WITH Velocities <- {1}

-----------------------------------------------------------------------------
(* What the look-ups return.                                               *)

\* size_ never exceeds the twelve voices the arrays of the class have room for.
LEMMA SizeType == TypeOK => alloc.size \in 0..12
BY SizesAssumption DEF TypeOK

\* Find returns the first voice whose byte holds the note, or None.
LEMMA FindResult ==
  ASSUME TypeOK, NEW note
  PROVE  /\ Find(alloc, note) = None <=>
               \A v \in VoicesOf(alloc) : alloc.pool[v].note # note
         /\ Find(alloc, note) # None =>
               /\ Find(alloc, note) \in VoicesOf(alloc)
               /\ alloc.pool[Find(alloc, note)].note = note
               /\ \A v \in VoicesOf(alloc) :
                     v < Find(alloc, note) => alloc.pool[v].note # note
<1> DEFINE S == {v \in VoicesOf(alloc) : alloc.pool[v].note = note}
<1>1. alloc.size \in 0..12
  BY SizeType
<1>2. S \subseteq VoicesOf(alloc) /\ S \in SUBSET Nat
  BY <1>1 DEF VoicesOf
<1>3. CASE S = {}
  BY <1>3 DEF Find, Lowest
<1>4. CASE S # {}
  <2>1. Min(S) \in S /\ \A x \in S : Min(S) <= x
    <3> HIDE DEF S
    <3> QED BY <1>2, <1>4, MinOfNaturals
  <2>2. Find(alloc, note) = Min(S)
    BY <1>4 DEF Find, Lowest
  <2>3. Min(S) \in 0..11
    BY <1>1, <1>2, <2>1 DEF VoicesOf
  <2>4. Min(S) # None
    BY <2>3 DEF None
  <2>5. \A v \in VoicesOf(alloc) : v < Min(S) => v \notin S
    <3> HIDE DEF S
    <3> QED BY <1>1, <2>1, <2>3 DEF VoicesOf
  <2> QED
    BY <2>1, <2>2, <2>4, <2>5
<1> QED
  BY <1>3, <1>4

\* FindActive returns the first voice on which the note is active, or None.
LEMMA FindActiveResult ==
  ASSUME TypeOK, NEW note
  PROVE  FindActive(alloc, note) # None =>
               /\ FindActive(alloc, note) \in VoicesOf(alloc)
               /\ alloc.pool[FindActive(alloc, note)] = Active(note)
<1> DEFINE S == {v \in VoicesOf(alloc) : alloc.pool[v] = Active(note)}
<1>1. S \subseteq VoicesOf(alloc) /\ S \in SUBSET Nat
  BY SizeType DEF VoicesOf
<1>2. CASE S = {}
  BY <1>2 DEF FindActive, Lowest
<1>3. CASE S # {}
  <2>1. Min(S) \in S
    <3> HIDE DEF S
    <3> QED BY <1>1, <1>3, MinOfNaturals
  <2>2. FindActive(alloc, note) = Min(S)
    BY <1>3 DEF FindActive, Lowest
  <2> QED
    BY <2>1, <2>2
<1> QED
  BY <1>2, <1>3

\* LeastRecent returns a member of the set it is given.
LEMMA LeastRecentResult ==
  ASSUME TypeOK, LruIsPermutation,
         NEW S \in SUBSET VoicesOf(alloc), S # {}
  PROVE  /\ LeastRecent(alloc, S) \in S
         /\ \A i \in VoicesOf(alloc) :
               alloc.lru[i] \in S =>
                  \E k \in VoicesOf(alloc) :
                      i <= k /\ LeastRecent(alloc, S) = alloc.lru[k]
<1> DEFINE I == {i \in VoicesOf(alloc) : alloc.lru[i] \in S}
           n == alloc.size
<1>1. n \in Nat
  BY SizeType
<1>2. I \in SUBSET (0..(n - 1)) /\ I # {}
  <2>1. PICK v \in S : v \in VoicesOf(alloc)
    OBVIOUS
  <2>2. PICK i \in VoicesOf(alloc) : alloc.lru[i] = v
    BY <2>1 DEF LruIsPermutation
  <2>3. i \in I
    BY <2>1, <2>2
  <2> QED
    BY <2>3 DEF VoicesOf
<1>3. Max(I) \in I /\ \A x \in I : x <= Max(I)
  <2> HIDE DEF I, n
  <2> QED BY <1>1, <1>2, MaxOfIndices
<1> QED
  BY <1>3 DEF LeastRecent

\* NoteOn always returns one of the allocator's voices; outside cyclic mode
\* the one Find returns, else an idle one if there is any.
LEMMA VoiceForResult ==
  ASSUME TypeOK, LruIsPermutation, NEW note, alloc.size # 0
  PROVE  /\ VoiceFor(alloc, note) \in VoicesOf(alloc)
         /\ ~IsCyclic(alloc) /\ Find(alloc, note) # None =>
               VoiceFor(alloc, note) = Find(alloc, note)
         /\ ~IsCyclic(alloc) /\ Find(alloc, note) = None /\ Idle(alloc) # {} =>
               VoiceFor(alloc, note) \in Idle(alloc)
<1>1. alloc.size \in 1..12
  BY SizeType
<1>2. CASE IsCyclic(alloc)
  <2>1. alloc.cyclic \in 0..12
    BY <1>1, <1>2 DEF TypeOK, IsCyclic, VoicesOf
  <2> QED
    BY <1>1, <1>2, <2>1 DEF VoiceFor, VoicesOf
<1>3. CASE ~IsCyclic(alloc)
  <2>1. Idle(alloc) \in SUBSET VoicesOf(alloc) /\ 0 \in VoicesOf(alloc)
    BY <1>1 DEF Idle, VoicesOf
  <2>2. CASE Find(alloc, note) # None
    BY <1>3, <2>2, FindResult DEF VoiceFor
  <2>3. CASE Find(alloc, note) = None /\ Idle(alloc) # {}
    <3>1. LeastRecent(alloc, Idle(alloc)) \in Idle(alloc)
      BY <2>1, <2>3, LeastRecentResult
    <3> QED
      BY <1>3, <2>1, <2>3, <3>1 DEF VoiceFor
  <2>4. CASE Find(alloc, note) = None /\ Idle(alloc) = {}
    <3>1. LeastRecent(alloc, VoicesOf(alloc)) \in VoicesOf(alloc)
      BY <2>1, LeastRecentResult
    <3> QED
      BY <1>3, <2>4, <3>1 DEF VoiceFor
  <2> QED
    BY <2>2, <2>3, <2>4
<1> QED
  BY <1>2, <1>3
-----------------------------------------------------------------------------
(* What the updates preserve.                                              *)

\* Touch permutes lru_: the voice comes first, those before it move one place.
LEMMA TouchResult ==
  ASSUME TypeOK, LruIsPermutation, NEW voice \in VoicesOf(alloc)
  PROVE  /\ Touch(alloc, voice) \in [VoicesOf(alloc) -> VoicesOf(alloc)]
         /\ OneToOne(Touch(alloc, voice), alloc.size)
         /\ Onto(Touch(alloc, voice), alloc.size)
<1> DEFINE n == alloc.size
           t == Touch(alloc, voice)
<1>1. n \in Nat /\ VoicesOf(alloc) = 0..(n - 1)
      /\ alloc.lru \in [0..(n - 1) -> 0..(n - 1)]
  BY SizeType DEF TypeOK, VoicesOf
<1>2. OneToOne(alloc.lru, n) /\ Onto(alloc.lru, n)
  BY <1>1 DEF LruIsPermutation, OneToOne, Onto
<1>3. PICK p \in 0..(n - 1) : p = Position(alloc, voice) /\ alloc.lru[p] = voice
  BY <1>1 DEF LruIsPermutation, Position
<1>4. MovesToFront(t, alloc.lru, p, n)
  BY <1>1, <1>3 DEF Touch, MovesToFront
<1>5. ASSUME NEW i \in 0..(n - 1)
      PROVE  (IF i = 0 THEN voice ELSE IF i <= p THEN alloc.lru[i - 1] ELSE alloc.lru[i])
                \in 0..(n - 1)
  <2>1. i # 0 => i - 1 \in 0..(n - 1)
    BY <1>1
  <2> QED BY <1>1, <2>1
<1>6. t \in [0..(n - 1) -> 0..(n - 1)]
  BY <1>1, <1>3, <1>5 DEF Touch
<1> QED
  <2> HIDE DEF n, t
  <2>1. OneToOne(t, n) /\ Onto(t, n)
    BY <1>1, <1>2, <1>4, MoveToFront
  <2> QED
    BY <1>1, <1>6, <2>1 DEF n, t

-----------------------------------------------------------------------------
(* AllocInv is inductive.                                                  *)

\* A fresh or cleared allocator, whatever its cyclic_allocator_.
Fresh ==
    /\ alloc.size \in Sizes
    /\ alloc.pool = [v \in VoicesOf(alloc) |-> Inactive(0)]
    /\ alloc.lru = [i \in VoicesOf(alloc) |-> alloc.size - i - 1]
    /\ alloc.cyclic \in VoicesOf(alloc) \cup {0, None}

\* An allocator fresh from Init, or just cleared, satisfies the invariant.
LEMMA FreshSatisfiesInv == Fresh => AllocInv
<1> SUFFICES ASSUME Fresh
             PROVE  AllocInv
  OBVIOUS
<1>1. alloc.size \in 0..12 /\ VoicesOf(alloc) = 0..(alloc.size - 1)
  BY SizesAssumption DEF Fresh, VoicesOf
<1>2. \A v \in VoicesOf(alloc) :
         alloc.pool[v] = Inactive(0) /\ alloc.lru[v] = alloc.size - v - 1
  BY DEF Fresh
<1>3. TypeOK
  <2>1. Inactive(0) \in PoolEntry
    BY AllocNotesAssumption DEF Inactive, PoolEntry
  <2>2. \A i \in VoicesOf(alloc) : alloc.size - i - 1 \in VoicesOf(alloc)
    <3>1. PICK n \in 0..12 : n = alloc.size
      BY <1>1
    <3>2. \A i \in 0..(n - 1) : n - i - 1 \in 0..(n - 1)
      OBVIOUS
    <3> QED BY <1>1, <3>1, <3>2
  <2>3. alloc.pool \in [VoicesOf(alloc) -> PoolEntry]
    BY <2>1 DEF Fresh
  <2>4. alloc.lru \in [VoicesOf(alloc) -> VoicesOf(alloc)]
    BY <2>2 DEF Fresh
  <2> QED
    BY <2>3, <2>4 DEF TypeOK, Fresh
<1>4. LruIsPermutation
  <2> PICK n \in 0..12 : n = alloc.size
    BY <1>1
  <2>0. \A i \in 0..(n - 1) : alloc.lru[i] = n - i - 1
    BY <1>1, <1>2
  <2>1. ASSUME NEW i \in 0..(n - 1), NEW j \in 0..(n - 1), alloc.lru[i] = alloc.lru[j]
        PROVE  i = j
    <3>1. n - i - 1 = n - j - 1
      BY <2>0, <2>1
    <3> QED BY <3>1
  <2>2. ASSUME NEW v \in 0..(n - 1)
        PROVE  \E i \in 0..(n - 1) : alloc.lru[i] = v
    <3>1. n - v - 1 \in 0..(n - 1) /\ n - (n - v - 1) - 1 = v
      OBVIOUS
    <3> QED BY <2>0, <3>1
  <2> QED
    BY <1>1, <2>1, <2>2 DEF LruIsPermutation
<1>5. PoolEntriesDistinct
  BY <1>2 DEF PoolEntriesDistinct
<1> QED
  BY <1>3, <1>4, <1>5 DEF AllocInv

\* Init, a new Init at run time and Clear all leave a fresh allocator.
LEMMA FreshStates ==
  /\ Init => Fresh
  /\ \A size \in Sizes, cyclic \in CyclicModes : Reinit(size, cyclic) => Fresh'
  /\ TypeOK /\ Clear => Fresh'
<1>1. ASSUME NEW size \in Sizes, NEW cyclic \in CyclicModes,
             alloc = Allocator(size, cyclic)
      PROVE  Fresh
  BY <1>1 DEF Allocator, Fresh, VoicesOf
<1>2. ASSUME NEW size \in Sizes, NEW cyclic \in CyclicModes,
             alloc' = Allocator(size, cyclic)
      PROVE  Fresh'
  BY <1>2 DEF Allocator, Fresh, VoicesOf
<1>3. ASSUME TypeOK, Clear
      PROVE  Fresh'
  BY <1>3 DEF TypeOK, Clear, AfterClear, Allocator, Fresh, VoicesOf
<1> QED
  BY <1>1, <1>2, <1>3 DEF Init, Reinit

\* NoteOn keeps the invariant: outside cyclic mode the note goes to the voice
\* Find returns, or to a voice when no other voice's byte holds the note.
LEMMA NoteOnPreserves ==
  ASSUME AllocInv, NEW note \in AllocNotes, NoteOn(note)
  PROVE  AllocInv'
<1> USE DEF AllocInv
<1> DEFINE voice == VoiceFor(alloc, note)
<1>1. CASE alloc.size = 0
  <2>1. alloc' = alloc
    BY <1>1 DEF NoteOn, AfterNoteOn
  <2> QED
    BY <2>1 DEF AllocInv, TypeOK, LruIsPermutation, PoolEntriesDistinct, VoicesOf,
                IsCyclic
<1>2. CASE alloc.size # 0
  <2>1. /\ alloc'.size = alloc.size
        /\ alloc'.pool = [alloc.pool EXCEPT ![voice] = Active(note)]
        /\ alloc'.lru = Touch(alloc, voice)
        /\ alloc'.cyclic = IF IsCyclic(alloc) THEN voice ELSE alloc.cyclic
    BY <1>2 DEF NoteOn, AfterNoteOn
  <2>2. VoicesOf(alloc)' = VoicesOf(alloc)
    BY <2>1 DEF VoicesOf
  <2>3. /\ voice \in VoicesOf(alloc)
        /\ ~IsCyclic(alloc) /\ Find(alloc, note) # None => voice = Find(alloc, note)
    BY <1>2, VoiceForResult
  <2> HIDE DEF voice
  <2>4. TypeOK'
    <3>1. Active(note) \in PoolEntry
      BY DEF Active, PoolEntry
    <3>2. alloc.pool \in [VoicesOf(alloc) -> PoolEntry]
      BY DEF TypeOK
    <3>3. alloc'.pool \in [VoicesOf(alloc) -> PoolEntry]
      BY <2>1, <2>3, <3>1, <3>2
    <3>4. alloc'.lru \in [VoicesOf(alloc) -> VoicesOf(alloc)]
      BY <2>1, <2>3, TouchResult
    <3> QED
      BY <2>1, <2>2, <2>3, <3>3, <3>4 DEF TypeOK
  <2>5. LruIsPermutation'
    <3>1. OneToOne(alloc'.lru, alloc.size) /\ Onto(alloc'.lru, alloc.size)
      BY <2>1, <2>3, TouchResult
    <3> QED
      BY <2>1, <2>2, <3>1 DEF LruIsPermutation, OneToOne, Onto, VoicesOf
  <2>6. PoolEntriesDistinct'
    <3> SUFFICES ASSUME ~IsCyclic(alloc), NEW v \in VoicesOf(alloc), NEW w \in VoicesOf(alloc),
                        v < w, alloc'.pool[v].note = alloc'.pool[w].note
                 PROVE  alloc'.pool[w] = Inactive(0)
      <4>1. voice # None
        BY <2>3, SizeType DEF VoicesOf, None
      <4> QED
        BY <2>1, <2>2, <4>1 DEF PoolEntriesDistinct, IsCyclic
    <3>1. alloc.pool \in [VoicesOf(alloc) -> PoolEntry] /\ v # w
      BY SizeType DEF TypeOK, VoicesOf
    <3>2. \A u \in VoicesOf(alloc) :
             alloc'.pool[u] = IF u = voice THEN Active(note) ELSE alloc.pool[u]
      BY <2>1, <2>3, <3>1
    <3>3. Active(note).note = note
      BY DEF Active
    <3>4. CASE v # voice /\ w # voice
      BY <3>2, <3>4 DEF PoolEntriesDistinct
    <3>5. CASE w = voice
      <4>1. alloc.pool[v].note = note
        BY <3>1, <3>2, <3>3, <3>5
      <4>2. Find(alloc, note) # None
        BY <4>1, FindResult
      <4> QED
        BY <2>3, <3>5, <4>1, <4>2, FindResult
    <3>6. CASE v = voice
      <4>1. alloc.pool[w].note = note /\ alloc'.pool[w] = alloc.pool[w]
        BY <3>1, <3>2, <3>3, <3>6
      <4>2. Find(alloc, note) # None
        BY <4>1, FindResult
      <4>3. alloc.pool[v].note = note
        BY <2>3, <3>6, <4>2, FindResult
      <4> QED
        BY <4>1, <4>3 DEF PoolEntriesDistinct
    <3> QED
      BY <3>4, <3>5, <3>6
  <2> QED
    BY <2>4, <2>5, <2>6
<1> QED
  BY <1>1, <1>2

\* NoteOff only clears a bit and touches the voice (outside cyclic mode), or
\* writes 0xff (in cyclic mode).
LEMMA NoteOffPreserves ==
  ASSUME AllocInv, NEW note \in AllocNotes, NoteOff(note)
  PROVE  AllocInv'
<1> USE DEF AllocInv
<1> DEFINE voice == Find(alloc, note)
<1>1. CASE voice = None
  <2>1. alloc' = alloc
    BY <1>1 DEF NoteOff, AfterNoteOff
  <2> QED
    BY <2>1 DEF AllocInv, TypeOK, LruIsPermutation, PoolEntriesDistinct, VoicesOf,
                IsCyclic
<1>2. CASE voice # None
  <2> DEFINE entry == IF IsCyclic(alloc) THEN Active(127) ELSE Inactive(note)
  <2>1. /\ alloc'.size = alloc.size
        /\ alloc'.pool = [alloc.pool EXCEPT ![voice] = entry]
        /\ alloc'.lru = IF IsCyclic(alloc) THEN alloc.lru ELSE Touch(alloc, voice)
        /\ alloc'.cyclic = alloc.cyclic
    <3>1. CASE IsCyclic(alloc)
      BY <1>2, <3>1 DEF NoteOff, AfterNoteOff
    <3>2. CASE ~IsCyclic(alloc)
      BY <1>2, <3>2 DEF NoteOff, AfterNoteOff
    <3> QED BY <3>1, <3>2
  <2>2. VoicesOf(alloc)' = VoicesOf(alloc)
    BY <2>1 DEF VoicesOf
  <2>3. voice \in VoicesOf(alloc) /\ alloc.pool[voice].note = note
    BY <1>2, FindResult
  <2>4. \A v \in VoicesOf(alloc) : v < voice => alloc.pool[v].note # note
    BY <1>2, FindResult
  <2> HIDE DEF voice
  <2>5. alloc.pool \in [VoicesOf(alloc) -> PoolEntry]
    BY DEF TypeOK
  <2>6. TypeOK'
    <3>1. entry \in PoolEntry
      BY AllocNotesAssumption DEF Active, Inactive, PoolEntry
    <3>2. alloc'.pool \in [VoicesOf(alloc) -> PoolEntry]
      BY <2>1, <2>5, <3>1
    <3>3. alloc'.lru \in [VoicesOf(alloc) -> VoicesOf(alloc)]
      BY <2>1, <2>3, TouchResult DEF TypeOK
    <3> QED
      BY <2>1, <2>2, <3>2, <3>3 DEF TypeOK
  <2>7. LruIsPermutation'
    <3>1. CASE IsCyclic(alloc)
      BY <2>1, <2>2, <3>1 DEF LruIsPermutation
    <3>2. CASE ~IsCyclic(alloc)
      <4>1. OneToOne(alloc'.lru, alloc.size) /\ Onto(alloc'.lru, alloc.size)
        BY <2>1, <2>3, <3>2, TouchResult
      <4> QED
        BY <2>1, <2>2, <4>1 DEF LruIsPermutation, OneToOne, Onto, VoicesOf
    <3> QED BY <3>1, <3>2
  <2>8. PoolEntriesDistinct'
    <3> SUFFICES ASSUME ~IsCyclic(alloc), NEW v \in VoicesOf(alloc), NEW w \in VoicesOf(alloc),
                        v < w, alloc'.pool[v].note = alloc'.pool[w].note
                 PROVE  alloc'.pool[w] = Inactive(0)
      BY <2>1, <2>2 DEF PoolEntriesDistinct, IsCyclic
    <3>1. /\ v # w
          /\ Inactive(note).note = note
      BY SizeType DEF VoicesOf, Inactive
    <3>2. \A u \in VoicesOf(alloc) :
             alloc'.pool[u] = IF u = voice THEN Inactive(note) ELSE alloc.pool[u]
      BY <2>1, <2>3, <2>5
    <3>3. alloc.pool[v].note = alloc.pool[w].note
      BY <2>3, <3>1, <3>2
    <3>4. alloc.pool[w] = Inactive(0)
      BY <3>3 DEF PoolEntriesDistinct
    <3>5. CASE w = voice
      <4>1. alloc.pool[v].note = note
        BY <2>3, <3>3, <3>5
      <4> QED
        BY <2>4, <3>5, <4>1
    <3>6. CASE w # voice
      BY <3>2, <3>4, <3>6
    <3> QED BY <3>5, <3>6
  <2> QED
    BY <2>6, <2>7, <2>8
<1> QED
  BY <1>1, <1>2

\* ClearNotes keeps the invariant: every byte of the pool becomes a zero.
LEMMA ClearNotesPreserves ==
  ASSUME AllocInv, ClearNotes
  PROVE  AllocInv'
<1>1. /\ alloc'.size = alloc.size
      /\ alloc'.pool = [v \in VoicesOf(alloc) |-> Inactive(0)]
      /\ alloc'.lru = alloc.lru
      /\ alloc'.cyclic = alloc.cyclic
  BY DEF ClearNotes, AfterClearNotes, AllocInv, TypeOK
<1>2. VoicesOf(alloc)' = VoicesOf(alloc)
  BY <1>1 DEF VoicesOf
<1>3. Inactive(0) \in PoolEntry
  BY AllocNotesAssumption DEF Inactive, PoolEntry
<1>4. TypeOK'
  BY <1>1, <1>2, <1>3 DEF AllocInv, TypeOK
<1>5. LruIsPermutation'
  BY <1>1, <1>2 DEF AllocInv, LruIsPermutation
<1>6. PoolEntriesDistinct'
  BY <1>1, <1>2 DEF PoolEntriesDistinct
<1> QED
  BY <1>4, <1>5, <1>6 DEF AllocInv

\* The voice allocator's invariant holds in every reachable state, for every
\* set of notes, every pool size and both modes.
THEOREM AllocInvariant == Spec => []AllocInv
<1>1. Init => AllocInv
  BY FreshSatisfiesInv, FreshStates
<1>2. AllocInv /\ [Next]_alloc => AllocInv'
  <2> SUFFICES ASSUME AllocInv, [Next]_alloc
               PROVE  AllocInv'
    OBVIOUS
  <2>1. Fresh' => AllocInv'
    BY FreshSatisfiesInv, PTL
  <2>2. ASSUME NEW size \in Sizes, NEW cyclic \in CyclicModes, Reinit(size, cyclic)
        PROVE  AllocInv'
    BY <2>1, <2>2, FreshStates
  <2>3. ASSUME NEW note \in AllocNotes, NoteOn(note)
        PROVE  AllocInv'
    BY <2>3, NoteOnPreserves
  <2>4. ASSUME NEW note \in AllocNotes, NoteOff(note)
        PROVE  AllocInv'
    BY <2>4, NoteOffPreserves
  <2>5. CASE ClearNotes
    BY <2>5, ClearNotesPreserves
  <2>6. CASE Clear
    BY <2>1, <2>6, FreshStates DEF AllocInv
  <2>7. CASE UNCHANGED alloc
    BY <2>7 DEF AllocInv, TypeOK, LruIsPermutation, PoolEntriesDistinct, VoicesOf,
                IsCyclic
  <2> QED
    BY <2>2, <2>3, <2>4, <2>5, <2>6, <2>7 DEF Next
<1> QED
  BY <1>1, <1>2, PTL DEF Spec

\* A note is never active on two voices outside cyclic mode: the second entry
\* would have to be an untouched zero, which is inactive.
THEOREM OneVoicePerNote == Spec => []NoteOnOneVoice
<1>1. AllocInv => NoteOnOneVoice
  <2> SUFFICES ASSUME AllocInv, ~IsCyclic(alloc),
                      NEW v \in VoicesOf(alloc), NEW w \in VoicesOf(alloc),
                      alloc.pool[v].active, alloc.pool[v] = alloc.pool[w]
               PROVE  v = w
    BY DEF NoteOnOneVoice
  <2>1. v \in Int /\ w \in Int
    BY SizeType DEF AllocInv, VoicesOf
  <2>2. alloc.pool[v] # Inactive(0) /\ alloc.pool[w] # Inactive(0)
    BY DEF Inactive
  <2> QED
    BY <2>1, <2>2 DEF AllocInv, PoolEntriesDistinct
<1> QED
  BY <1>1, AllocInvariant, PTL

\* NoteOff's Find and NoteOn's Find see the voice that is sounding the note.
THEOREM FindReturnsActive == Spec => []FindSeesActive
<1>1. AllocInv => FindSeesActive
  <2> SUFFICES ASSUME AllocInv, ~IsCyclic(alloc), NEW note \in AllocNotes,
                      FindActive(alloc, note) # None
               PROVE  Find(alloc, note) = FindActive(alloc, note)
    BY DEF FindSeesActive
  <2> DEFINE f == Find(alloc, note)
             a == FindActive(alloc, note)
  <2>1. a \in VoicesOf(alloc) /\ alloc.pool[a] = Active(note)
    BY FindActiveResult DEF AllocInv
  <2>2. alloc.pool[a].note = note /\ alloc.pool[a] # Inactive(0)
    BY <2>1 DEF Active, Inactive
  <2>3. f # None
    BY <2>1, <2>2, FindResult DEF AllocInv
  <2>4. f \in VoicesOf(alloc) /\ alloc.pool[f].note = note /\ ~(a < f)
    BY <2>1, <2>2, <2>3, FindResult DEF AllocInv
  <2>5. ~(f < a)
    <3> HIDE DEF f, a
    <3> QED BY <2>1, <2>2, <2>4 DEF AllocInv, PoolEntriesDistinct
  <2>6. f \in Int /\ a \in Int
    <3> HIDE DEF f, a
    <3> QED BY <2>1, <2>4, SizeType DEF AllocInv, VoicesOf
  <2> QED
    <3> HIDE DEF f, a
    <3>1. f = a
      BY <2>4, <2>5, <2>6
    <3> QED BY <3>1 DEF f, a
<1> QED
  BY <1>1, AllocInvariant, PTL

-----------------------------------------------------------------------------
(* Outside cyclic mode the allocator implements VoicePool.                 *)

\* Notes are never confused with the mark for a free voice.
LEMMA PlayingFacts ==
  ASSUME TypeOK
  PROVE  /\ DOMAIN Playing = VoicesOf(alloc)
         /\ \A v \in VoicesOf(alloc) :
               /\ Playing[v] = IF alloc.pool[v].active THEN alloc.pool[v].note ELSE None
               /\ Playing[v] = None <=> ~alloc.pool[v].active
         /\ \A note \in AllocNotes : note # None
<1>1. \A note \in AllocNotes : note # None
  BY AllocNotesAssumption DEF None
<1>2. \A v \in VoicesOf(alloc) : alloc.pool[v].note \in AllocNotes
                                 /\ alloc.pool[v].active \in BOOLEAN
  BY DEF TypeOK, PoolEntry
<1> QED
  BY <1>1, <1>2 DEF Playing

\* NoteOn on the allocator is Play on the abstract pool: the note's own voice,
\* else a free one, else a stolen one.
LEMMA PlayStep ==
  ASSUME AllocInv, AllocInv', ~IsCyclic(alloc), NEW note \in AllocNotes, NoteOn(note)
  PROVE  Pool!Play(note)
<1> USE DEF AllocInv
<1> DEFINE voice == VoiceFor(alloc, note)
<1>1. ~IsCyclic(alloc)
  OBVIOUS
<1>2. CASE alloc.size = 0
  <2>1. alloc' = alloc
    BY <1>2 DEF NoteOn, AfterNoteOn
  <2>2. VoicesOf(alloc) = {}
    BY <1>2 DEF VoicesOf
  <2>3. Pool!PoolVoices = {}
    BY <2>2 DEF Pool!PoolVoices, Playing
  <2> QED
    BY <2>1, <2>3 DEF Pool!Play, Playing, VoicesOf
<1>3. CASE alloc.size # 0
  <2>1. /\ alloc'.pool = [alloc.pool EXCEPT ![voice] = Active(note)]
        /\ VoicesOf(alloc') = VoicesOf(alloc)
    BY <1>3 DEF NoteOn, AfterNoteOn, VoicesOf
  <2>2. /\ voice \in VoicesOf(alloc)
        /\ Find(alloc, note) # None => voice = Find(alloc, note)
        /\ Find(alloc, note) = None /\ Idle(alloc) # {} => voice \in Idle(alloc)
    BY <1>1, <1>3, VoiceForResult
  <2> HIDE DEF voice
  <2>3. \A v \in VoicesOf(alloc) :
           alloc'.pool[v] = IF v = voice THEN Active(note) ELSE alloc.pool[v]
    BY <2>1, <2>2 DEF TypeOK
  <2>4. /\ DOMAIN Playing' = VoicesOf(alloc)
        /\ \A v \in VoicesOf(alloc) :
              Playing'[v] = IF v = voice THEN note ELSE Playing[v]
    BY <2>1, <2>3, PlayingFacts DEF Playing, Active
  <2>5. Playing' = [Playing EXCEPT ![voice] = note]
    BY <2>2, <2>4, PlayingFacts DEF Playing
  <2>6. CASE \E v \in VoicesOf(alloc) : Playing[v] = note
    <3>1. PICK v \in VoicesOf(alloc) : Playing[v] = note
      BY <2>6
    <3>2. alloc.pool[v].active /\ alloc.pool[v].note = note
      BY <3>1, PlayingFacts
    <3>3. Find(alloc, note) # None
      BY <3>2, FindResult
    <3>4. v = voice
      <4>1. alloc.pool[voice].note = note /\ ~(v < voice)
        BY <2>2, <3>2, <3>3, FindResult
      <4>2. alloc.pool[v] # Inactive(0)
        BY <3>2 DEF Inactive
      <4>3. ~(voice < v)
        BY <1>1, <2>2, <3>2, <4>1, <4>2 DEF PoolEntriesDistinct
      <4> QED
        BY <2>2, <4>1, <4>3, SizeType DEF VoicesOf
    <3>5. Playing' = Playing
      BY <2>5, <3>1, <3>4 DEF Playing
    <3>6. Pool!Player(note) # {}
      BY <3>1, PlayingFacts DEF Pool!Player, Pool!PoolVoices, Playing
    <3> QED
      BY <3>5, <3>6 DEF Pool!Play, Playing
  <2>7. CASE \A v \in VoicesOf(alloc) : Playing[v] # note
    <3>1. Pool!Player(note) = {}
      BY <2>7, PlayingFacts DEF Pool!Player, Pool!PoolVoices, Playing
    <3>2. Pool!PoolVoices = VoicesOf(alloc)
      BY PlayingFacts DEF Pool!PoolVoices, Playing
    <3>3. Pool!FreeVoices = Idle(alloc)
      <4>1. \A v \in VoicesOf(alloc) : Playing[v] = Pool!Free <=> ~alloc.pool[v].active
        BY PlayingFacts DEF Pool!Free, None
      <4> QED
        BY <3>2, <4>1 DEF Pool!FreeVoices, Idle, Playing
    <3>4. voice \in IF Pool!FreeVoices # {} THEN Pool!FreeVoices ELSE Pool!PoolVoices
      <4>1. CASE Find(alloc, note) = None
        BY <2>2, <3>2, <3>3, <4>1
      <4>2. CASE Find(alloc, note) # None
        <5>1. alloc.pool[voice].note = note
          BY <2>2, <4>2, FindResult
        <5>2. ~alloc.pool[voice].active
          BY <2>2, <2>7, <5>1, PlayingFacts
        <5> QED
          BY <2>2, <3>3, <5>2 DEF Idle
      <4> QED BY <4>1, <4>2
    <3> QED
      BY <2>5, <3>1, <3>4 DEF Pool!Play, Playing
  <2> QED
    BY <2>6, <2>7
<1> QED
  BY <1>2, <1>3

\* NoteOff on the allocator is Stop on the abstract pool: the voice Find
\* returns is the only one that can be busy with the note.
LEMMA StopStep ==
  ASSUME AllocInv, ~IsCyclic(alloc), NEW note \in AllocNotes, NoteOff(note)
  PROVE  Pool!Stop(note)
<1> USE DEF AllocInv
<1> DEFINE voice == Find(alloc, note)
<1>1. ~IsCyclic(alloc)
  OBVIOUS
<1>2. \A v \in VoicesOf(alloc) :
         Playing[v] = note <=> alloc.pool[v] = Active(note)
  <2> SUFFICES ASSUME NEW v \in VoicesOf(alloc)
               PROVE  Playing[v] = note <=> alloc.pool[v] = Active(note)
    OBVIOUS
  <2>1. PICK e \in PoolEntry : e = alloc.pool[v]
    BY DEF TypeOK
  <2>2. e = Active(note) <=> e.active /\ e.note = note
    <3>1. e = [note |-> e.note, active |-> e.active]
      BY DEF PoolEntry
    <3>2. e.active \in BOOLEAN
      BY DEF PoolEntry
    <3>3. e = Active(note) => e.active /\ e.note = note
      BY DEF Active
    <3>4. e.active /\ e.note = note => e = Active(note)
      <4> SUFFICES ASSUME e.active, e.note = note
                   PROVE  e = Active(note)
        OBVIOUS
      <4>1. e.active = TRUE
        BY <3>2
      <4> QED
        BY <3>1, <4>1 DEF Active
    <3> QED
      BY <3>3, <3>4
  <2>3. Playing[v] = IF e.active THEN e.note ELSE None
    BY <2>1, PlayingFacts
  <2>4. note # None
    BY PlayingFacts
  <2> QED
    BY <2>1, <2>2, <2>3, <2>4
<1>3. VoicesOf(alloc') = VoicesOf(alloc)
      /\ \A v \in VoicesOf(alloc) :
            Playing'[v] = IF Playing[v] = note THEN None ELSE Playing[v]
  <2>1. CASE voice = None
    <3>1. alloc' = alloc
      BY <2>1 DEF NoteOff, AfterNoteOff
    <3>2. \A v \in VoicesOf(alloc) : Playing[v] # note
      BY <1>2, <2>1, FindResult DEF Active
    <3> QED
      BY <3>1, <3>2 DEF Playing, VoicesOf
  <2>2. CASE voice # None
    <3>1. /\ alloc'.pool = [alloc.pool EXCEPT ![voice] = Inactive(note)]
          /\ VoicesOf(alloc') = VoicesOf(alloc)
      BY <1>1, <2>2 DEF NoteOff, AfterNoteOff, VoicesOf
    <3>2. /\ voice \in VoicesOf(alloc)
          /\ alloc.pool[voice].note = note
          /\ \A v \in VoicesOf(alloc) : v < voice => alloc.pool[v].note # note
      BY <2>2, FindResult
    <3> HIDE DEF voice
    <3>3. \A v \in VoicesOf(alloc) :
             alloc'.pool[v] = IF v = voice THEN Inactive(note) ELSE alloc.pool[v]
      BY <3>1, <3>2 DEF TypeOK
    <3>4. ASSUME NEW v \in VoicesOf(alloc)
          PROVE  Playing'[v] = IF v = voice THEN None ELSE Playing[v]
      BY <3>1, <3>3 DEF Playing, Inactive
    <3>5. ASSUME NEW v \in VoicesOf(alloc), Playing[v] = note
          PROVE  v = voice
      <4>1. alloc.pool[v].note = note /\ alloc.pool[v] # Inactive(0)
        BY <1>2, <3>5 DEF Active, Inactive
      <4>2. ~(v < voice) /\ ~(voice < v)
        BY <1>1, <3>2, <4>1 DEF PoolEntriesDistinct
      <4> QED
        BY <3>2, <4>2, SizeType DEF VoicesOf
    <3>6. Playing[voice] = note \/ Playing[voice] = None
      BY <3>2, PlayingFacts
    <3>7. ASSUME NEW v \in VoicesOf(alloc)
          PROVE  Playing'[v] = IF Playing[v] = note THEN None ELSE Playing[v]
      <4>1. CASE v = voice
        BY <3>4, <3>6, <4>1
      <4>2. CASE v # voice
        BY <3>4, <3>5, <4>2
      <4> QED
        BY <4>1, <4>2
    <3> QED
      BY <3>1, <3>7
  <2> QED
    BY <2>1, <2>2
<1>4. Playing' = [v \in VoicesOf(alloc) |-> IF Playing[v] = note THEN None ELSE Playing[v]]
  BY <1>3 DEF Playing
<1> QED
  BY <1>4 DEF Pool!Stop, Pool!PoolVoices, Pool!Free, Playing, None

IsSilent == Playing = [v \in VoicesOf(alloc) |-> None]

\* A fresh allocator maps to a silent pool.
LEMMA FreshIsSilent == Fresh => IsSilent
<1> SUFFICES ASSUME Fresh
             PROVE  IsSilent
  OBVIOUS
<1>1. \A v \in VoicesOf(alloc) : ~alloc.pool[v].active
  BY DEF Fresh, Inactive
<1> QED
  BY <1>1 DEF Playing, IsSilent

\* Neither a note on nor a note off changes between cyclic and normal mode.
LEMMA NotesKeepMode ==
  ASSUME TypeOK, NEW note, NoteOn(note) \/ NoteOff(note), ~IsCyclic(alloc')
  PROVE  ~IsCyclic(alloc)
<1>1. CASE NoteOn(note)
  <2> SUFFICES ASSUME IsCyclic(alloc), alloc.size # 0
               PROVE  FALSE
    BY <1>1 DEF NoteOn, AfterNoteOn
  <2>1. alloc'.cyclic = VoiceFor(alloc, note)
    BY <1>1 DEF NoteOn, AfterNoteOn
  <2>2. alloc.cyclic \in 0..12
    <3>1. alloc.size \in 0..12
      BY SizeType
    <3>2. alloc.cyclic \in 0..alloc.size - 1 \/ alloc.cyclic = 0
      BY DEF TypeOK, VoicesOf, IsCyclic
    <3>3. QED
      BY <3>1, <3>2
  <2>3. VoiceFor(alloc, note) \in 0..13
    BY <2>2 DEF VoiceFor
  <2> QED
    BY <2>1, <2>3 DEF IsCyclic, None
<1>2. CASE NoteOff(note)
  <2>1. CASE Find(alloc, note) = None
    BY <1>2, <2>1 DEF NoteOff, AfterNoteOff
  <2>2. CASE Find(alloc, note) # None
    BY <1>2, <2>2 DEF NoteOff, AfterNoteOff, IsCyclic
  <2> QED
    BY <2>1, <2>2
<1> QED
  BY <1>1, <1>2

-----------------------------------------------------------------------------
(* lru_ is the order of use.                                               *)

UseInv ==
    /\ since \in [VoicesOf(alloc) -> SUBSET VoicesOf(alloc)]
    /\ LruIsOrderOfUse

\* A fresh allocator is as if its voices had been used one after the other.
LEMMA FreshOrder == Fresh /\ since = NeverUsed(alloc.size) => UseInv
<1> SUFFICES ASSUME Fresh, since = NeverUsed(alloc.size)
             PROVE  UseInv
  OBVIOUS
<1> PICK n \in 0..12 : n = alloc.size
  BY SizesAssumption DEF Fresh
<1>1. VoicesOf(alloc) = 0..(n - 1)
  BY DEF VoicesOf
<1>2. \A i \in 0..(n - 1) : n - i - 1 \in 0..(n - 1) /\ alloc.lru[i] = n - i - 1
  BY <1>1 DEF Fresh
<1>3. \A v \in 0..(n - 1) : since[v] = (v + 1)..(n - 1)
  BY DEF NeverUsed
<1>4. since \in [0..(n - 1) -> SUBSET (0..(n - 1))]
  <2>1. \A v \in 0..(n - 1) : (v + 1)..(n - 1) \subseteq 0..(n - 1)
    OBVIOUS
  <2> QED
    BY <2>1 DEF NeverUsed
<1>5. ASSUME NEW i \in 0..(n - 1)
      PROVE  since[alloc.lru[i]] = {alloc.lru[j] : j \in 0..(i - 1)}
  <2>1. since[alloc.lru[i]] = (n - i)..(n - 1)
    <3>1. (n - i - 1) + 1 = n - i
      OBVIOUS
    <3> QED
      BY <1>2, <1>3, <3>1
  <2>2. ASSUME NEW v \in (n - i)..(n - 1)
        PROVE  v \in {alloc.lru[j] : j \in 0..(i - 1)}
    <3>1. n - v - 1 \in 0..(i - 1) /\ n - v - 1 \in 0..(n - 1) /\ n - (n - v - 1) - 1 = v
      OBVIOUS
    <3> QED
      BY <1>2, <3>1
  <2>3. ASSUME NEW j \in 0..(i - 1)
        PROVE  alloc.lru[j] \in (n - i)..(n - 1)
    BY <1>2
  <2> QED
    BY <2>1, <2>2, <2>3
<1> QED
  BY <1>1, <1>4, <1>5 DEF UseInv, LruIsOrderOfUse

\* Using a voice and touching it agree.
LEMMA TouchRecordsUse ==
  ASSUME AllocInv, UseInv, NEW voice \in VoicesOf(alloc),
         VoicesOf(alloc)' = VoicesOf(alloc), alloc'.lru = Touch(alloc, voice), Use(voice)
  PROVE  UseInv'
<1> DEFINE n == alloc.size
           t == Touch(alloc, voice)
<1>1. n \in Nat /\ VoicesOf(alloc) = 0..(n - 1)
      /\ alloc.lru \in [0..(n - 1) -> 0..(n - 1)]
  BY SizeType DEF AllocInv, TypeOK, VoicesOf
<1>2. OneToOne(alloc.lru, n)
  BY <1>1 DEF AllocInv, LruIsPermutation, OneToOne
<1>3. PICK p \in 0..(n - 1) : p = Position(alloc, voice) /\ alloc.lru[p] = voice
  BY <1>1 DEF AllocInv, LruIsPermutation, Position
<1>4. MovesToFront(t, alloc.lru, p, n)
  BY <1>1, <1>3 DEF Touch, MovesToFront
<1>5. \A v \in 0..(n - 1) : since'[v] = IF v = voice THEN {} ELSE since[v] \cup {voice}
  BY <1>1 DEF Use
<1>6. since' \in [0..(n - 1) -> SUBSET (0..(n - 1))]
  BY <1>1 DEF Use, UseInv
<1>7. ASSUME NEW i \in 0..(n - 1)
      PROVE  since'[t[i]] = Before(t, i)
  <2> HIDE DEF t, n
  <2>1. PICK k \in 0..(n - 1) : t[i] = alloc.lru[k]
    <3>1. t[i] = alloc.lru[IF i = 0 THEN p ELSE IF i <= p THEN i - 1 ELSE i]
      BY <1>4 DEF MovesToFront
    <3>2. (IF i = 0 THEN p ELSE IF i <= p THEN i - 1 ELSE i) \in 0..(n - 1)
      BY <1>1
    <3> QED BY <3>1, <3>2
  <2>2. since[alloc.lru[k]] = Before(alloc.lru, k) /\ alloc.lru[k] \in 0..(n - 1)
    BY <1>1 DEF UseInv, LruIsOrderOfUse, Before
  <2>3. CASE k = p
    <3>1. Before(t, i) = {}
      BY <1>1, <1>2, <1>4, <2>1, <2>3, BeforeMovesToFront
    <3> QED
      BY <1>3, <1>5, <2>1, <2>2, <2>3, <3>1
  <2>4. CASE k # p
    <3>1. Before(t, i) = Before(alloc.lru, k) \cup {alloc.lru[p]}
      BY <1>1, <1>2, <1>4, <2>1, <2>4, BeforeMovesToFront
    <3>2. alloc.lru[k] # voice
      BY <1>2, <1>3, <2>4 DEF OneToOne
    <3> QED
      BY <1>3, <1>5, <2>1, <2>2, <3>1, <3>2
  <2> QED
    BY <2>3, <2>4
<1>8. alloc'.lru = t /\ VoicesOf(alloc)' = 0..(n - 1)
  BY <1>1
<1> QED
  <2> HIDE DEF t, n
  <2>1. since' \in [VoicesOf(alloc)' -> SUBSET VoicesOf(alloc)']
    BY <1>6, <1>8
  <2>2. \A i \in VoicesOf(alloc)' : since'[alloc'.lru[i]] = {alloc'.lru[j] : j \in 0..(i - 1)}
    BY <1>7, <1>8 DEF Before
  <2> QED
    BY <2>1, <2>2 DEF UseInv, LruIsOrderOfUse

\* Every call keeps lru_ the order of use.
LEMMA OrderStep ==
  ASSUME AllocInv, UseInv, [HNext]_hvars
  PROVE  UseInv'
<1>fresh. (Fresh /\ since = NeverUsed(alloc.size))' => UseInv'
  BY FreshOrder, PTL
<1>0. ASSUME VoicesOf(alloc)' = VoicesOf(alloc), alloc'.lru = alloc.lru, since' = since
      PROVE  UseInv'
  BY <1>0 DEF UseInv, LruIsOrderOfUse
<1>1. ASSUME NEW size \in Sizes, NEW cyclic \in CyclicModes, HReinit(size, cyclic)
      PROVE  UseInv'
  <2>1. Fresh' /\ since' = NeverUsed(alloc'.size)
    BY <1>1, FreshStates DEF HReinit, Reinit, Allocator
  <2> QED
    BY <1>fresh, <2>1
<1>2. ASSUME NEW note \in AllocNotes, HNoteOn(note)
      PROVE  UseInv'
  <2>1. CASE alloc.size = 0
    BY <1>0, <1>2, <2>1 DEF HNoteOn, NoteOn, AfterNoteOn, UseOnNoteOn
  <2>2. CASE alloc.size # 0
    <3>1. VoiceFor(alloc, note) \in VoicesOf(alloc)
      BY <2>2, VoiceForResult DEF AllocInv
    <3>2. /\ VoicesOf(alloc)' = VoicesOf(alloc)
          /\ alloc'.lru = Touch(alloc, VoiceFor(alloc, note))
      BY <1>2, <2>2 DEF HNoteOn, NoteOn, AfterNoteOn, VoicesOf
    <3>3. Use(VoiceFor(alloc, note))
      BY <1>2, <2>2 DEF HNoteOn, UseOnNoteOn
    <3> QED
      BY <3>1, <3>2, <3>3, TouchRecordsUse
  <2> QED
    BY <2>1, <2>2
<1>3. ASSUME NEW note \in AllocNotes, HNoteOff(note)
      PROVE  UseInv'
  <2>1. CASE Find(alloc, note) = None
    BY <1>0, <1>3, <2>1 DEF HNoteOff, NoteOff, AfterNoteOff, UseOnNoteOff
  <2>2. CASE Find(alloc, note) # None /\ IsCyclic(alloc)
    BY <1>0, <1>3, <2>2 DEF HNoteOff, NoteOff, AfterNoteOff, UseOnNoteOff, VoicesOf
  <2>3. CASE Find(alloc, note) # None /\ ~IsCyclic(alloc)
    <3>1. Find(alloc, note) \in VoicesOf(alloc)
      BY <2>3, FindResult DEF AllocInv
    <3>2. /\ VoicesOf(alloc)' = VoicesOf(alloc)
          /\ alloc'.lru = Touch(alloc, Find(alloc, note))
      BY <1>3, <2>3 DEF HNoteOff, NoteOff, AfterNoteOff, VoicesOf
    <3>3. Use(Find(alloc, note))
      BY <1>3, <2>3 DEF HNoteOff, UseOnNoteOff
    <3> QED
      BY <3>1, <3>2, <3>3, TouchRecordsUse
  <2> QED
    BY <2>1, <2>2, <2>3
<1>4. ASSUME HClearNotes
      PROVE  UseInv'
  BY <1>0, <1>4 DEF HClearNotes, ClearNotes, AfterClearNotes, VoicesOf
<1>5. ASSUME HClear
      PROVE  UseInv'
  <2>1. Fresh' /\ since' = NeverUsed(alloc'.size)
    BY <1>5, FreshStates DEF HClear, Clear, AfterClear, Allocator, AllocInv
  <2> QED
    BY <1>fresh, <2>1
<1>6. CASE UNCHANGED hvars
  BY <1>0, <1>6 DEF hvars, VoicesOf
<1> QED
  BY <1>1, <1>2, <1>3, <1>4, <1>5, <1>6 DEF HNext

\* Outside cyclic mode the voice allocator implements the abstract pool, for
\* every set of notes and every pool size, and whatever happened in cyclic
\* mode before: a note is played by one voice, is stolen only from a full
\* pool, and stops only its own voice.  It chooses by the order of use.
THEOREM ImplementsVoicePool == HSpec => ImplementsPool
<1>1. Init => Pool!PoolInit
  <2> SUFFICES ASSUME Init
               PROVE  Pool!PoolInit
    OBVIOUS
  <2>1. Fresh
    BY FreshStates
  <2>2. Playing = Pool!Silence(alloc.size) /\ alloc.size \in Sizes
    BY <2>1, FreshIsSilent DEF Fresh, IsSilent, Pool!Silence, Pool!Free, None, VoicesOf
  <2> QED
    BY <2>2 DEF Pool!PoolInit, Playing
<1>2. AllocInv /\ AllocInv' /\ [Next]_alloc
         => (~IsCyclic(alloc') => [Pool!PoolNext]_Playing)
  <2> SUFFICES ASSUME AllocInv, AllocInv', [Next]_alloc, ~IsCyclic(alloc')
               PROVE  [Pool!PoolNext]_Playing
    OBVIOUS
  <2>1. Fresh' => IsSilent'
    BY FreshIsSilent, PTL
  <2>2. ASSUME NEW size \in Sizes, NEW cyclic \in CyclicModes, Reinit(size, cyclic)
        PROVE  Pool!PoolNext
    <3>1. Playing' = Pool!Silence(size)
      BY <2>1, <2>2, FreshStates
         DEF Reinit, Allocator, IsSilent, Pool!Silence, Pool!Free, None, VoicesOf
    <3> QED
      BY <3>1 DEF Pool!PoolNext, Pool!Resize, Playing
  <2>3. ASSUME NEW note \in AllocNotes, NoteOn(note)
        PROVE  Pool!PoolNext
    BY <2>3, NotesKeepMode, PlayStep DEF AllocInv, Pool!PoolNext
  <2>4. ASSUME NEW note \in AllocNotes, NoteOff(note)
        PROVE  Pool!PoolNext
    BY <2>4, NotesKeepMode, StopStep DEF AllocInv, Pool!PoolNext
  <2>5. ASSUME ClearNotes \/ Clear
        PROVE  Pool!PoolNext
    <3>1. /\ VoicesOf(alloc') = VoicesOf(alloc)
          /\ \A v \in VoicesOf(alloc) : alloc'.pool[v] = Inactive(0)
      <4>1. CASE ClearNotes
        BY <4>1 DEF ClearNotes, AfterClearNotes, AllocInv, TypeOK, VoicesOf
      <4>2. CASE Clear
        BY <4>2 DEF Clear, AfterClear, Allocator, VoicesOf
      <4> QED
        BY <2>5, <4>1, <4>2
    <3>2. \A v \in VoicesOf(alloc) : ~alloc'.pool[v].active
      BY <3>1 DEF Inactive
    <3>3. Playing' = [v \in VoicesOf(alloc) |-> None]
      BY <3>1, <3>2 DEF Playing
    <3> QED
      BY <3>3 DEF Pool!PoolNext, Pool!StopAll, Pool!PoolVoices, Pool!Free, Playing, None
  <2>6. CASE UNCHANGED alloc
    BY <2>6 DEF Playing, VoicesOf
  <2> QED
    BY <2>2, <2>3, <2>4, <2>5, <2>6 DEF Next
<1>3. HInit => Init
  BY DEF HInit
<1>4. [HNext]_hvars => [Next]_alloc
  BY DEF HNext, Next, hvars, HReinit, HNoteOn, HNoteOff, HClearNotes, HClear
<1>5. HSpec => Spec
  BY <1>3, <1>4, PTL DEF HSpec, Spec
<1>6. HInit => UseInv
  BY FreshStates, FreshOrder DEF HInit
<1>7. UseInv => LruIsOrderOfUse
  BY DEF UseInv
<1> QED
  BY <1>1, <1>2, <1>3, <1>4, <1>5, <1>6, <1>7, OrderStep, AllocInvariant, PTL
     DEF HSpec, ImplementsPool

-----------------------------------------------------------------------------
(* The stack of keys of MONO beside it.                                    *)

\* The two instances of the stack of keys are the same operators.
LEMMA SameStack ==
  /\ Stack!EmptyStack = KS!EmptyStack
  /\ \A s : Stack!Listing(s) = KS!Listing(s)
  /\ \A s, note : Stack!AfterFlag(s, note) = KS!AfterFlag(s, note)
  /\ \A s, note : Stack!AfterNoteOff(s, note) = KS!AfterNoteOff(s, note)
  /\ \A s, note, velocity :
        Stack!AfterNoteOn(s, note, velocity) = KS!AfterNoteOn(s, note, velocity)
<1>1. Stack!FreeEntry = KS!FreeEntry /\ Stack!Slots = KS!Slots
  BY DEF Stack!FreeEntry, KS!FreeEntry, Stack!FreeSlot, KS!FreeSlot, Stack!Slots, KS!Slots
<1>2. Stack!EmptyStack = KS!EmptyStack
  BY <1>1 DEF Stack!EmptyStack, KS!EmptyStack
<1>3. \A s, i : Stack!NoteAt(s, i) = KS!NoteAt(s, i)
  BY DEF Stack!NoteAt, KS!NoteAt
<1>4. \A s : Stack!Size(s) = KS!Size(s) /\ Stack!MostRecentNote(s) = KS!MostRecentNote(s)
  BY <1>3 DEF Stack!Size, KS!Size, Stack!MostRecentNote, KS!MostRecentNote, Stack!FreeSlot,
         KS!FreeSlot
<1>5. \A s, order : Stack!Threads(s, order) = KS!Threads(s, order)
  BY DEF Stack!Threads, KS!Threads
<1>6. \A s : Stack!Listing(s) = KS!Listing(s)
  BY <1>1, <1>5 DEF Stack!Listing, KS!Listing, Stack!SeqOf, KS!SeqOf, Stack!IsInjective,
         KS!IsInjective
<1>7. \A s, order, note : Stack!PlaceOf(s, order, note) = KS!PlaceOf(s, order, note)
  BY DEF Stack!PlaceOf, KS!PlaceOf, Stack!NoteAt, KS!NoteAt, Stack!Min, KS!Min
<1>8. \A t, i : Stack!RemoveAt(t, i) = KS!RemoveAt(t, i)
  BY DEF Stack!RemoveAt, KS!RemoveAt
<1>9. ASSUME NEW s, NEW note
      PROVE  Stack!AfterNoteOff(s, note) = KS!AfterNoteOff(s, note)
  BY <1>1, <1>6, <1>7, <1>8 DEF Stack!AfterNoteOff, KS!AfterNoteOff
<1>10. \A s : Stack!LeastRecentNote(s) = KS!LeastRecentNote(s)
  BY DEF Stack!LeastRecentNote, KS!LeastRecentNote, Stack!Slots, KS!Slots, Stack!NoteAt,
         KS!NoteAt, Stack!Max, KS!Max
<1>11. ASSUME NEW s, NEW note
      PROVE  Stack!WithRoomFor(s, note) = KS!WithRoomFor(s, note)
  BY <1>4, <1>9, <1>10 DEF Stack!WithRoomFor, KS!WithRoomFor
<1>12. ASSUME NEW s, NEW note
      PROVE  Stack!InsertionPoint(s, note) = KS!InsertionPoint(s, note)
  BY DEF Stack!InsertionPoint, KS!InsertionPoint, Stack!Size, KS!Size, Stack!NoteAt,
         KS!NoteAt, Stack!Min, KS!Min
<1>13. ASSUME NEW s, NEW note, NEW velocity
      PROVE  Stack!Push(s, note, velocity) = KS!Push(s, note, velocity)
  BY <1>1, <1>3, <1>12 DEF Stack!Push, KS!Push, Stack!FreeSlot, KS!FreeSlot, Stack!Min, KS!Min,
         Stack!InsertAt, KS!InsertAt
<1>14. ASSUME NEW s, NEW note, NEW velocity
      PROVE  Stack!AfterNoteOn(s, note, velocity) = KS!AfterNoteOn(s, note, velocity)
  BY <1>11, <1>13 DEF Stack!AfterNoteOn, KS!AfterNoteOn
<1>15. \A s, note : Stack!AfterFlag(s, note) = KS!AfterFlag(s, note)
  BY <1>1, <1>3 DEF Stack!AfterFlag, KS!AfterFlag
<1> QED
  BY <1>2, <1>6, <1>9, <1>14, <1>15

LEMMA SameMachine ==
  /\ (Stack!Init <=> KS!Init)
  /\ (Stack!Next <=> KS!Next)
  /\ Stack!Held = KS!Held
  /\ Stack!Held' = KS!Held'
<1>1. Stack!Init <=> KS!Init
  BY SameStack DEF Stack!Init, KS!Init
<1>2. Stack!Clear <=> KS!Clear
  BY SameStack DEF Stack!Clear, KS!Clear
<1>3. \A note : Stack!NoteOff(note) <=> KS!NoteOff(note)
  BY SameStack DEF Stack!NoteOff, KS!NoteOff
<1>4. \A note : Stack!Flag(note) <=> KS!Flag(note)
  BY SameStack DEF Stack!Flag, KS!Flag
<1>5. \A note, velocity : Stack!NoteOn(note, velocity) <=> KS!NoteOn(note, velocity)
  BY SameStack DEF Stack!NoteOn, KS!NoteOn
<1>6. Stack!Next <=> KS!Next
  BY <1>2, <1>3, <1>4, <1>5 DEF Stack!Next, KS!Next
<1>7. Stack!Held = KS!Held
  BY SameStack DEF Stack!Held, KS!Held
<1>8. Stack!Held' = KS!Held'
  BY SameStack DEF Stack!Held, KS!Held
<1> QED
  BY <1>1, <1>6, <1>7, <1>8

LEMMA SameAbstraction ==
  /\ (Stack!Keys!KeysInit <=> KS!Keys!KeysInit)
  /\ (Stack!Keys!KeysNext <=> KS!Keys!KeysNext)
<1>1. Stack!Keys!KeysInit <=> KS!Keys!KeysInit
  BY SameMachine DEF Stack!Keys!KeysInit, KS!Keys!KeysInit
<1>2. \A note : Stack!Keys!Without(note) = KS!Keys!Without(note)
  BY SameMachine DEF Stack!Keys!Without, KS!Keys!Without, Stack!Keys!RemoveAt, KS!Keys!RemoveAt
<1>3. \A s : Stack!Keys!Front(s) = KS!Keys!Front(s)
  BY DEF Stack!Keys!Front, KS!Keys!Front
<1>4. \A note, velocity : Stack!Keys!Press(note, velocity) <=> KS!Keys!Press(note, velocity)
  BY <1>2, <1>3, SameMachine DEF Stack!Keys!Press, KS!Keys!Press
<1>5. \A note : Stack!Keys!Release(note) <=> KS!Keys!Release(note)
  BY <1>2, SameMachine DEF Stack!Keys!Release, KS!Keys!Release
<1>6. \A note : Stack!Keys!Sustain(note) <=> KS!Keys!Sustain(note)
  BY SameMachine DEF Stack!Keys!Sustain, KS!Keys!Sustain
<1>7. Stack!Keys!ReleaseAll <=> KS!Keys!ReleaseAll
  BY SameMachine DEF Stack!Keys!ReleaseAll, KS!Keys!ReleaseAll
<1>8. Stack!Keys!KeysNext <=> KS!Keys!KeysNext
  BY <1>4, <1>5, <1>6, <1>7 DEF Stack!Keys!KeysNext, KS!Keys!KeysNext
<1> QED
  BY <1>1, <1>8

\* ImplementsKeyStack holds of the two allocators of a part, whatever mode uses
\* the storage and however often it changes, for every capacity and set of notes.
THEOREM PartKeepsKeys ==
  ASSUME Capacity \in Nat \ {0}, StackNotes \subseteq 0..127
  PROVE  ASpec => ImplementsKeyStack
<1>1. AInit => KS!StackInv /\ Stack!Keys!KeysInit
  BY KS!StackStarts, SameMachine, SameAbstraction DEF AInit
<1>2. [ANext]_avars => [KS!Next]_stack
  BY SameMachine DEF ANext, avars, UseStack, UsePool, StackStep, PoolNoteOn, PoolNoteOff,
     PoolClearNotes, PoolClear, Stack!Next
<1>3. KS!StackInv /\ [ANext]_avars => KS!StackInv' /\ [Stack!Keys!KeysNext]_(Stack!Held)
  BY <1>2, KS!StackSteps, SameMachine, SameAbstraction
<1> QED
  BY <1>1, <1>3, PTL DEF ASpec, ImplementsKeyStack, Stack!Keys!KeysSpec

-----------------------------------------------------------------------------
(* The clock.                                                              *)

Durations(t) == {Tables[t][i] : i \in DOMAIN Tables[t]}

\* The duration of the current step of the groove.
Expected == Tables[tempo][IF retuned THEN 0 ELSE step]

\* The main loop is in the middle of num_clock_events_-- or of Multi::Clock before it.
Processing == pc \in {"load", "store"} \/ (pc = "half" /\ resume = "load")

\* num_clock_events_ cannot tell a from b.
Same(a, b) == \E k \in Int : a = b + (k * EventSize)

ClockTypeOK ==
    /\ tempo \in DOMAIN Tables
    /\ counter \in Nat /\ old \in Nat /\ step \in Nat
    /\ events \in 0..(EventSize - 1) /\ reg \in 0..(EventSize - 1)
    /\ pass \in Nat /\ owed \in Int /\ missed \in Nat
    /\ pc \in {"events", "clocks", "half", "load", "store"} /\ resume \in {"events", "load"}

\* The duration is that of the step, but while it is being written.
DurationInv ==
    /\ new \in Durations(tempo) /\ new = Expected
    /\ pc # "half" => duration = new
    /\ pc = "half" => duration \in HalfWritten(old, new)

\* What is owed is what is counted, less the tick that is being processed.  From the load to
\* the store the copy counts, without the ticks that come after it.
OwedInv ==
    /\ ~Processing => Same(owed, events)
    /\ Processing /\ pc # "store" => Same(owed + 1, events)
    /\ pc = "store" => Same((owed + 1) - missed, reg)
    /\ pc # "store" => missed = 0

\* A tick that is still counted has come in this pass, so that the counter is younger than it.
YoungInv == events # 0 \/ Processing => counter < pass

ClockInv == ClockTypeOK /\ DurationInv /\ OwedInv /\ YoungInv

-----------------------------------------------------------------------------
(* Numbers that the counter of ticks cannot tell apart.                    *)

LEMMA SameAsItself == ASSUME NEW a \in Int PROVE Same(a, a)
  <1>1. a = a + (0 * EventSize) /\ 0 \in Int
    BY ClockAssumption
  <1>2. QED
    BY <1>1 DEF Same

LEMMA SameAfterStep ==
    ASSUME NEW a \in Int, NEW b \in Int, NEW c \in Int, Same(a, b)
    PROVE  Same(a + c, b + c)
  <1>1. PICK k \in Int : a = b + (k * EventSize)
    BY DEF Same
  <1>2. k * EventSize \in Int
    BY ClockAssumption
  <1>3. a + c = (b + c) + (k * EventSize)
    BY <1>1, <1>2
  <1>4. QED
    BY <1>3 DEF Same

\* The counter is decremented.
LEMMA SameOneLess ==
    ASSUME NEW a \in Int, NEW b \in Int, Same(a, b)
    PROVE  Same(a - 1, (b + EventSize) - 1)
  <1>1. PICK k \in Int : a = b + (k * EventSize)
    BY DEF Same
  <1>2. PICK m \in Int : m = k - 1
    OBVIOUS
  <1>3. k * EventSize = EventSize + (m * EventSize) /\ m * EventSize \in Int
    BY <1>2, ClockAssumption
  <1>4. a - 1 = ((b + EventSize) - 1) + (m * EventSize)
    BY <1>1, <1>3, ClockAssumption
  <1>5. QED
    BY <1>4 DEF Same

\* A number counts as its remainder does, for any size of the counter.
LEMMA SameAsRemainder ==
    ASSUME NEW a \in Int, NEW b \in Int, Same(a, b)
    PROVE  Same(a, b % EventSize) /\ b % EventSize \in 0..(EventSize - 1)
  <1>1. PICK k \in Int : a = b + (k * EventSize)
    BY DEF Same
  <1>2. PICK q \in Int : q = b \div EventSize
    BY ClockAssumption
  <1>3. b = (EventSize * q) + (b % EventSize) /\ b % EventSize \in 0..(EventSize - 1)
    BY <1>2, ClockAssumption
  <1>4. k + q \in Int /\ (k + q) * EventSize = (k * EventSize) + (EventSize * q)
    BY <1>1, <1>2, ClockAssumption
  <1>5. k * EventSize \in Int /\ EventSize * q \in Int
    BY ClockAssumption
  <1>6. a = (b % EventSize) + ((k + q) * EventSize)
    BY <1>1, <1>3, <1>4, <1>5
  <1>7. QED
    BY <1>3, <1>4, <1>6 DEF Same

LEMMA RemainderOfSame ==
    ASSUME NEW a \in Int, NEW b \in 0..(EventSize - 1), Same(a, b)
    PROVE  a % EventSize = b
  <1>1. PICK k \in Int : a = b + (k * EventSize)
    BY DEF Same
  <1>2. PICK q \in Int : q = a \div EventSize
    BY ClockAssumption
  <1>3. a = (EventSize * q) + (a % EventSize) /\ a % EventSize \in 0..(EventSize - 1)
    BY <1>2, ClockAssumption
  <1>4. (a % EventSize) - b = (k - q) * EventSize
    <2>1. (k - q) * EventSize = (k * EventSize) - (EventSize * q)
      BY ClockAssumption
    <2>2. k * EventSize \in Int /\ EventSize * q \in Int
      BY ClockAssumption
    <2>3. QED
      BY <1>1, <1>3, <2>1, <2>2
  <1>5. k = q
    <2>1. CASE k > q
      <3>1. (k - q) * EventSize >= EventSize
        BY <2>1, ClockAssumption
      <3>2. QED
        BY <1>3, <1>4, <3>1, ClockAssumption
    <2>2. CASE k < q
      <3>1. (k - q) * EventSize <= 0 - EventSize
        BY <2>2, ClockAssumption
      <3>2. QED
        BY <1>3, <1>4, <3>1, ClockAssumption
    <2>3. QED
      BY <2>1, <2>2
  <1>6. QED
    BY <1>3, <1>4, <1>5, ClockAssumption

-----------------------------------------------------------------------------
(* Durations.                                                              *)

LEMMA StepsOfTable ==
    ASSUME NEW t \in DOMAIN Tables
    PROVE  /\ Cardinality(DOMAIN Tables[t]) \in Nat \ {0}
           /\ DOMAIN Tables[t] = 0..(Cardinality(DOMAIN Tables[t]) - 1)
           /\ Durations(t) \subseteq Nat
  BY ClockAssumption DEF Durations

LEMMA FirstDuration ==
    ASSUME NEW t \in DOMAIN Tables
    PROVE  Tables[t][0] \in Durations(t)
  <1>1. 0 \in DOMAIN Tables[t]
    BY StepsOfTable
  <1>2. QED
    BY <1>1 DEF Durations

LEMMA NextDuration ==
    ASSUME NEW t \in DOMAIN Tables, NEW n \in Nat
    PROVE  LET next == (n + 1) % Cardinality(DOMAIN Tables[t])
           IN  next \in Nat /\ Tables[t][next] \in Durations(t)
  <1> DEFINE size == Cardinality(DOMAIN Tables[t])
             next == (n + 1) % size
  <1>1. size \in Nat \ {0} /\ DOMAIN Tables[t] = 0..(size - 1)
    BY StepsOfTable
  <1> HIDE DEF size
  <1>2. next \in 0..(size - 1)
    BY <1>1
  <1>3. QED
    BY <1>1, <1>2 DEF Durations, size

\* The interrupt reads an integer, whatever part of the new duration it finds.
LEMMA HalvesAreIntegers ==
    ASSUME NEW from \in Nat, NEW to \in Nat
    PROVE  HalfWritten(from, to) \subseteq Int
  <1>1. /\ to \div ByteSize \in Int /\ from \div ByteSize \in Int
        /\ to % ByteSize \in Int /\ from % ByteSize \in Int
    BY ClockAssumption
  <1>2. QED
    BY <1>1, ClockAssumption DEF HalfWritten

\* Of two durations that have a byte in common, the interrupt finds one or the other.
LEMMA HalvesNotTorn ==
    ASSUME NEW from \in Nat, NEW to \in Nat,
           from \div ByteSize = to \div ByteSize \/ from % ByteSize = to % ByteSize
    PROVE  HalfWritten(from, to) \subseteq {from, to}
  <1>1. /\ from = (ByteSize * (from \div ByteSize)) + (from % ByteSize)
        /\ to = (ByteSize * (to \div ByteSize)) + (to % ByteSize)
    BY ClockAssumption
  <1>2. QED
    BY <1>1 DEF HalfWritten

-----------------------------------------------------------------------------
(* The invariant.                                                          *)

LEMMA ClockInitially == ClockInit => ClockInv
  <1> SUFFICES ASSUME ClockInit PROVE ClockInv
    OBVIOUS
  <1>1. duration \in Durations(tempo) /\ duration \in Nat
    BY FirstDuration, StepsOfTable DEF ClockInit
  <1>2. Same(owed, events)
    BY SameAsItself DEF ClockInit
  <1>3. QED
    BY <1>1, <1>2, ClockAssumption DEF ClockInit, ClockInv, ClockTypeOK, DurationInv, Expected,
       OwedInv, YoungInv, Processing

\* The interrupt compares with an integer.
LEMMA DurationFound ==
    ASSUME ClockInv
    PROVE  duration \in Int /\ new \in Nat /\ old \in Nat
  <1>1. tempo \in DOMAIN Tables /\ new \in Durations(tempo) /\ old \in Nat
    BY DEF ClockInv, ClockTypeOK, DurationInv
  <1>2. new \in Nat
    BY <1>1, StepsOfTable
  <1>3. QED
    BY <1>1, <1>2, HalvesAreIntegers DEF ClockInv, DurationInv

\* tick_duration_ = d for the duration of the step to come, which keeps the part of the
\* invariant about durations.
LEMMA SetDurationKeeps ==
    ASSUME ClockInv, NEW d, NEW next \in {"events", "load"},
           d \in Durations(tempo'), d = Expected', pc # "half", SetDuration(d, next)
    PROVE  /\ DurationInv' /\ old' \in Nat
           /\ pc' = "half" /\ resume' = next
  BY DurationFound DEF ClockInv, DurationInv, SetDuration

LEMMA TickStep == ClockInv /\ Tick => ClockInv'
  <1> SUFFICES ASSUME ClockInv, Tick PROVE ClockInv'
    OBVIOUS
  <1>1. /\ DurationInv' /\ Processing' = Processing
        /\ UNCHANGED <<tempo, step, old, pc, resume, reg>>
    BY DEF ClockInv, DurationInv, Expected, Processing, Tick, state, writing
  <1>2. pass' = pass + 1 /\ pass' \in Nat
    BY DEF ClockInv, ClockTypeOK, Tick
  <1>3. CASE Generates
    <2>1. /\ counter' = 0 /\ owed' = owed + 1 /\ events' = (events + 1) % EventSize
          /\ missed' = IF pc = "store" THEN missed + 1 ELSE missed
      BY <1>3 DEF Generates
    <2>2. events' \in 0..(EventSize - 1)
      BY <2>1, ClockAssumption DEF ClockInv, ClockTypeOK
    <2>3. ClockTypeOK'
      BY <1>1, <1>2, <2>1, <2>2 DEF ClockInv, ClockTypeOK
    <2>4. OwedInv'
      <3>1. owed \in Int /\ events \in Int /\ missed \in Nat
        BY DEF ClockInv, ClockTypeOK
      <3>2. CASE pc = "store"
        <4>1. (owed' + 1) - missed' = (owed + 1) - missed
          BY <2>1, <3>1, <3>2
        <4>2. QED
          BY <1>1, <3>2, <4>1 DEF ClockInv, OwedInv, Processing
      <3>3. CASE ~Processing
        <4>1. Same(owed + 1, events + 1)
          BY <3>1, <3>3, SameAfterStep DEF ClockInv, OwedInv
        <4>2. Same(owed', events')
          BY <2>1, <3>1, <4>1, SameAsRemainder
        <4>3. QED
          BY <1>1, <2>1, <3>3, <4>2 DEF ClockInv, OwedInv, Processing
      <3>4. CASE Processing /\ pc # "store"
        <4>1. Same((owed + 1) + 1, events + 1)
          <5>1. Same(owed + 1, events) /\ owed + 1 \in Int
            BY <3>1, <3>4 DEF ClockInv, OwedInv
          <5>2. PICK more \in Int : more = owed + 1
            BY <3>1
          <5>3. Same(more, events)
            BY <5>1, <5>2
          <5>4. Same(more + 1, events + 1)
            BY <3>1, <5>3, SameAfterStep
          <5>5. QED
            BY <5>2, <5>4
        <4>2. Same(owed' + 1, events')
          BY <2>1, <3>1, <4>1, SameAsRemainder
        <4>3. QED
          BY <1>1, <2>1, <3>4, <4>2 DEF ClockInv, OwedInv
      <3>5. QED
        BY <3>2, <3>3, <3>4
    <2>5. YoungInv'
      BY <1>2, <2>1 DEF YoungInv, ClockInv, ClockTypeOK
    <2>6. QED
      BY <1>1, <2>3, <2>4, <2>5 DEF ClockInv
  <1>4. CASE counter' = counter + 1 /\ UNCHANGED <<events, owed, missed>>
    BY <1>1, <1>2, <1>4 DEF ClockInv, ClockTypeOK, OwedInv, YoungInv
  <1>5. QED
    BY <1>3, <1>4 DEF Tick

\* Multi::Clock goes on to the next step of the groove.
LEMMA ClockThenKeeps ==
    ASSUME ClockInv, NEW next \in {"events", "load"}, pc # "half", ClockThen(next)
    PROVE  /\ DurationInv' /\ old' \in Nat /\ step' \in Nat /\ tempo' = tempo
           /\ \/ pc' = next /\ UNCHANGED resume
              \/ pc' = "half" /\ resume' = next
  <1>1. tempo \in DOMAIN Tables /\ step \in Nat /\ old \in Nat /\ tempo' = tempo
    BY DEF ClockInv, ClockTypeOK, ClockThen
  <1>2. CASE tick' = 0
    <2>1. /\ step' = (step + 1) % Cardinality(GrooveSteps) /\ retuned' = FALSE
          /\ SetDuration(Tables[tempo][step'], next)
      BY <1>2 DEF ClockThen
    <2>2. step' \in Nat /\ Tables[tempo][step'] \in Durations(tempo')
      BY <1>1, <2>1, NextDuration DEF GrooveSteps
    <2>3. Tables[tempo][step'] = Expected'
      BY <1>1, <2>1 DEF Expected
    <2>4. QED
      BY <1>1, <2>1, <2>2, <2>3, SetDurationKeeps
  <1>3. CASE tick' # 0
    BY <1>1, <1>3 DEF ClockThen, ClockInv, DurationInv, Expected, writing
  <1>4. QED
    BY <1>2, <1>3

LEMMA ClockStep == ClockInv /\ [ClockNext]_clockvars => ClockInv'
  <1> SUFFICES ASSUME ClockInv, [ClockNext]_clockvars PROVE ClockInv'
    OBVIOUS
  <1> USE ClockAssumption DEF ClockInv, ClockTypeOK, OwedInv, YoungInv, Processing, counts
  <1>1. CASE Tick
    BY <1>1, TickStep
  <1>2. ASSUME Started, pc = "events", tempo' = tempo
        PROVE  DurationInv' /\ old' \in Nat /\ step' \in Nat /\ pc' = "half" /\ resume' = "events"
    <2>1. /\ step' = 0 /\ retuned' = FALSE
          /\ SetDuration(Tables[tempo][0], "events")
      BY <1>2 DEF Started
    <2>2. Tables[tempo][0] \in Durations(tempo') /\ Tables[tempo][0] = Expected'
      BY <1>2, <2>1, FirstDuration DEF Expected
    <2>3. QED
      BY <1>2, <2>1, <2>2, SetDurationKeeps
  <1>3. CASE Start
    BY <1>2, <1>3 DEF Start
  <1>4. CASE Stop
    BY <1>4 DEF Stop, shared, writing, DurationInv, Expected
  <1>5. CASE KeyDown
    <2>1. CASE running
      BY <1>5, <2>1 DEF KeyDown, shared, writing, DurationInv, Expected
    <2>2. CASE ~running
      BY <1>2, <1>5, <2>2 DEF KeyDown
    <2>3. QED
      BY <2>1, <2>2
  <1>6. CASE KeyUp
    BY <1>6 DEF KeyUp, shared, writing, DurationInv, Expected
  <1>7. CASE MidiClock
    <2>1. ClockThen("events")
      BY <1>7 DEF MidiClock
    <2>2. QED
      BY <1>7, <2>1, ClockThenKeeps DEF MidiClock
  <1>8. ASSUME NEW t \in DOMAIN Tables, SetTempo(t)
        PROVE  ClockInv'
    <2>1. tempo' = t /\ retuned' = TRUE /\ SetDuration(Tables[t][0], "events") /\ pc = "events"
      BY <1>8 DEF SetTempo
    <2>2. Tables[t][0] \in Durations(tempo') /\ Tables[t][0] = Expected'
      BY <2>1, FirstDuration DEF Expected
    <2>3. DurationInv' /\ old' \in Nat /\ pc' = "half" /\ resume' = "events"
      BY <2>1, <2>2, SetDurationKeeps
    <2>4. QED
      BY <1>8, <2>1, <2>3 DEF SetTempo
  <1>9. CASE FinishWrite
    BY <1>9, DurationFound DEF FinishWrite, state, DurationInv, Expected
  <1>10. CASE UpdateClocks
    BY <1>10 DEF UpdateClocks, shared, state, writing, DurationInv, Expected
  <1>11. CASE DropTicks
    BY <1>11, SameAsItself DEF DropTicks, state, writing, DurationInv, Expected
  <1>12. CASE NoMoreTicks
    BY <1>12, SameAsItself DEF NoMoreTicks, shared, state, writing, DurationInv, Expected
  <1>13. CASE Clock
    <2>1. ClockThen("load") /\ owed' = owed - 1 /\ owed' + 1 = owed
      BY <1>13 DEF Clock
    <2>2. QED
      BY <1>13, <2>1, ClockThenKeeps DEF Clock
  <1>14. CASE LoadEvents
    <2>1. (owed + 1) - missed = owed + 1
      BY <1>14 DEF LoadEvents
    <2>2. QED
      BY <1>14, <2>1 DEF LoadEvents, shared, state, writing, DurationInv, Expected
  <1>15. CASE StoreEvents
    <2>1. /\ pc = "store" /\ events' = ((reg + EventSize) - 1) % EventSize /\ pc' = "clocks"
          /\ owed' = owed - missed /\ missed' = 0
      BY <1>15 DEF StoreEvents
    <2>2. Same(((owed + 1) - missed) - 1, (reg + EventSize) - 1)
      BY <2>1, SameOneLess
    <2>3. ((owed + 1) - missed) - 1 = owed - missed
      BY <2>1
    <2>4. Same(owed', events') /\ events' \in 0..(EventSize - 1)
      BY <2>1, <2>2, <2>3, SameAsRemainder
    <2>5. QED
      BY <1>15, <2>1, <2>4 DEF StoreEvents, state, writing, DurationInv, Expected
  <1>16. CASE UNCHANGED clockvars
    BY <1>16 DEF clockvars, shared, state, writing, DurationInv, Expected
  <1>17. QED
    BY <1>1, <1>3, <1>4, <1>5, <1>6, <1>7, <1>8, <1>9, <1>10, <1>11, <1>12, <1>13, <1>14,
       <1>15, <1>16 DEF ClockNext

-----------------------------------------------------------------------------
(* The property.                                                           *)

LEMMA CountedTicks == ClockInv => TicksAreCounted
  BY RemainderOfSame DEF ClockInv, ClockTypeOK, OwedInv, Processing, TicksAreCounted

\* A tick that a load has missed has come after another one in the same pass.
LEMMA LateLoops == ClockInv => OnlyLateLoopsLose
  <1> SUFFICES ASSUME ClockInv, Tick, missed' > missed PROVE pass' > duration
    BY DEF OnlyLateLoopsLose
  <1>1. missed \in Nat /\ counter \in Nat /\ pass \in Nat /\ duration \in Int
    BY DurationFound DEF ClockInv, ClockTypeOK
  <1>2. counter + 1 >= duration /\ pc = "store" /\ pass' = pass + 1
    BY <1>1 DEF Tick, Generates
  <1>3. counter < pass
    BY <1>2 DEF ClockInv, YoungInv, Processing
  <1>4. QED
    BY <1>1, <1>2, <1>3

\* The interrupt compares with the duration of the step, or with the one that it replaces.
LEMMA DueTicks == ClockInv => TicksAreDue
  <1> SUFFICES ASSUME ClockInv, Tick, ~Torn
               PROVE  \E d \in Due : owed' > owed <=> counter + 1 >= d
    BY DEF TicksAreDue
  <1>1. counter \in Nat /\ owed \in Int /\ duration \in Int /\ new \in Nat /\ old \in Nat
    BY DurationFound DEF ClockInv, ClockTypeOK
  <1>2. duration \in Due
    <2>1. CASE pc # "half"
      BY <2>1 DEF ClockInv, DurationInv, Expected, Due
    <2>2. CASE pc = "half"
      <3>1. old \div ByteSize = new \div ByteSize \/ old % ByteSize = new % ByteSize
        BY <2>2 DEF Torn
      <3>2. duration \in {old, new}
        BY <1>1, <2>2, <3>1, HalvesNotTorn DEF ClockInv, DurationInv
      <3>3. QED
        BY <2>2, <3>2 DEF ClockInv, DurationInv, Expected, Due
    <2>3. QED
      BY <2>1, <2>2
  <1>3. owed' > owed <=> counter + 1 >= duration
    BY <1>1 DEF Tick, Generates
  <1>4. QED
    BY <1>2, <1>3

\* "Process ticks generated by the ISR-based clock." (multi.cc:223): whatever the interleaving
\* of the interrupt and the main loop, however long a pass of the loop takes, and in whatever
\* order the compiler stores the bytes of tick_duration_, the ticks are counted until they are
\* processed, but for those that come in the middle of num_clock_events_-- of a pass longer than
\* a tick; and they come when they are due, but while both bytes of the duration change.
THEOREM ClockKeepsTime == ClockSpec => TicksKeepTime
  <1>1. ClockInit => ClockInv
    BY ClockInitially
  <1>2. ClockInv /\ [ClockNext]_clockvars => ClockInv'
    BY ClockStep
  <1>3. ClockInv => TicksAreCounted
    BY CountedTicks
  <1>4. ClockInv => OnlyLateLoopsLose /\ TicksAreDue
    BY LateLoops, DueTicks
  <1>5. QED
    BY <1>1, <1>2, <1>3, <1>4, PTL DEF ClockSpec, TicksKeepTime

-----------------------------------------------------------------------------
(* The counter of the updates of the LFOs (LfoRefresh).                    *)

RefreshTypeOK ==
    /\ build \in [lowLoad : BOOLEAN, lowStore : BOOLEAN, reload : BOOLEAN]
    /\ refresh \in 0..(WordSize - 1) /\ copy \in Nat /\ hit \in BOOLEAN
    /\ begin \in Nat /\ ticks \in Nat /\ updates \in Nat
    /\ at \in {"rest", "compare", "comparing", "test", "subtract", "subtracting", "store",
               "storing"}

\* The ticks that neither an update stands for nor the counter still holds.
Lost == (begin + ticks) - (kControlRate * updates) - refresh

\* The copy is the counter, or one tick behind it.
FreshCopy(x) == refresh - x \in 0..1 /\ (~hit => refresh = x)

\* What the registers hold of the counter, at each point of the loop.
CopyInv ==
    /\ at \in {"comparing", "subtracting"} =>
           IF build.lowLoad THEN FreshCopy(copy) ELSE copy = 0
    /\ at \in {"test", "store"} => FreshCopy(copy)
    /\ at \in {"subtract", "subtracting"} => refresh >= kControlRate
    /\ at = "subtracting" /\ build.lowLoad => copy >= kControlRate
    /\ at \in {"store", "storing"} => copy >= kControlRate
    /\ at = "storing" =>
           IF build.lowStore THEN FreshCopy(copy - kControlRate) ELSE FreshCopy(copy)

\* While the counter stays in one byte, an update loses at most one tick; where the low byte is
\* stored first, the update that comes has already been taken from it.
RateInv ==
    begin + ticks < RefreshByteSize =>
        /\ refresh <= begin + ticks
        /\ CopyInv
        /\ IF at = "storing" /\ build.lowStore THEN Lost - kControlRate \in 0..(updates + 1)
           ELSE Lost \in 0..updates

RefreshInv == RefreshTypeOK /\ RateInv

\* A number below the size of a byte is its low byte.
LEMMA OneByte ==
    ASSUME NEW x \in 0..(RefreshByteSize - 1)
    PROVE  /\ LowByte(x) = x /\ HighByte(x) = 0 /\ Of(0, x) = x
           /\ x \in 0..(WordSize - 1)
  <1>1. LowByte(x) = x /\ HighByte(x) = 0
    BY RefreshAssumption DEF LowByte, HighByte
  <1>2. Of(0, x) = x
    BY RefreshAssumption DEF Of
  <1>3. RefreshByteSize <= WordSize
    BY RefreshAssumption DEF WordSize
  <1>4. WordSize \in Nat
    BY RefreshAssumption DEF WordSize
  <1>5. QED
    BY <1>1, <1>2, <1>3, <1>4, RefreshAssumption

\* Whatever the bytes, the counter stays a word.
LEMMA TwoBytes ==
    ASSUME NEW x \in 0..(WordSize - 1)
    PROVE  /\ LowByte(x) \in 0..(RefreshByteSize - 1)
           /\ HighByte(x) \in 0..(RefreshByteSize - 1)
  <1>1. LowByte(x) \in 0..(RefreshByteSize - 1)
    BY RefreshAssumption DEF LowByte, WordSize
  <1>2. HighByte(x) \in 0..(RefreshByteSize - 1)
    BY RefreshAssumption DEF HighByte, WordSize
  <1>3. QED
    BY <1>1, <1>2

LEMMA Joined ==
    ASSUME NEW high \in 0..(RefreshByteSize - 1), NEW low \in 0..(RefreshByteSize - 1)
    PROVE  Of(high, low) \in 0..(WordSize - 1)
  <1>1. RefreshByteSize * high <= RefreshByteSize * (RefreshByteSize - 1)
    BY RefreshAssumption
  <1>2. QED
    BY <1>1, RefreshAssumption DEF Of, WordSize

LEMMA TakenIsWord ==
    ASSUME NEW x \in Nat PROVE Taken(x) \in 0..(WordSize - 1)
  <1>1. WordSize \in Nat \ {0}
    BY RefreshAssumption DEF WordSize
  <1>2. QED
    BY <1>1, RefreshAssumption DEF Taken

LEMMA TakenIsLess ==
    ASSUME NEW x \in kControlRate..(WordSize - 1) PROVE Taken(x) = x - kControlRate
  <1>1. WordSize \in Nat \ {0}
    BY RefreshAssumption DEF WordSize
  <1>2. QED
    BY <1>1, RefreshAssumption DEF Taken

LEMMA OneMoreUpdate ==
    ASSUME NEW u \in Nat PROVE kControlRate * (u + 1) = kControlRate * u + kControlRate
  BY RefreshAssumption

LEMMA RefreshInitially == RefreshInit => RefreshInv
  <1> SUFFICES ASSUME RefreshInit PROVE RefreshInv
    OBVIOUS
  <1>1. 0 \in 0..(RefreshByteSize - 1) /\ kControlRate * 0 = 0
    BY RefreshAssumption
  <1>2. RefreshTypeOK
    BY <1>1, OneByte DEF RefreshInit, RefreshTypeOK
  <1>3. Lost = 0
    BY <1>1 DEF RefreshInit, Lost
  <1>4. QED
    BY <1>2, <1>3, RefreshAssumption DEF RefreshInit, RefreshInv, RateInv, CopyInv

\* In one byte, the counter is its low byte.
LEMMA YoungCounter ==
    ASSUME RefreshInv, begin + ticks < RefreshByteSize
    PROVE  /\ refresh \in 0..(RefreshByteSize - 1) /\ CopyInv
           /\ LowByte(refresh) = refresh /\ HighByte(refresh) = 0 /\ Of(0, refresh) = refresh
  BY OneByte, RefreshAssumption DEF RefreshInv, RefreshTypeOK, RateInv

LEMMA CountTickKeeps == RefreshInv /\ CountTick => RefreshInv'
  <1> SUFFICES ASSUME RefreshInv, CountTick PROVE RefreshInv'
    OBVIOUS
  <1>1. RefreshTypeOK'
    <2>1. WordSize \in Nat \ {0}
      BY RefreshAssumption DEF WordSize
    <2>2. refresh' \in 0..(WordSize - 1)
      BY <2>1 DEF CountTick, RefreshInv, RefreshTypeOK
    <2>3. QED
      BY <2>2 DEF CountTick, RefreshInv, RefreshTypeOK
  <1>2. ASSUME begin' + ticks' < RefreshByteSize PROVE refresh' = refresh + 1
    <2>1. begin + ticks < RefreshByteSize /\ refresh + 1 \in 0..(RefreshByteSize - 1)
      BY <1>2, YoungCounter, RefreshAssumption
         DEF CountTick, RefreshInv, RefreshTypeOK, RateInv
    <2>2. refresh + 1 \in 0..(WordSize - 1) /\ WordSize \in Nat
      BY <2>1, OneByte, RefreshAssumption DEF WordSize
    <2>3. QED
      BY <2>2 DEF CountTick
  <1>3. RateInv'
    BY <1>2, RefreshAssumption
       DEF CountTick, RefreshInv, RefreshTypeOK, RateInv, CopyInv, FreshCopy, Lost
  <1>4. QED
    BY <1>1, <1>3 DEF RefreshInv

LEMMA LoadKeeps == RefreshInv /\ (LoadByte \/ LoadRest) => RefreshInv'
  <1> SUFFICES ASSUME RefreshInv, LoadByte \/ LoadRest PROVE RefreshInv'
    OBVIOUS
  <1>1. LowByte(refresh) \in Nat /\ HighByte(refresh) \in Nat
    BY TwoBytes, RefreshAssumption DEF RefreshInv, RefreshTypeOK
  <1>2. CASE LoadByte
    <2>1. RefreshTypeOK'
      BY <1>1, <1>2 DEF LoadByte, RefreshInv, RefreshTypeOK
    <2>2. RateInv'
      BY <1>2, YoungCounter, RefreshAssumption
         DEF LoadByte, RefreshInv, RefreshTypeOK, RateInv, CopyInv, FreshCopy, Lost
    <2>3. QED
      BY <2>1, <2>2 DEF RefreshInv
  <1>3. CASE LoadRest
    <2>1. RefreshTypeOK'
      <3>1. \A a, b \in Nat : Of(a, b) \in Nat
        BY RefreshAssumption DEF Of
      <3>2. copy' \in Nat
        BY <1>1, <1>3, <3>1 DEF LoadRest, RefreshInv, RefreshTypeOK
      <3>3. QED
        BY <1>3, <3>2 DEF LoadRest, RefreshInv, RefreshTypeOK
    <2>2. ASSUME begin + ticks < RefreshByteSize
          PROVE  copy' = IF build.lowLoad THEN copy ELSE refresh
      <3>1. CopyInv /\ HighByte(refresh) = 0 /\ LowByte(refresh) = refresh
        BY <2>2, YoungCounter
      <3>2. copy \in Nat => Of(0, copy) = copy
        BY RefreshAssumption DEF Of
      <3>3. Of(0, refresh) = refresh
        BY <2>2, YoungCounter
      <3>4. QED
        BY <1>3, <3>1, <3>2, <3>3 DEF LoadRest, CopyInv, RefreshInv, RefreshTypeOK
    <2>3. RateInv'
      BY <1>3, <2>2, YoungCounter, RefreshAssumption
         DEF LoadRest, RefreshInv, RefreshTypeOK, RateInv, CopyInv, FreshCopy, Lost
    <2>4. QED
      BY <2>1, <2>3 DEF RefreshInv
  <1>4. QED
    BY <1>2, <1>3

LEMMA TestKeeps == RefreshInv /\ (BeginLoop \/ Test) => RefreshInv'
  <1> SUFFICES ASSUME RefreshInv, BeginLoop \/ Test PROVE RefreshInv'
    OBVIOUS
  <1>1. CASE BeginLoop
    BY <1>1 DEF BeginLoop, RefreshInv, RefreshTypeOK, RateInv, CopyInv, FreshCopy, Lost
  <1>2. CASE Test
    <2>1. WordSize \in Nat /\ kControlRate * 0 = 0
      BY RefreshAssumption DEF WordSize
    <2>2. CASE copy >= kControlRate
      BY <1>2, <2>1, <2>2, RefreshAssumption
         DEF Test, RefreshInv, RefreshTypeOK, RateInv, CopyInv, FreshCopy, Lost
    <2>3. CASE ~(copy >= kControlRate)
      BY <1>2, <2>1, <2>3, RefreshAssumption
         DEF Test, RefreshInv, RefreshTypeOK, RateInv, CopyInv, Lost
    <2>4. QED
      BY <2>2, <2>3
  <1>3. QED
    BY <1>1, <1>2

LEMMA StoreKeeps == RefreshInv /\ (StoreByte \/ StoreRest) => RefreshInv'
  <1> SUFFICES ASSUME RefreshInv, StoreByte \/ StoreRest PROVE RefreshInv'
    OBVIOUS
  <1> DEFINE taken == Taken(copy)
  <1>1. /\ Of(HighByte(refresh), LowByte(taken)) \in 0..(WordSize - 1)
        /\ Of(HighByte(taken), LowByte(refresh)) \in 0..(WordSize - 1)
    BY TwoBytes, Joined, TakenIsWord DEF RefreshInv, RefreshTypeOK
  <1>2. RefreshTypeOK'
    BY <1>1 DEF StoreByte, StoreRest, RefreshInv, RefreshTypeOK
  <1>3. ASSUME begin + ticks < RefreshByteSize
        PROVE  /\ copy \in kControlRate..(RefreshByteSize - 1)
               /\ LowByte(taken) = copy - kControlRate /\ HighByte(taken) = 0
               /\ HighByte(refresh) = 0 /\ LowByte(refresh) = refresh
               /\ Of(0, refresh) = refresh /\ Of(0, copy - kControlRate) = copy - kControlRate
    <2>1. copy \in kControlRate..(RefreshByteSize - 1)
      <3>1. at \in {"store", "storing"}
        BY DEF StoreByte, StoreRest
      <3>2. copy \in Nat /\ kControlRate <= copy /\ copy <= begin + ticks
        <4>1. kControlRate * updates \in Nat
          BY RefreshAssumption DEF RefreshInv, RefreshTypeOK
        <4>2. QED
          BY <1>3, <3>1, <4>1, RefreshAssumption
             DEF RefreshInv, RefreshTypeOK, RateInv, CopyInv, FreshCopy, Lost
      <3>3. QED
        BY <1>3, <3>2, RefreshAssumption DEF RefreshInv, RefreshTypeOK
    <2>2. taken = copy - kControlRate
      BY <2>1, OneByte, TakenIsLess, RefreshAssumption DEF WordSize
    <2>3. copy - kControlRate \in 0..(RefreshByteSize - 1)
      BY <2>1, RefreshAssumption
    <2>4. QED
      BY <1>3, <2>1, <2>2, <2>3, OneByte, YoungCounter
  <1>4. CASE StoreByte
    <2>1. ASSUME begin + ticks < RefreshByteSize
          PROVE  refresh' = IF build.lowStore THEN copy - kControlRate ELSE refresh
      BY <1>3, <1>4, <2>1 DEF StoreByte
    <2>2. RateInv'
      BY <1>3, <1>4, <2>1, RefreshAssumption
         DEF StoreByte, RefreshInv, RefreshTypeOK, RateInv, CopyInv, FreshCopy, Lost
    <2>3. QED
      BY <1>2, <2>2 DEF RefreshInv
  <1>5. CASE StoreRest
    <2>1. ASSUME begin + ticks < RefreshByteSize
          PROVE  refresh' = IF build.lowStore THEN refresh ELSE copy - kControlRate
      BY <1>3, <1>5, <2>1 DEF StoreRest
    <2>2. Lost' = begin + ticks - (kControlRate * updates) - kControlRate - refresh'
      <3>1. kControlRate * updates \in Int
        BY RefreshAssumption DEF RefreshInv, RefreshTypeOK
      <3>2. refresh' \in Int
        BY <1>2 DEF RefreshTypeOK
      <3>3. QED
        BY <1>5, <3>1, <3>2, OneMoreUpdate, RefreshAssumption
           DEF StoreRest, RefreshInv, RefreshTypeOK, Lost
    <2>3. kControlRate * updates \in Int
      BY RefreshAssumption DEF RefreshInv, RefreshTypeOK
    <2>4. RateInv'
      BY <1>2, <1>3, <1>5, <2>1, <2>2, <2>3, RefreshAssumption
         DEF StoreRest, RefreshInv, RefreshTypeOK, RateInv, CopyInv, FreshCopy, Lost
    <2>5. QED
      BY <1>2, <2>4 DEF RefreshInv
  <1>6. QED
    BY <1>4, <1>5

\* "Incremented at 39kHz / 40" (multi.h, lfo_refresh_cycle_): for every rate, every size of a
\* byte, every pass and every choice of the compiler, each update of the LFOs stands for
\* kControlRate ticks of the timer, and loses at most one more.
THEOREM LfoRateKept == RefreshSpec => []RefreshKeepsRate
  <1>1. RefreshInit => RefreshInv
    BY RefreshInitially
  <1>2. RefreshInv /\ [RefreshNext]_refreshvars => RefreshInv'
    <2>1. RefreshInv /\ UNCHANGED refreshvars => RefreshInv'
      BY DEF refreshvars, RefreshInv, RefreshTypeOK, RateInv, CopyInv, FreshCopy, Lost
    <2>2. QED
      BY <2>1, CountTickKeeps, LoadKeeps, TestKeeps, StoreKeeps DEF RefreshNext
  <1>3. RefreshInv => RefreshKeepsRate
    BY DEF RefreshInv, RateInv, Lost, RefreshKeepsRate
  <1>4. QED
    BY <1>1, <1>2, <1>3, PTL DEF RefreshSpec

-----------------------------------------------------------------------------
(* The phase of a synced LFO (PartLfos).                                   *)

LfoTypeOK ==
    /\ phase \in [Lfos -> 0..(Word - 1)] /\ increment \in [Lfos -> 0..(Word - 1)]
    /\ lfoStep \in [Lfos -> Nat] /\ tickDuration \in Nat /\ lastTick \in Nat
    /\ regular \subseteq Synced

\* Since the clock has set it, a synced LFO has gone on by its increment at each update.
PhaseInv ==
    \A i \in regular :
        /\ lfoStep[i] < Rates[i].length
        /\ increment[i] = Quotient(Rates[i].increment, lastTick)
        /\ phase[i] = ((Rates[i].increment * lfoStep[i]) + (tickDuration * increment[i])) % Word

LfoInv == LfoTypeOK /\ PhaseInv

LEMMA Settings ==
    ASSUME NEW i \in Lfos
    PROVE  Rates[i].increment \in 0..(Word - 1) /\ Rates[i].length \in 1..96
  BY LfoAssumption

LEMMA LesserOfTwo ==
    ASSUME NEW a \in Int, NEW b \in Int
    PROVE  Min({a, b}) = IF a <= b THEN a ELSE b
  <1>1. \E x \in {a, b} : \A y \in {a, b} : x <= y
    BY DEF Min
  <1>2. Min({a, b}) \in {a, b} /\ \A y \in {a, b} : Min({a, b}) <= y
    BY <1>1 DEF Min
  <1>3. QED
    BY <1>2

LEMMA Division ==
    ASSUME NEW x \in Int, NEW m \in Nat \ {0}
    PROVE  /\ x % m \in 0..(m - 1) /\ x \div m \in Int
           /\ x = (m * (x \div m)) + (x % m)
  OBVIOUS

LEMMA Remainder ==
    ASSUME NEW q \in Int, NEW m \in Nat \ {0}, NEW r \in Nat
    PROVE  /\ ((m * q) + r) % m <= r
           /\ r < m => ((m * q) + r) % m = r
  OBVIOUS

LEMMA Distributive ==
    ASSUME NEW m \in Int, NEW a \in Int, NEW b \in Int
    PROVE  /\ m * (a + b) = (m * a) + (m * b) /\ m * (a - b) = (m * a) - (m * b)
           /\ m * (-a) = -(m * a) /\ m * a \in Int
  OBVIOUS

LEMMA SumOfRemainders ==
    ASSUME NEW x \in Int, NEW y \in Int, NEW m \in Nat \ {0}
    PROVE  ((x % m) + y) % m = (x + y) % m
  <1> DEFINE z == (x % m) + y
             u == x \div m
             v == z \div m
             r == z % m
  <1>1. x % m \in Int /\ u \in Int /\ x = (m * u) + (x % m)
    BY Division
  <1>2. z \in Int /\ x + y = (m * u) + z
    BY <1>1
  <1>3. r \in 0..(m - 1) /\ v \in Int /\ z = (m * v) + r
    <2> HIDE DEF z
    <2>1. QED
      BY <1>2, Division
  <1> HIDE DEF u, v, r
  <1>4. m * (u + v) = (m * u) + (m * v)
    BY <1>1, <1>3, Distributive
  <1>5. x + y = (m * (u + v)) + r
    BY <1>1, <1>2, <1>3, <1>4
  <1>6. u + v \in Int /\ r \in Nat /\ r < m
    BY <1>1, <1>3
  <1>7. (x + y) % m = r
    BY <1>5, <1>6, Remainder
  <1>8. QED
    BY <1>7 DEF r

LEMMA WordIsNumber == Word \in Nat \ {0} /\ Word - 1 \in Nat
  BY DEF Word

\* Two phases are as near each other as the numbers they are the remainders of.
LEMMA Near ==
    ASSUME NEW a \in Int, NEW b \in Int, NEW e \in Nat, a - b \in (-e)..e
    PROVE  Distance(a % Word, b % Word) <= e
  <1> DEFINE p == a % Word
             q == b % Word
             n == (b \div Word) - (a \div Word)
  <1>1. /\ p \in Int /\ q \in Int /\ n \in Int
        /\ a = (Word * (a \div Word)) + p /\ b = (Word * (b \div Word)) + q
        /\ a \div Word \in Int /\ b \div Word \in Int
    BY Division, WordIsNumber
  <1>2. /\ Word * n = (Word * (b \div Word)) - (Word * (a \div Word))
        /\ Word * (-n) = (Word * (a \div Word)) - (Word * (b \div Word))
    BY <1>1, WordIsNumber
  <1> HIDE DEF p, q, n
  <1>3. p - q = (Word * n) + (a - b) /\ q - p = (Word * (-n)) + (b - a)
    BY <1>1, <1>2, WordIsNumber
  <1>4. (p - q) % Word <= e \/ (q - p) % Word <= e
    <2>1. CASE a - b \in Nat
      <3>1. (p - q) % Word <= a - b
        BY <1>1, <1>3, <2>1, Remainder, WordIsNumber
      <3>2. QED
        BY <1>1, <2>1, <3>1, Division, WordIsNumber
    <2>2. CASE b - a \in Nat
      <3>1. (q - p) % Word <= b - a
        BY <1>1, <1>3, <2>2, Remainder, WordIsNumber
      <3>2. QED
        BY <1>1, <2>2, <3>1, Division, WordIsNumber
    <2>3. QED
      BY <2>1, <2>2
  <1>5. (p - q) % Word \in Int /\ (q - p) % Word \in Int
    BY <1>1, Division, WordIsNumber
  <1>6. Distance(p, q) <= e
    BY <1>4, <1>5, LesserOfTwo DEF Distance
  <1>7. QED
    BY <1>6 DEF p, q

\* A number near zero on the circle is near a number of whole turns.
LEMMA WholeTurns ==
    ASSUME NEW c \in Int, NEW e \in Nat, Distance(c, 0) <= e
    PROVE  \E turns \in Int : c - (Word * turns) \in (-e)..e
  <1>1. /\ c % Word \in Nat /\ (-c) % Word \in Nat
        /\ c \div Word \in Int /\ (-c) \div Word \in Int
        /\ c = (Word * (c \div Word)) + (c % Word)
        /\ -c = (Word * ((-c) \div Word)) + ((-c) % Word)
    <2>1. /\ c % Word \in Nat /\ c \div Word \in Int
          /\ c = (Word * (c \div Word)) + (c % Word)
      BY Division, WordIsNumber
    <2> DEFINE minus == -c
    <2>2. minus \in Int
      OBVIOUS
    <2> HIDE DEF minus
    <2>3. /\ minus % Word \in Nat /\ minus \div Word \in Int
          /\ minus = (Word * (minus \div Word)) + (minus % Word)
      BY <2>2, Division, WordIsNumber
    <2>4. QED
      BY <2>1, <2>3 DEF minus
  <1>2. c % Word <= e \/ (-c) % Word <= e
    <2>1. c - 0 = c /\ 0 - c = -c
      OBVIOUS
    <2>2. QED
      BY <1>1, <2>1, LesserOfTwo DEF Distance
  <1>3. CASE c % Word <= e
    <2>1. c - (Word * (c \div Word)) \in (-e)..e
      BY <1>1, <1>3, WordIsNumber
    <2>2. QED
      BY <1>1, <2>1
  <1>4. CASE (-c) % Word <= e
    <2>1. Word * (-((-c) \div Word)) = -(Word * ((-c) \div Word))
      BY <1>1, WordIsNumber
    <2>2. c - (Word * (-((-c) \div Word))) \in (-e)..e
      BY <1>1, <1>4, <2>1, WordIsNumber
    <2>3. -((-c) \div Word) \in Int
      BY <1>1
    <2>4. QED
      BY <2>2, <2>3
  <1>5. QED
    BY <1>2, <1>3, <1>4

LEMMA QuotientIsPhase ==
    ASSUME NEW a \in 0..(Word - 1), NEW n \in Nat
    PROVE  Quotient(a, n) \in 0..(Word - 1)
  <1>1. CASE n = 0
    BY <1>1, WordIsNumber DEF Quotient
  <1>2. CASE n # 0
    <2>1. a \in Nat /\ a <= Word - 1
      BY WordIsNumber
    <2>2. a \div n \in Int /\ 0 <= a \div n /\ a \div n <= a
      BY <1>2, <2>1
    <2>3. QED
      BY <1>2, <2>1, <2>2, WordIsNumber DEF Quotient
  <1>3. QED
    BY <1>1, <1>2

LEMMA LfoInitially == LfoInit => LfoInv
  BY Settings, WordIsNumber DEF LfoInit, LfoInv, LfoTypeOK, PhaseInv, Synced

LEMMA UpdateKeeps == LfoInv /\ UpdateLfos => LfoInv'
  <1> SUFFICES ASSUME LfoInv, UpdateLfos PROVE LfoInv'
    OBVIOUS
  <1>1. LfoTypeOK'
    <2>1. \A i \in Lfos : (phase[i] + increment[i]) % Word \in 0..(Word - 1)
      BY Division, WordIsNumber DEF LfoInv, LfoTypeOK
    <2>2. QED
      BY <2>1 DEF LfoInv, LfoTypeOK, UpdateLfos
  <1>2. ASSUME NEW i \in regular, listened
        PROVE  phase'[i] = ((Rates[i].increment * lfoStep[i])
                            + ((tickDuration + 1) * increment[i])) % Word
    <2>1. i \in Lfos /\ Rates[i].increment \in Nat /\ lfoStep[i] \in Nat /\ increment[i] \in Nat
      BY Settings, WordIsNumber DEF LfoInv, LfoTypeOK, Synced
    <2>2. PICK x \in Nat : x = (Rates[i].increment * lfoStep[i]) + (tickDuration * increment[i])
      BY <2>1 DEF LfoInv, LfoTypeOK
    <2>3. (Rates[i].increment * lfoStep[i]) + ((tickDuration + 1) * increment[i])
             = x + increment[i]
      BY <2>1, <2>2 DEF LfoInv, LfoTypeOK
    <2>4. phase[i] = x % Word
      BY <2>2 DEF LfoInv, PhaseInv
    <2>5. phase'[i] = (phase[i] + increment[i]) % Word
      BY <1>2, <2>1 DEF UpdateLfos
    <2>6. ((x % Word) + increment[i]) % Word = (x + increment[i]) % Word
      <3>1. x \in Int /\ increment[i] \in Int /\ Word \in Nat \ {0}
        BY <2>1, WordIsNumber
      <3>2. QED
        BY ONLY <3>1, SumOfRemainders
    <2>7. QED
      BY <2>3, <2>4, <2>5, <2>6
  <1>3. PhaseInv'
    BY <1>2 DEF LfoInv, PhaseInv, UpdateLfos
  <1>4. QED
    BY <1>1, <1>3 DEF LfoInv

LEMMA NextStepOfCycle ==
    ASSUME LfoInv, NEW i \in Lfos
    PROVE  /\ NextStep(i) \in Nat /\ NextStep(i) < Rates[i].length
           /\ SetPhase(i) \in 0..(Word - 1)
  <1>1. NextStep(i) \in Nat /\ NextStep(i) < Rates[i].length
    BY Settings DEF LfoInv, LfoTypeOK, NextStep
  <1>2. Rates[i].increment * NextStep(i) \in Int
    BY <1>1, Settings, WordIsNumber
  <1>3. QED
    BY <1>1, <1>2, Division, WordIsNumber DEF SetPhase

\* At most one LFO follows the clock, so that none divides by a duration that another one
\* has reset.
OneSynced == \A i, j \in Synced : i = j

LEMMA ClockKeeps == ASSUME OneSynced PROVE LfoInv /\ ClockLfos => LfoInv'
  <1> SUFFICES ASSUME LfoInv, ClockLfos PROVE LfoInv'
    OBVIOUS
  <1>1. ASSUME NEW i \in Synced PROVE i \in Lfos /\ MeasuredFor(i) = tickDuration
    <2>1. Synced = {i} /\ i \in Nat
      BY LfoAssumption DEF OneSynced, Synced
    <2>2. Min(Synced) = i
      BY <2>1 DEF Min
    <2>3. QED
      BY <2>2 DEF MeasuredFor, Synced
  <1>2. \A i \in Lfos : /\ Rates[i].increment \in 0..(Word - 1)
                        /\ NextStep(i) \in Nat /\ NextStep(i) < Rates[i].length
                        /\ SetPhase(i) \in 0..(Word - 1)
                        /\ Quotient(Rates[i].increment, tickDuration) \in 0..(Word - 1)
    BY Settings, NextStepOfCycle, QuotientIsPhase DEF LfoInv, LfoTypeOK
  <1>3. LfoTypeOK'
    BY <1>1, <1>2 DEF LfoInv, LfoTypeOK, ClockLfos
  <1>4. ASSUME NEW i \in Synced
        PROVE  /\ lfoStep'[i] = NextStep(i)
               /\ increment'[i] = Quotient(Rates[i].increment, tickDuration)
               /\ phase'[i] = SetPhase(i) /\ tickDuration' = 0
    BY <1>1, <1>4 DEF ClockLfos
  <1>5. ASSUME NEW i \in Synced
        PROVE  SetPhase(i) = ((Rates[i].increment * NextStep(i)) + (0 * increment'[i])) % Word
    <2>1. Rates[i].increment * NextStep(i) \in Int /\ 0 * increment'[i] = 0
      BY <1>1, <1>2, <1>4, WordIsNumber
    <2>2. QED
      BY <2>1 DEF SetPhase
  <1>6. PhaseInv'
    BY <1>1, <1>2, <1>4, <1>5 DEF PhaseInv, ClockLfos
  <1>7. QED
    BY <1>3, <1>6 DEF LfoInv

LEMMA LfoStep == ASSUME OneSynced PROVE LfoInv /\ [LfoNext]_lfovars => LfoInv'
  <1> SUFFICES ASSUME LfoInv, [LfoNext]_lfovars PROVE LfoInv'
    OBVIOUS
  <1>1. CASE UpdateLfos
    BY <1>1, UpdateKeeps
  <1>2. CASE ClockLfos
    BY <1>2, ClockKeeps
  <1>3. CASE RetriggerLfos
    BY <1>3, WordIsNumber DEF RetriggerLfos, LfoInv, LfoTypeOK, PhaseInv, Synced
  <1>4. CASE StartLfos
    BY <1>4 DEF StartLfos, LfoInv, LfoTypeOK, PhaseInv
  <1>5. CASE AssignVoices
    BY <1>5 DEF AssignVoices, LfoInv, LfoTypeOK, PhaseInv
  <1>6. CASE UNCHANGED lfovars
    BY <1>6 DEF lfovars, lfo, LfoInv, LfoTypeOK, PhaseInv
  <1>7. QED
    BY <1>1, <1>2, <1>3, <1>4, <1>5, <1>6 DEF LfoNext

\* As many updates of the quotient as the divisor says fall short of the increment by the
\* remainder.
LEMMA PhaseIsReached ==
    ASSUME LfoInv, NEW i \in regular, tickDuration = lastTick, tickDuration > 0
    PROVE  Distance(phase[i], SetPhase(i)) <= tickDuration + Rates[i].length
  <1> DEFINE inc  == Rates[i].increment
             len  == Rates[i].length
             d    == tickDuration
             rest == inc % d
             x    == inc * lfoStep[i]
  <1>1. /\ i \in Lfos /\ Rates[i].synced /\ inc \in Nat /\ len \in Nat /\ d \in Nat \ {0}
        /\ lfoStep[i] \in Nat /\ lfoStep[i] < len
    <2>1. i \in Lfos /\ Rates[i].synced
      BY DEF LfoInv, LfoTypeOK, Synced
    <2>2. inc \in Nat /\ len \in Nat
      BY <2>1, Settings, WordIsNumber
    <2>3. QED
      BY <2>1, <2>2 DEF LfoInv, LfoTypeOK, PhaseInv
  <1>2. rest \in 0..(d - 1) /\ inc \div d \in Int /\ d * (inc \div d) = inc - rest
    <2>1. inc \in Int /\ d \in Nat \ {0}
      BY <1>1
    <2> HIDE DEF inc, d
    <2>2. /\ inc % d \in 0..(d - 1) /\ inc \div d \in Int
          /\ inc = (d * (inc \div d)) + (inc % d)
      BY <2>1, Division
    <2>3. d * (inc \div d) \in Int
      BY <2>1, <2>2, Distributive
    <2>4. QED
      BY <2>1, <2>2, <2>3
  <1>3. x \in Nat /\ inc * (lfoStep[i] + 1) = x + inc
    BY <1>1
  <1>4. phase[i] = (x + inc - rest) % Word
    <2>1. increment[i] = inc \div d
      BY <1>1 DEF LfoInv, PhaseInv, Quotient
    <2>2. phase[i] = (x + (inc - rest)) % Word
      BY <1>2, <2>1 DEF LfoInv, PhaseInv
    <2>3. x + (inc - rest) = x + inc - rest
      BY <1>1, <1>2, <1>3
    <2>4. QED
      BY <2>2, <2>3
  <1> HIDE DEF rest, x
  <1>5. CASE lfoStep[i] + 1 < len
    <2>1. SetPhase(i) = (x + inc) % Word
      BY <1>1, <1>3, <1>5 DEF SetPhase, NextStep
    <2>2. (x + inc - rest) - (x + inc) \in (-(d + len))..(d + len)
      <3> HIDE DEF inc, d, len
      <3>1. QED
        BY <1>1, <1>2, <1>3
    <2>3. x + inc - rest \in Int /\ x + inc \in Int /\ d + len \in Nat
      BY <1>1, <1>2, <1>3
    <2>4. Distance((x + inc - rest) % Word, (x + inc) % Word) <= d + len
      <3> HIDE DEF inc, d, len
      <3>1. QED
        BY <2>2, <2>3, Near
    <2>5. QED
      BY <1>4, <2>1, <2>4
  <1>6. CASE lfoStep[i] + 1 = len
    <2> DEFINE c == x + inc
    <2>1. c \in Int /\ Distance(c, 0) <= len
      <3>1. Distance(inc * len, 0) <= len
        BY <1>1, LfoAssumption
      <3>2. x + inc \in Int /\ inc * len = x + inc
        BY <1>1, <1>3, <1>6
      <3>3. QED
        BY <3>1, <3>2
    <2> HIDE DEF c
    <2>2. PICK turns \in Int : c - (Word * turns) \in (-len)..len
      BY <1>1, <2>1, WholeTurns
    <2>3. SetPhase(i) = 0
      <3>1. NextStep(i) = 0 /\ inc * 0 = 0
        BY <1>1, <1>6 DEF NextStep
      <3>2. 0 % Word = 0
        BY WordIsNumber
      <3>3. QED
        BY <3>1, <3>2 DEF SetPhase
    <2>4. Word * turns \in Int /\ (Word * turns) % Word = 0
      <3>1. ((Word * turns) + 0) % Word = 0
        BY Remainder, WordIsNumber
      <3>2. QED
        BY <3>1, WordIsNumber
    <2>5. /\ (c - rest) - (Word * turns) \in (-(d + len))..(d + len)
          /\ c - rest \in Int /\ d + len \in Nat
      BY <1>1, <1>2, <2>1, <2>2, <2>4
    <2>6. phase[i] = (c - rest) % Word
      BY <1>1, <1>2, <1>3, <1>4 DEF c
    <2>7. Distance((c - rest) % Word, (Word * turns) % Word) <= d + len
      <3> DEFINE a == c - rest
                 b == Word * turns
      <3>1. a \in Int /\ b \in Int /\ d + len \in Nat /\ a - b \in (-(d + len))..(d + len)
        BY <2>4, <2>5
      <3> HIDE DEF a, b, d, len
      <3>2. Distance(a % Word, b % Word) <= d + len
        BY <3>1, Near
      <3>3. QED
        BY <3>2 DEF a, b
    <2>8. QED
      BY <2>3, <2>4, <2>6, <2>7
  <1>7. QED
    BY <1>1, <1>5, <1>6

\* Part::Clock and Part::UpdateLfos: while the clock is regular, the phase of an LFO that
\* follows it has come, by updates at their rate, to where the next clock tick sets it
\* (part.cc:592-593), for every table of increments rounded as the source's is.
THEOREM LfoClocksKept ==
    ASSUME OneSynced
    PROVE  RefreshSpec /\ LfoSpec => LfosKeepTime
  <1>1. LfoInit => LfoInv
    BY LfoInitially
  <1>2. LfoInv /\ [LfoNext]_lfovars => LfoInv'
    BY LfoStep
  <1>3. LfoInv /\ [LfoNext]_lfovars =>
          [\A i \in regular : ClockLfos /\ tickDuration = lastTick /\ tickDuration > 0
              => Distance(phase[i], phase'[i]) <= tickDuration + Rates[i].length]_lfovars
    <2> SUFFICES ASSUME LfoInv, NEW i \in regular, ClockLfos, tickDuration = lastTick,
                        tickDuration > 0
                 PROVE  Distance(phase[i], phase'[i]) <= tickDuration + Rates[i].length
      OBVIOUS
    <2>1. i \in Synced /\ i \in Lfos
      BY DEF LfoInv, LfoTypeOK, Synced
    <2>2. phase'[i] = SetPhase(i)
      BY <2>1 DEF ClockLfos
    <2>3. QED
      BY <2>2, PhaseIsReached
  <1>4. QED
    BY <1>1, <1>2, <1>3, LfoRateKept, PTL DEF LfoSpec, LfosKeepTime, PhaseReachedAtClock
-----------------------------------------------------------------------------
(* The arpeggiator: ArpTypeOK is inductive, and StepArpeggio's one recursive *)
(* call is bounded by the position that the turn-round leaves.              *)

Positions == [dir : {-1, 1}, step : -1..(MaxKeys - 1), octave : 0..(MaxOctaves - 1)]

\* A position is the record of its three components.
LEMMA PositionParts ==
    ASSUME NEW p \in Positions
    PROVE  /\ p = At(p.dir, p.step, p.octave)
           /\ p.dir \in {-1, 1} /\ p.step \in -1..(MaxKeys - 1)
           /\ p.octave \in 0..(MaxOctaves - 1)
           /\ p.step \in Int /\ p.octave \in Int
BY MaxKeysAssumption, MaxOctavesAssumption DEF Positions, At

\* The components of a position.
LEMMA Components ==
    ASSUME NEW dir, NEW place, NEW octave
    PROVE  /\ At(dir, place, octave).dir = dir
           /\ At(dir, place, octave).step = place
           /\ At(dir, place, octave).octave = octave
BY DEF At

\* Restarting takes the position to an end of the range of the arpeggio,
\* wherever it was.
LEMMA RestartedInRange ==
    ASSUME NEW dir \in {-1, 1}, NEW place, NEW octave,
           NEW n \in 0..MaxKeys, NEW octs \in 1..MaxOctaves
    PROVE  LET q == Restarted(At(dir, place, octave), n, octs)
           IN  /\ q \in Positions /\ q.dir = dir
               /\ q.step = IF dir = 1 THEN 0 ELSE n - 1
               /\ q.octave = IF dir = 1 THEN 0 ELSE octs - 1
<1> DEFINE q == Restarted(At(dir, place, octave), n, octs)
<1> USE MaxKeysAssumption, MaxOctavesAssumption
<1>1. CASE dir = 1
  <2>1. q = At(1, 0, 0)
    BY <1>1, Components DEF Restarted
  <2> QED BY <1>1, <2>1 DEF At, Positions
<1>2. CASE dir = -1
  <2>1. q = At(dir, n - 1, octs - 1)
    <3>1. dir # 1
      BY <1>2
    <3> QED BY <3>1, Components DEF Restarted
  <2>2. n - 1 \in -1..(MaxKeys - 1) /\ octs - 1 \in 0..(MaxOctaves - 1)
    OBVIOUS
  <2> QED BY <1>2, <2>1, <2>2 DEF At, Positions
<1> QED BY <1>1, <1>2

\* A move lands on a pressed key and, unless it leaves the range, in an
\* octave of the arpeggio.
LEMMA MovedInRange ==
    ASSUME NEW p \in Positions, NEW n \in 1..MaxKeys, NEW octs \in 1..MaxOctaves
    PROVE  /\ Moved(p, n) = At(p.dir, Moved(p, n).step, Moved(p, n).octave)
           /\ Moved(p, n).dir = p.dir
           /\ Moved(p, n).step \in 0..(n - 1)
           /\ ~LeavesRange(p, n, octs) => Moved(p, n) \in Positions
<1> USE MaxKeysAssumption, MaxOctavesAssumption
<1> DEFINE s == IF Overflows(p, n) THEN 0 ELSE IF Underflows(p, n) THEN n - 1 ELSE p.step + p.dir
           o == IF Wraps(p, n) THEN p.octave + p.dir ELSE p.octave
<1>1. Moved(p, n) = At(p.dir, s, o)
  BY DEF Moved
<1>2. s \in 0..(n - 1)
  BY PositionParts DEF Overflows, Underflows
<1>3. ASSUME ~LeavesRange(p, n, octs) PROVE o \in 0..(MaxOctaves - 1)
  <2>1. CASE Wraps(p, n)
    <3>1. Moved(p, n).octave = o /\ o = p.octave + p.dir
      BY <1>1, <2>1 DEF At
    <3> QED BY <1>3, <2>1, <3>1, PositionParts DEF LeavesRange
  <2>2. CASE ~Wraps(p, n)
    BY <2>2, PositionParts
  <2> QED BY <2>1, <2>2
<1> HIDE DEF s, o
<1>4. Moved(p, n).step = s /\ Moved(p, n).octave = o /\ Moved(p, n).dir = p.dir
  BY <1>1 DEF At
<1>5. ASSUME ~LeavesRange(p, n, octs) PROVE Moved(p, n) \in Positions
  <2>1. s \in -1..(MaxKeys - 1)
    BY <1>2
  <2> QED BY <1>1, <1>3, <1>5, <2>1, PositionParts DEF At, Positions
<1> QED BY <1>1, <1>2, <1>4, <1>5

\* The turn-round leaves a position from which a move stays in range.
LEMMA TurnStaysInRange ==
    ASSUME NEW p \in Positions, NEW n \in 1..MaxKeys, NEW octs \in 1..MaxOctaves
    PROVE  /\ Reversed(p, n, octs) \in Positions
           /\ Reversed(p, n, octs).step \in 0..(n - 1)
           /\ n > 1 \/ octs > 1 => ~LeavesRange(Reversed(p, n, octs), n, octs)
<1> USE MaxKeysAssumption, MaxOctavesAssumption
<1> DEFINE r == Reversed(p, n, octs)
           back == -p.dir
<1>1. p.dir \in {-1, 1} /\ back \in {-1, 1}
  BY PositionParts
<1>2. r = Restarted(At(back, p.step, p.octave), n, octs)
  BY DEF Reversed
<1> HIDE DEF r, back
<1>3. /\ r \in Positions /\ r.dir = back
      /\ r.step = IF back = 1 THEN 0 ELSE n - 1
      /\ r.octave = IF back = 1 THEN 0 ELSE octs - 1
  BY <1>1, <1>2, RestartedInRange
<1>4. ASSUME n > 1 \/ octs > 1 PROVE ~LeavesRange(r, n, octs)
  <2>1. CASE back = 1
    <3>1. ~Underflows(r, n) /\ (Overflows(r, n) <=> n = 1)
      BY <1>3, <2>1 DEF Overflows, Underflows
    <3>2. n = 1 => Moved(r, n).octave = 1
      BY <3>1, <1>3, <2>1, Components DEF Moved, Wraps
    <3> QED BY <1>4, <3>1, <3>2 DEF LeavesRange, Wraps
  <2>2. CASE back = -1
    <3>1. ~Overflows(r, n) /\ (Underflows(r, n) <=> n = 1)
      BY <1>3, <2>2 DEF Overflows, Underflows
    <3>2. n = 1 => Moved(r, n).octave = octs - 2
      BY <3>1, <1>3, <2>2, Components DEF Moved, Wraps
    <3> QED BY <1>4, <3>1, <3>2 DEF LeavesRange, Wraps
  <2> QED BY <1>1, <2>1, <2>2
<1> QED BY <1>1, <1>3, <1>4 DEF r

\* A move changes the key or the octave.
LEMMA MoveChanges ==
    ASSUME NEW p \in Positions, NEW n \in 1..MaxKeys
    PROVE  Moved(p, n).step # p.step \/ Moved(p, n).octave # p.octave
<1>1. CASE Wraps(p, n)
  <2>1. Moved(p, n).octave = p.octave + p.dir
    BY <1>1, Components DEF Moved
  <2> QED BY <2>1, PositionParts
<1>2. CASE ~Wraps(p, n)
  <2>1. Moved(p, n).step = p.step + p.dir
    BY <1>2, Components DEF Moved, Wraps
  <2> QED BY <2>1, PositionParts
<1> QED BY <1>1, <1>2

\* The range is left at its far end only.
LEMMA LeavesAtEnd ==
    ASSUME NEW p \in Positions, NEW n \in 1..MaxKeys, NEW octs \in 1..MaxOctaves,
           p.step \in 0..(n - 1), p.octave \in 0..(octs - 1),
           LeavesRange(p, n, octs)
    PROVE  /\ p.step = IF p.dir = 1 THEN n - 1 ELSE 0
           /\ p.octave = IF p.dir = 1 THEN octs - 1 ELSE 0
<1> USE MaxKeysAssumption, MaxOctavesAssumption
<1>1. Wraps(p, n) /\ (p.octave + p.dir >= octs \/ p.octave + p.dir < 0)
  BY Components DEF LeavesRange, Moved
<1>2. CASE p.dir = 1
  BY <1>1, <1>2, PositionParts DEF Wraps, Overflows, Underflows
<1>3. CASE p.dir = -1
  BY <1>1, <1>3, PositionParts DEF Wraps, Overflows, Underflows
<1> QED BY <1>2, <1>3, PositionParts

\* A step of the arpeggiator lands on a pressed key.
LEMMA StepsInRange ==
    ASSUME NEW p \in Positions, NEW d \in Directions,
           NEW n \in 1..MaxKeys, NEW octs \in 1..MaxOctaves,
           NEW q \in Steps(p, d, n, octs)
    PROVE  q \in Positions /\ q.step \in 0..(n - 1)
<1> USE MaxKeysAssumption, MaxOctavesAssumption
<1>1. CASE d = "random"
  <2>1. q \in {At(p.dir, s, o) : s \in 0..(n - 1), o \in 0..(octs - 1)}
    BY <1>1 DEF Steps
  <2>2. PICK s \in 0..(n - 1), o \in 0..(octs - 1) : q = At(p.dir, s, o)
    BY <2>1
  <2>3. s \in -1..(MaxKeys - 1) /\ o \in 0..(MaxOctaves - 1)
    OBVIOUS
  <2> QED BY <2>2, <2>3, PositionParts DEF At, Positions
<1>2. CASE d # "random"
  <2>1. q = Stepped(p, d, n, octs)
    BY <1>2 DEF Steps
  <2>2. CASE ~LeavesRange(p, n, octs)
    BY <2>1, <2>2, MovedInRange DEF Stepped
  <2>3. CASE LeavesRange(p, n, octs) /\ d # "up_down"
    <3> DEFINE s == Moved(p, n).step
               o == Moved(p, n).octave
    <3>1. q = Restarted(At(p.dir, s, o), n, octs)
      BY <2>1, <2>3, MovedInRange DEF Stepped
    <3> HIDE DEF s, o
    <3>2. q \in Positions /\ q.step = IF p.dir = 1 THEN 0 ELSE n - 1
      BY <3>1, PositionParts, RestartedInRange
    <3> QED BY <3>2
  <2>4. CASE LeavesRange(p, n, octs) /\ d = "up_down"
    <3>1. CASE n > 1 \/ octs > 1
      <4>1. q = Moved(Reversed(p, n, octs), n)
        BY <2>1, <2>4, <3>1 DEF Stepped
      <4> QED BY <3>1, <4>1, TurnStaysInRange, MovedInRange
    <3>2. CASE ~(n > 1 \/ octs > 1)
      BY <2>1, <2>4, <3>2, TurnStaysInRange DEF Stepped
    <3> QED BY <3>1, <3>2
  <2> QED BY <2>2, <2>3, <2>4
<1> QED BY <1>1, <1>2

-----------------------------------------------------------------------------
\* ArpTypeOK is preserved by every operation: the position never overflows.
LEMMA TypeInductive == ArpTypeOK /\ [ArpNext]_arpvars => ArpTypeOK'
<1> SUFFICES ASSUME ArpTypeOK, [ArpNext]_arpvars PROVE ArpTypeOK'
  OBVIOUS
<1> USE MaxKeysAssumption, MaxOctavesAssumption
<1>0. /\ pos \in Positions
      /\ keys \in 0..MaxKeys
      /\ direction \in Directions
      /\ octaves \in 1..MaxOctaves
  BY DEF ArpTypeOK, Positions
<1>r. ASSUME NEW d \in Directions
      PROVE  Restarted(At(InitialDir(d), pos.step, pos.octave), keys, octaves) \in Positions
  BY <1>0, RestartedInRange DEF InitialDir
<1>1. CASE StartArpeggio
  BY <1>0, <1>1, <1>r DEF StartArpeggio, ArpTypeOK, Positions
<1>2. ASSUME NEW d \in Directions, SetDirection(d) PROVE ArpTypeOK'
  BY <1>0, <1>2, <1>r DEF SetDirection, ArpTypeOK, Positions
<1>3. ASSUME NEW octs \in 1..MaxOctaves, SetOctaves(octs) PROVE ArpTypeOK'
  BY <1>0, <1>3 DEF SetOctaves, ArpTypeOK, Positions
<1>4. ASSUME NEW d \in Directions, NEW octs \in 1..MaxOctaves, Load(d, octs) PROVE ArpTypeOK'
  BY <1>0, <1>4 DEF Load, ArpTypeOK, Positions
<1>5. ASSUME NEW n \in 0..MaxKeys, ChangeKeys(n) PROVE ArpTypeOK'
  BY <1>0, <1>5 DEF ChangeKeys, ArpTypeOK, Positions
<1>6. CASE StepArpeggio
  <2>1. keys \in 1..MaxKeys
    BY <1>0, <1>6 DEF StepArpeggio
  <2>2. pos' \in Positions
    BY <1>0, <1>6, <2>1, StepsInRange DEF StepArpeggio
  <2> QED BY <1>0, <1>6, <2>2 DEF StepArpeggio, ArpTypeOK, Positions
<1>7. CASE UNCHANGED arpvars
  BY <1>7 DEF arpvars, ArpTypeOK
<1> QED BY <1>1, <1>2, <1>3, <1>4, <1>5, <1>6, <1>7 DEF ArpNext

\* The position stays within the keys and octaves the part can have, so the
\* 8-bit arithmetic on it never overflows.
THEOREM PositionBounded == ArpSpec => []ArpTypeOK
<1>1. ArpInit => ArpTypeOK
  <2> SUFFICES ASSUME ArpInit PROVE ArpTypeOK
    OBVIOUS
  <2>1. InitialDir(direction) \in {-1, 1} /\ keys = 0 /\ 0 \in 0..MaxKeys
           /\ direction \in Directions /\ octaves \in 1..MaxOctaves
    BY MaxKeysAssumption DEF ArpInit, InitialDir
  <2>2. pos = Restarted(At(InitialDir(direction), 0, 0), 0, octaves)
    BY DEF ArpInit
  <2> QED BY <2>1, <2>2, RestartedInRange DEF ArpTypeOK, Positions
<1> QED BY <1>1, TypeInductive, PTL DEF ArpSpec

\* Whatever happened since the last step, the note of a step is read from a
\* key that is pressed now.
THEOREM ArpeggioReadsPressedKey == ArpSpec => StepsOnPressedKey
<1>1. ArpTypeOK /\ [ArpNext]_arpvars => [StepArpeggio => pos'.step \in 0..(keys - 1)]_arpvars
  <2> SUFFICES ASSUME ArpTypeOK, StepArpeggio PROVE pos'.step \in 0..(keys - 1)
    OBVIOUS
  <2>1. pos \in Positions /\ keys \in 1..MaxKeys /\ direction \in Directions
           /\ octaves \in 1..MaxOctaves
    BY MaxKeysAssumption DEF ArpTypeOK, Positions, StepArpeggio
  <2>2. pos' \in Steps(pos, direction, keys, octaves)
    BY DEF StepArpeggio
  <2> QED BY <2>1, <2>2, StepsInRange
<1> QED BY <1>1, PositionBounded, PTL DEF ArpSpec, StepsOnPressedKey

\* StepArpeggio calls itself at most once, so its recursion needs no stack
\* beyond one more frame.
THEOREM RecursionIsBounded == ArpSpec => []RecursionStops
<1>1. ArpTypeOK => RecursionStops
  <2> SUFFICES ASSUME ArpTypeOK, keys > 0, keys > 1 \/ octaves > 1
               PROVE  ~LeavesRange(Reversed(pos, keys, octaves), keys, octaves)
    BY DEF RecursionStops
  <2>1. pos \in Positions /\ keys \in 1..MaxKeys /\ octaves \in 1..MaxOctaves
    BY MaxKeysAssumption DEF ArpTypeOK, Positions
  <2> QED BY <2>1, TurnStaysInRange
<1> QED BY <1>1, PositionBounded, PTL

\* An arpeggio of several notes never repeats one, for every setting.
THEOREM ArpeggioNeverRepeats == ArpSpec => NoRepeat
<1> DEFINE Twice ==
      /\ StepArpeggio /\ direction # "random" /\ keys * octaves > 1
      /\ pos.step \in 0..(keys - 1) /\ pos.octave \in 0..(octaves - 1)
<1>1. ArpTypeOK => [Twice => <<pos'.step, pos'.octave>> # <<pos.step, pos.octave>>]_arpvars
  <2> SUFFICES ASSUME ArpTypeOK, Twice
               PROVE  pos'.step # pos.step \/ pos'.octave # pos.octave
    OBVIOUS
  <2>1. /\ pos \in Positions
        /\ keys \in 1..MaxKeys /\ keys \in Int
        /\ octaves \in 1..MaxOctaves /\ octaves \in Int
        /\ keys > 1 \/ octaves > 1
        /\ pos' = Stepped(pos, direction, keys, octaves)
    <3>1. keys = 1 /\ octaves = 1 => keys * octaves = 1
      OBVIOUS
    <3> QED BY <3>1, MaxKeysAssumption, MaxOctavesAssumption
            DEF ArpTypeOK, Positions, StepArpeggio, Steps
  <2> HIDE DEF Twice
  <2>2. pos.step \in 0..(keys - 1) /\ pos.octave \in 0..(octaves - 1)
    BY DEF Twice
  <2>3. CASE ~LeavesRange(pos, keys, octaves)
    BY <2>1, <2>3, MoveChanges DEF Stepped
  <2>4. CASE LeavesRange(pos, keys, octaves) /\ direction # "up_down"
    <3> DEFINE s == Moved(pos, keys).step
               o == Moved(pos, keys).octave
    <3>1. pos' = Restarted(At(pos.dir, s, o), keys, octaves)
      BY <2>1, <2>4, MovedInRange DEF Stepped
    <3> HIDE DEF s, o
    <3>2. /\ pos'.step = IF pos.dir = 1 THEN 0 ELSE keys - 1
          /\ pos'.octave = IF pos.dir = 1 THEN 0 ELSE octaves - 1
      BY <2>1, <3>1, PositionParts, RestartedInRange, MaxKeysAssumption
    <3> QED BY <2>1, <2>2, <2>4, <3>2, LeavesAtEnd, PositionParts
  <2>5. CASE LeavesRange(pos, keys, octaves) /\ direction = "up_down"
    <3> DEFINE r == Reversed(pos, keys, octaves)
    <3>1. pos' = Moved(r, keys)
      BY <2>1, <2>5 DEF Stepped
    <3>2. r \in Positions
      BY <2>1, TurnStaysInRange
    <3>3. r.step = pos.step /\ r.octave = pos.octave
      <4>1. /\ r.step = IF -pos.dir = 1 THEN 0 ELSE keys - 1
            /\ r.octave = IF -pos.dir = 1 THEN 0 ELSE octaves - 1
        BY <2>1, PositionParts, RestartedInRange, MaxKeysAssumption DEF Reversed
      <4> QED BY <2>1, <2>2, <2>5, <4>1, LeavesAtEnd, PositionParts
    <3> HIDE DEF r
    <3> QED BY <2>1, <3>1, <3>2, <3>3, MoveChanges
  <2> QED BY <2>3, <2>4, <2>5
<1> QED BY <1>1, PositionBounded, PTL DEF ArpSpec, NoRepeat
=============================================================================
