------------------------------ MODULE PartProofs ------------------------------
(***************************************************************************)
(* Proofs about a part, for every keyboard, number of voices, polyphony    *)
(* mode, arpeggio, sequence and scale: the voicecards and the allocator    *)
(* never disagree.                                                         *)
(***************************************************************************)
EXTENDS Part, OrderLemmas

MP == INSTANCE NoteStackProofs WITH
    Capacity <- MonoCapacity, StackNotes <- PartNotes, Velocities <- {1},
    stack <- part.mono

MK == INSTANCE NoteStackProofs WITH
    Capacity <- KeyCapacity, StackNotes <- PartNotes, Velocities <- {1},
    stack <- part.keys

-----------------------------------------------------------------------------
(* The voice allocator.                                                    *)

Entries(a) == 0..(a.size - 1)

PoolType(a) ==
    /\ DOMAIN a = {"size", "pool", "lru", "cyclic"}
    /\ a.size \in 0..12
    /\ a.pool \in [Entries(a) -> [note : 0..127, active : BOOLEAN]]
    /\ a.lru \in [Entries(a) -> Entries(a)]
    /\ a.cyclic = None

\* Entries that hold the same note are zeros left by ClearNotes, but for the first.
Distinct(a) ==
    \A v, w \in Entries(a) :
        v < w /\ a.pool[v].note = a.pool[w].note => a.pool[w] = Poly!Inactive(0)

PoolOK(a) == PoolType(a) /\ Onto(a.lru, a.size) /\ Distinct(a)

\* The notes that the allocator takes to be sounding.
ActiveNotes(a) == {a.pool[v].note : v \in {w \in Entries(a) : a.pool[w].active}}

\* Find returns the first entry that holds the note.
LEMMA FindFacts ==
  ASSUME NEW a, PoolType(a), NEW note, NEW e, e = Poly!Find(a, note)
  PROVE  \/ e = None /\ \A v \in Entries(a) : a.pool[v].note # note
         \/ /\ e \in Entries(a) /\ e # None /\ a.pool[e].note = note
            /\ \A v \in Entries(a) : v < e => a.pool[v].note # note
<1> DEFINE S == {v \in Entries(a) : a.pool[v].note = note}
<1>1. e = IF S = {} THEN None ELSE Min(S)
  BY DEF Poly!Find, Poly!Lowest, Poly!VoicesOf, Poly!None, None, Entries, Poly!Min, Min
<1>2. S \in SUBSET Nat
  BY DEF Entries, PoolType
<1>3. CASE S = {}
  BY <1>1, <1>3
<1>4. CASE S # {}
  <2>1. e \in S /\ \A x \in S : e <= x
    <3> HIDE DEF S
    <3>1. Min(S) \in S /\ \A x \in S : Min(S) <= x
      BY <1>2, <1>4, MinOfNaturals
    <3> QED BY <1>1, <1>4, <3>1
  <2>2. e \in Entries(a) /\ e \in 0..11
    BY <2>1 DEF Entries, PoolType
  <2> QED
    BY <2>1, <2>2 DEF None, Entries
<1> QED
  BY <1>3, <1>4

\* FindActive returns an entry on which the note is active.
LEMMA FindActiveFacts ==
  ASSUME NEW a, PoolType(a), NEW note, NEW e, e = Poly!FindActive(a, note)
  PROVE  \/ e = None
         \/ e \in Entries(a) /\ e # None /\ a.pool[e] = Poly!Active(note)
<1> DEFINE S == {v \in Entries(a) : a.pool[v] = Poly!Active(note)}
<1>1. e = IF S = {} THEN None ELSE Min(S)
  BY DEF Poly!FindActive, Poly!Lowest, Poly!VoicesOf, Poly!None, None, Entries,
         Poly!Min, Min
<1>2. S \in SUBSET Nat
  BY DEF Entries, PoolType
<1>3. CASE S = {}
  BY <1>1, <1>3
<1>4. CASE S # {}
  <2>1. e \in S
    <3> HIDE DEF S
    <3>1. Min(S) \in S /\ \A x \in S : Min(S) <= x
      BY <1>2, <1>4, MinOfNaturals
    <3> QED BY <1>1, <1>4, <3>1
  <2>2. e \in Entries(a) /\ e \in 0..11
    BY <2>1 DEF Entries, PoolType
  <2> QED
    BY <2>1, <2>2 DEF None
<1> QED
  BY <1>3, <1>4

\* The loops over lru_ find a member of the set they look for.
LEMMA LeastRecentFacts ==
  ASSUME NEW a, PoolOK(a), NEW S \in SUBSET Entries(a), S # {}
  PROVE  Poly!LeastRecent(a, S) \in S
<1> DEFINE I == {i \in Entries(a) : a.lru[i] \in S}
<1>1. a.size \in Nat /\ I \in SUBSET (0..(a.size - 1))
  BY DEF PoolOK, PoolType, Entries
<1>2. I # {}
  BY DEF PoolOK, Onto, Entries
<1>3. Max(I) \in I
  <2> HIDE DEF I
  <2> QED BY <1>1, <1>2, MaxOfIndices
<1>4. Poly!LeastRecent(a, S) = a.lru[Max(I)]
  BY DEF Poly!LeastRecent, Poly!VoicesOf, Entries, Poly!Max, Max
<1> QED
  BY <1>3, <1>4

\* The entry that NoteOn takes: the one that has the note, if there is one.
LEMMA VoiceForFacts ==
  ASSUME NEW a, PoolOK(a), a.size # 0, NEW note, NEW e, e = Poly!VoiceFor(a, note)
  PROVE  /\ e \in Entries(a)
         /\ \A v \in Entries(a) : v < e => a.pool[v].note # note
         /\ a.pool[e].note = note \/ \A v \in Entries(a) : a.pool[v].note # note
<1> DEFINE f == Poly!Find(a, note)
           S == IF Poly!Idle(a) # {} THEN Poly!Idle(a) ELSE Poly!VoicesOf(a)
<1>0. PoolType(a)
  BY DEF PoolOK
<1>1. e = IF f # None THEN f ELSE Poly!LeastRecent(a, S)
  BY <1>0 DEF Poly!VoiceFor, Poly!IsCyclic, Poly!None, None, PoolType
<1>2. S \in SUBSET Entries(a) /\ S # {}
  BY <1>0 DEF Poly!Idle, Poly!VoicesOf, Entries, PoolType
<1> HIDE DEF S
<1>3. Poly!LeastRecent(a, S) \in S
  BY <1>2, LeastRecentFacts
<1>4. \/ f = None /\ \A v \in Entries(a) : a.pool[v].note # note
      \/ /\ f \in Entries(a) /\ f # None /\ a.pool[f].note = note
         /\ \A v \in Entries(a) : v < f => a.pool[v].note # note
  BY <1>0, FindFacts
<1> QED
  BY <1>1, <1>2, <1>3, <1>4

\* Touch keeps every entry in lru_.
LEMMA TouchFacts ==
  ASSUME NEW a, PoolOK(a), NEW e \in Entries(a), NEW t, t = Poly!Touch(a, e)
  PROVE  t \in [Entries(a) -> Entries(a)] /\ Onto(t, a.size)
<1> DEFINE p == Poly!Position(a, e)
<1>1. PoolType(a) /\ a.size \in Nat /\ Onto(a.lru, a.size)
  BY DEF PoolOK, PoolType
<1>2. p \in Entries(a) /\ a.lru[p] = e
  <2>1. \E i \in Entries(a) : a.lru[i] = e
    BY <1>1 DEF Onto, Entries
  <2> QED BY <2>1 DEF Poly!Position, Poly!VoicesOf, Entries
<1> HIDE DEF p
<1>3. t = [i \in Entries(a) |-> IF i = 0 THEN e ELSE IF i <= p THEN a.lru[i - 1] ELSE a.lru[i]]
  BY DEF Poly!Touch, Poly!VoicesOf, Entries, p
<1>4. t \in [Entries(a) -> Entries(a)]
  <2>1. \A i \in Entries(a) : i # 0 => i - 1 \in Entries(a)
    BY <1>1 DEF Entries
  <2> QED BY <1>1, <1>3, <2>1 DEF PoolType
<1>5. MovesToFront(t, a.lru, p, a.size)
  BY <1>2, <1>3 DEF MovesToFront, Entries
<1>6. Onto(t, a.size)
  BY <1>1, <1>2, <1>5, MoveToFront DEF Entries
<1> QED
  BY <1>4, <1>6

\* NoteOn makes the note active on the entry it takes.
LEMMA PoolNoteOnFacts ==
  ASSUME NEW a, PoolOK(a), a.size # 0, NEW note \in 0..127,
         NEW t, t = Poly!AfterNoteOn(a, note)
  PROVE  /\ PoolOK(t) /\ t.size = a.size
         /\ t.pool = [a.pool EXCEPT ![Poly!VoiceFor(a, note)] = Poly!Active(note)]
<1> DEFINE e == Poly!VoiceFor(a, note)
<1>1. /\ e \in Entries(a)
      /\ \A v \in Entries(a) : v < e => a.pool[v].note # note
      /\ a.pool[e].note = note \/ \A v \in Entries(a) : a.pool[v].note # note
  BY VoiceForFacts
<1>2. t = [size |-> a.size, pool |-> [a.pool EXCEPT ![e] = Poly!Active(note)],
           lru |-> Poly!Touch(a, e), cyclic |-> a.cyclic]
  BY DEF Poly!AfterNoteOn, PoolOK, PoolType, Poly!IsCyclic, Poly!None, None
<1> HIDE DEF e
<1>3. Poly!Touch(a, e) \in [Entries(a) -> Entries(a)] /\ Onto(Poly!Touch(a, e), a.size)
  BY <1>1, TouchFacts
<1>4. PoolType(a)
  BY DEF PoolOK
<1>5. Poly!Active(note) \in [note : 0..127, active : BOOLEAN] /\ Poly!Active(note).note = note
  BY DEF Poly!Active
<1>6. t.pool \in [Entries(a) -> [note : 0..127, active : BOOLEAN]]
  BY <1>1, <1>2, <1>4, <1>5 DEF PoolType
<1>7. t.size = a.size /\ t.lru = Poly!Touch(a, e) /\ t.cyclic = a.cyclic
      /\ DOMAIN t = {"size", "pool", "lru", "cyclic"} /\ Entries(t) = Entries(a)
  BY <1>2 DEF Entries
<1>8. PoolType(t)
  BY <1>3, <1>4, <1>6, <1>7 DEF PoolType
<1>9. \A v \in Entries(a) : t.pool[v] = IF v = e THEN Poly!Active(note) ELSE a.pool[v]
  BY <1>1, <1>2, <1>4 DEF PoolType
<1>10. Distinct(t)
  <2> SUFFICES ASSUME NEW v \in Entries(a), NEW w \in Entries(a),
                      v < w, t.pool[v].note = t.pool[w].note
               PROVE  t.pool[w] = Poly!Inactive(0)
    BY <1>7 DEF Distinct
  <2>1. \A x, y \in Entries(a) :
           x < y /\ a.pool[x].note = a.pool[y].note => a.pool[y] = Poly!Inactive(0)
    BY DEF PoolOK, Distinct
  <2>2. v \in 0..11 /\ w \in 0..11 /\ e \in 0..11
    BY <1>1, <1>4 DEF PoolType, Entries
  <2>3. CASE v # e /\ w # e
    BY <1>9, <2>1, <2>3
  <2>4. CASE v = e
    BY <1>1, <1>5, <1>9, <2>1, <2>2, <2>4
  <2>5. CASE w = e
    BY <1>1, <1>5, <1>9, <2>1, <2>2, <2>5
  <2> QED BY <2>3, <2>4, <2>5
<1> QED
  BY <1>2, <1>3, <1>7, <1>8, <1>10 DEF PoolOK, e

\* NoteOff makes the note inactive on the entry that has it.
LEMMA PoolNoteOffFacts ==
  ASSUME NEW a, PoolOK(a), NEW note, NEW t, t = Poly!AfterNoteOff(a, note)
  PROVE  /\ PoolOK(t) /\ t.size = a.size
         /\ t.pool = IF Poly!Find(a, note) = None THEN a.pool
                     ELSE [a.pool EXCEPT ![Poly!Find(a, note)] = Poly!Inactive(note)]
<1> DEFINE e == Poly!Find(a, note)
<1>1. PoolType(a)
  BY DEF PoolOK
<1>2. \/ e = None /\ \A v \in Entries(a) : a.pool[v].note # note
      \/ /\ e \in Entries(a) /\ e # None /\ a.pool[e].note = note
         /\ \A v \in Entries(a) : v < e => a.pool[v].note # note
  BY <1>1, FindFacts
<1>3. CASE e = None
  BY <1>3 DEF Poly!AfterNoteOff, Poly!None, None
<1>4. CASE e # None
  <2>1. t = [a EXCEPT !.pool = [a.pool EXCEPT ![e] = Poly!Inactive(note)],
                      !.lru = Poly!Touch(a, e)]
    BY <1>1, <1>4 DEF Poly!AfterNoteOff, PoolType, Poly!IsCyclic, Poly!None, None
  <2> HIDE DEF e
  <2>2. Poly!Touch(a, e) \in [Entries(a) -> Entries(a)] /\ Onto(Poly!Touch(a, e), a.size)
    BY <1>2, <1>4, TouchFacts
  <2>3. e \in Entries(a) /\ a.pool[e].note = note /\ note \in 0..127
    BY <1>1, <1>2, <1>4 DEF PoolType
  <2>4. /\ DOMAIN t = {"size", "pool", "lru", "cyclic"} /\ t.size = a.size
        /\ t.pool = [a.pool EXCEPT ![e] = Poly!Inactive(note)]
        /\ t.lru = Poly!Touch(a, e) /\ t.cyclic = a.cyclic
    BY <1>1, <2>1 DEF PoolType
  <2>5. Entries(t) = Entries(a)
    BY <2>4 DEF Entries
  <2>6. PoolType(t)
    <3>1. Poly!Inactive(note) \in [note : 0..127, active : BOOLEAN]
      BY <2>3 DEF Poly!Inactive
    <3> QED BY <1>1, <2>2, <2>3, <2>4, <2>5, <3>1 DEF PoolType
  <2>7. \A v \in Entries(a) : t.pool[v] = IF v = e THEN Poly!Inactive(note) ELSE a.pool[v]
    BY <1>1, <2>3, <2>4 DEF PoolType
  <2>8. Distinct(t)
    <3> SUFFICES ASSUME NEW v \in Entries(a), NEW w \in Entries(a),
                        v < w, t.pool[v].note = t.pool[w].note
                 PROVE  t.pool[w] = Poly!Inactive(0)
      BY <2>5 DEF Distinct
    <3>1. \A x \in Entries(a) : t.pool[x].note = a.pool[x].note
      BY <2>3, <2>7 DEF Poly!Inactive
    <3>2. a.pool[w] = Poly!Inactive(0)
      BY <3>1 DEF PoolOK, Distinct
    <3>3. CASE w = e
      <4>1. Poly!Inactive(0).note = 0
        BY DEF Poly!Inactive
      <4>2. note = 0
        BY <2>3, <3>2, <3>3, <4>1
      <4> QED BY <2>7, <3>3, <4>2
    <3>4. CASE w # e
      BY <2>7, <3>2, <3>4
    <3> QED BY <3>3, <3>4
  <2> QED
    BY <1>4, <2>2, <2>4, <2>6, <2>8 DEF PoolOK, e
<1> QED
  BY <1>3, <1>4

\* Init, Clear and ClearNotes leave every entry a zero.
Cleared(t, n) == PoolOK(t) /\ t.size = n /\ \A v \in 0..(n - 1) : t.pool[v] = Poly!Inactive(0)

LEMMA ClearFacts ==
  /\ \A n \in 0..12 : Cleared(Poly!Allocator(n, FALSE), n)
  /\ \A a : PoolOK(a) => /\ Cleared(Poly!AfterClear(a), a.size)
                         /\ Cleared(Poly!AfterClearNotes(a), a.size)
<1>0. Poly!Inactive(0) \in [note : 0..127, active : BOOLEAN]
  BY DEF Poly!Inactive
<1>1. ASSUME NEW n \in 0..12, NEW t, DOMAIN t = {"size", "pool", "lru", "cyclic"},
             t.size = n, t.pool = [v \in 0..(n - 1) |-> Poly!Inactive(0)],
             t.lru \in [0..(n - 1) -> 0..(n - 1)], Onto(t.lru, n), t.cyclic = None
      PROVE  Cleared(t, n)
  <2>1. Entries(t) = 0..(n - 1)
    BY <1>1 DEF Entries
  <2>2. \A v \in 0..(n - 1) : t.pool[v] = Poly!Inactive(0)
    BY <1>1
  <2>3. PoolType(t)
    BY <1>0, <1>1, <2>1 DEF PoolType
  <2>4. Distinct(t)
    BY <2>1, <2>2 DEF Distinct
  <2> QED BY <1>1, <2>2, <2>3, <2>4 DEF Cleared, PoolOK
<1>2. ASSUME NEW n \in 0..12, NEW f, f = [i \in 0..(n - 1) |-> n - i - 1]
      PROVE  f \in [0..(n - 1) -> 0..(n - 1)] /\ Onto(f, n)
  <2>1. \A i \in 0..(n - 1) : f[i] = n - i - 1 /\ n - i - 1 \in 0..(n - 1)
    BY <1>2
  <2>2. \A v \in 0..(n - 1) : n - v - 1 \in 0..(n - 1) /\ n - (n - v - 1) - 1 = v
    OBVIOUS
  <2>3. \A v \in 0..(n - 1) : f[n - v - 1] = v
    BY <2>1, <2>2
  <2> QED BY <1>2, <2>1, <2>2, <2>3 DEF Onto
<1>3. ASSUME NEW n \in 0..12
      PROVE  Cleared(Poly!Allocator(n, FALSE), n)
  <2> DEFINE t == Poly!Allocator(n, FALSE)
  <2>1. /\ DOMAIN t = {"size", "pool", "lru", "cyclic"} /\ t.size = n
        /\ t.pool = [v \in 0..(n - 1) |-> Poly!Inactive(0)]
        /\ t.lru = [i \in 0..(n - 1) |-> n - i - 1] /\ t.cyclic = None
    BY DEF Poly!Allocator, Poly!None, None
  <2> HIDE DEF t
  <2>2. t.lru \in [0..(n - 1) -> 0..(n - 1)] /\ Onto(t.lru, n)
    BY <1>2, <2>1
  <2> QED BY <1>1, <2>1, <2>2 DEF t
<1>4. ASSUME NEW a, PoolOK(a)
      PROVE  Cleared(Poly!AfterClear(a), a.size)
  <2> DEFINE t == Poly!AfterClear(a)
  <2>0. a.size \in 0..12 /\ a.cyclic = None
    BY <1>4 DEF PoolOK, PoolType
  <2>1. /\ DOMAIN t = {"size", "pool", "lru", "cyclic"} /\ t.size = a.size
        /\ t.pool = [v \in 0..(a.size - 1) |-> Poly!Inactive(0)]
        /\ t.lru = [i \in 0..(a.size - 1) |-> a.size - i - 1] /\ t.cyclic = None
    BY <2>0 DEF Poly!AfterClear, Poly!Allocator
  <2> HIDE DEF t
  <2>2. t.lru \in [0..(a.size - 1) -> 0..(a.size - 1)] /\ Onto(t.lru, a.size)
    BY <1>2, <2>0, <2>1
  <2> QED BY <1>1, <2>0, <2>1, <2>2 DEF t
<1>5. ASSUME NEW a, PoolOK(a)
      PROVE  Cleared(Poly!AfterClearNotes(a), a.size)
  <2> DEFINE t == Poly!AfterClearNotes(a)
  <2>0. PoolType(a) /\ Onto(a.lru, a.size) /\ a.size \in 0..12
    BY <1>5 DEF PoolOK, PoolType
  <2>1. /\ DOMAIN t = {"size", "pool", "lru", "cyclic"} /\ t.size = a.size
        /\ t.pool = [v \in 0..(a.size - 1) |-> Poly!Inactive(0)]
        /\ t.lru = a.lru /\ t.cyclic = None
    BY <2>0 DEF Poly!AfterClearNotes, Poly!VoicesOf, PoolType
  <2>2. t.lru \in [0..(a.size - 1) -> 0..(a.size - 1)] /\ Onto(t.lru, a.size)
    BY <2>0, <2>1 DEF PoolType, Entries
  <2> HIDE DEF t
  <2> QED BY <1>1, <2>0, <2>1, <2>2 DEF t
<1> QED
  BY <1>3, <1>4, <1>5

-----------------------------------------------------------------------------
(* The state of a part.                                                    *)

Fields == {"voices", "polyMode", "allocMode", "arpMode", "direction", "octaves", "scale", "pedal",
           "keys", "mono", "poly", "generated", "arp", "sound", "midi", "chain"}

Modes == {"mono", "poly", "unison_2x", "cyclic", "chain"}
Pooled(p) == p.polyMode \in {"poly", "unison_2x", "chain"}

\* With an odd number of voices the last pair of unison_2x takes voice 0 too.
Borrowed(p, v) == p.polyMode = "unison_2x" /\ p.voices % 2 = 1 /\ v = 0

\* Voice 0 then follows the entry of either pair.
FollowsEither(p) ==
    \/ p.sound[0] = Silent
    \/ p.poly.pool[0] = Poly!Active(p.sound[0])
    \/ p.poly.pool[p.poly.size - 1] = Poly!Active(p.sound[0])

Shape(p) ==
    /\ DOMAIN p = Fields
    /\ p.voices \in 0..6 /\ p.polyMode \in Modes /\ p.scale \in SUBSET (0..127)

MonoFollows(p) ==
    /\ MP!StackOK(p.mono)
    /\ \A v \in Voices(p) : p.sound[v] = Expected(p, v)

PoolFollows(p) ==
    /\ PoolOK(p.poly) /\ p.poly.size = SizeFor(p.polyMode, p.voices)
    /\ \A v \in Voices(p) : IF Borrowed(p, v) THEN FollowsEither(p)
                            ELSE p.sound[v] = Expected(p, v)

\* Kept by every call.
VoicesOK(p) ==
    /\ Shape(p)
    /\ p.polyMode = "mono" => MonoFollows(p)
    /\ Pooled(p) => PoolFollows(p)

\* What the allocators, the voices and the note outputs leave alone.
Rest(p) == <<p.voices, p.polyMode, p.allocMode, p.arpMode, p.direction, p.octaves, p.scale,
             p.pedal, p.keys, p.generated, p.arp>>

LEMMA RestFacts ==
  ASSUME NEW p, NEW q, Rest(q) = Rest(p)
  PROVE  /\ q.voices = p.voices /\ q.polyMode = p.polyMode /\ q.allocMode = p.allocMode
         /\ q.scale = p.scale /\ q.arpMode = p.arpMode /\ q.direction = p.direction
         /\ q.pedal = p.pedal /\ q.keys = p.keys /\ q.generated = p.generated
BY DEF Rest

\* VoicesOK looks at the voices, the mode, the scale and the allocators only.
LEMMA SameVoices ==
  ASSUME NEW p, NEW q, VoicesOK(p), DOMAIN q = Fields,
         q.voices = p.voices, q.polyMode = p.polyMode, q.scale \in SUBSET (0..127),
         q.mono = p.mono, q.poly = p.poly, q.sound = p.sound
  PROVE  VoicesOK(q)
BY DEF VoicesOK, Shape, MonoFollows, PoolFollows, Pooled, Borrowed, FollowsEither, Voices,
       Expected, EntryOf

\* Triggering voices changes nothing else.
LEMMA TriggeredFacts ==
  ASSUME NEW p, DOMAIN p = Fields, NEW vs, NEW note, NEW q, q = Triggered(p, vs, note)
  PROVE  /\ DOMAIN q = Fields /\ Rest(q) = Rest(p)
         /\ q.sound = [v \in Voices(p) |-> IF v \in vs THEN note ELSE p.sound[v]]
         /\ q.mono = p.mono /\ q.poly = p.poly /\ q.midi = p.midi /\ q.chain = p.chain
BY DEF Triggered, Fields, Rest

LEMMA TriggeredRest ==
  ASSUME NEW p, DOMAIN p = Fields, NEW vs, NEW note, NEW q, q = Triggered(p, vs, note)
  PROVE  DOMAIN q = Fields /\ Rest(q) = Rest(p)
BY DEF Triggered, Fields, Rest

\* The voices of an entry are those that the entry is expected on.
LEMMA EntryVoices ==
  ASSUME NEW p, Shape(p), Pooled(p), p.poly.size = SizeFor(p.polyMode, p.voices),
         NEW e \in Entries(p.poly), NEW v \in Voices(p)
  PROVE  /\ EntryOf(p, v) \in Entries(p.poly)
         /\ ~Borrowed(p, v) => (v \in VoicesOfEntry(p, e) <=> EntryOf(p, v) = e)
         /\ Borrowed(p, v) =>
               /\ v \in VoicesOfEntry(p, e) <=> e = 0 \/ e = p.poly.size - 1
               /\ 0 \in Entries(p.poly) /\ p.poly.size - 1 \in Entries(p.poly)
<1>1. CASE p.polyMode = "poly"
  BY <1>1 DEF SizeFor, Shape, Entries, Voices, VoicesOfEntry, EntryOf, Borrowed
<1>2. CASE p.polyMode = "chain"
  BY <1>2 DEF SizeFor, Shape, Entries, Voices, VoicesOfEntry, EntryOf, Borrowed
<1>3. CASE p.polyMode = "unison_2x"
  BY <1>3 DEF SizeFor, Shape, Entries, Voices, VoicesOfEntry, EntryOf, Borrowed, NextVoice
<1> QED
  BY <1>1, <1>2, <1>3 DEF Pooled

\* What a voice sounds when its entry holds x.
SoundOf(x) == IF x.active THEN x.note ELSE Silent

\* A new value of an entry goes with the same change of its voices.
LEMMA EntryChanges ==
  ASSUME NEW p, VoicesOK(p), Pooled(p), NEW e \in Entries(p.poly),
         NEW x, x.active \in BOOLEAN, x = [note |-> x.note, active |-> x.active],
         NEW q, DOMAIN q = Fields, Rest(q) = Rest(p),
         PoolOK(q.poly), q.poly.size = p.poly.size, q.poly.pool = [p.poly.pool EXCEPT ![e] = x],
         q.sound = [v \in Voices(p) |-> IF v \in VoicesOfEntry(p, e) THEN SoundOf(x)
                                       ELSE p.sound[v]]
  PROVE  VoicesOK(q)
<1>1. /\ q.voices = p.voices /\ q.polyMode = p.polyMode /\ q.scale = p.scale
      /\ Voices(q) = Voices(p)
  BY RestFacts DEF Voices
<1>2. /\ Shape(p) /\ PoolOK(p.poly) /\ p.poly.size = SizeFor(p.polyMode, p.voices)
      /\ \A v \in Voices(p) : IF Borrowed(p, v) THEN FollowsEither(p)
                              ELSE p.sound[v] = Expected(p, v)
      /\ p.polyMode # "mono"
  BY DEF VoicesOK, PoolFollows, Pooled
<1>3. \A v \in Entries(p.poly) : q.poly.pool[v] = IF v = e THEN x ELSE p.poly.pool[v]
  BY <1>2 DEF PoolOK, PoolType
<1>4. Shape(q) /\ Pooled(q)
  BY <1>1, <1>2 DEF Shape, Pooled
<1>5. ASSUME NEW v \in Voices(p)
      PROVE  IF Borrowed(q, v) THEN FollowsEither(q) ELSE q.sound[v] = Expected(q, v)
  <2>0. /\ EntryOf(p, v) \in Entries(p.poly)
        /\ ~Borrowed(p, v) => (v \in VoicesOfEntry(p, e) <=> EntryOf(p, v) = e)
        /\ Borrowed(p, v) =>
              /\ v \in VoicesOfEntry(p, e) <=> e = 0 \/ e = p.poly.size - 1
              /\ 0 \in Entries(p.poly) /\ p.poly.size - 1 \in Entries(p.poly)
    BY <1>2, EntryVoices
  <2>00. q.sound[v] = IF v \in VoicesOfEntry(p, e) THEN SoundOf(x) ELSE p.sound[v]
    OBVIOUS
  <2>1. Borrowed(q, v) = Borrowed(p, v) /\ EntryOf(q, v) = EntryOf(p, v)
    BY <1>1 DEF Borrowed, EntryOf
  <2>2. CASE ~Borrowed(p, v)
    <3>1. p.sound[v] = SoundOf(p.poly.pool[EntryOf(p, v)])
      BY <1>2, <2>2 DEF Expected, SoundOf
    <3>2. q.sound[v] = SoundOf(q.poly.pool[EntryOf(p, v)])
      BY <1>3, <2>0, <2>00, <2>2, <3>1
    <3>3. Expected(q, v) = SoundOf(q.poly.pool[EntryOf(p, v)])
      BY <1>1, <1>2, <2>1 DEF Expected, SoundOf
    <3> QED BY <2>1, <2>2, <3>2, <3>3
  <2>3. CASE Borrowed(p, v)
    <3>0. v = 0
      BY <2>3 DEF Borrowed
    <3>1. FollowsEither(p) /\ 0 \in Entries(p.poly) /\ p.poly.size - 1 \in Entries(p.poly)
      BY <1>2, <2>0, <2>3
    <3>2. CASE e = 0 \/ e = p.poly.size - 1
      <4>1. q.sound[0] = SoundOf(x)
        BY <2>0, <2>00, <2>3, <3>0, <3>2
      <4>2. q.poly.pool[e] = x
        BY <1>3
      <4>3. x.active => x = Poly!Active(x.note)
        BY DEF Poly!Active
      <4>4. ~x.active => q.sound[0] = Silent
        BY <4>1 DEF SoundOf
      <4>5. x.active => q.poly.pool[e] = Poly!Active(q.sound[0])
        BY <4>1, <4>2, <4>3 DEF SoundOf
      <4>6. FollowsEither(q)
        BY <3>2, <4>4, <4>5 DEF FollowsEither
      <4> QED BY <2>1, <2>3, <4>6
    <3>3. CASE ~(e = 0 \/ e = p.poly.size - 1)
      <4>1. q.sound[0] = p.sound[0]
        BY <2>0, <2>00, <2>3, <3>0, <3>3
      <4>2. /\ q.poly.pool[0] = p.poly.pool[0]
            /\ q.poly.pool[q.poly.size - 1] = p.poly.pool[p.poly.size - 1]
        BY <1>3, <3>1, <3>3
      <4>3. FollowsEither(q)
        BY <3>1, <4>1, <4>2 DEF FollowsEither
      <4> QED BY <2>1, <2>3, <4>3
    <3> QED BY <3>2, <3>3
  <2> QED BY <2>2, <2>3
<1>6. PoolFollows(q)
  BY <1>1, <1>2, <1>5 DEF PoolFollows
<1> QED
  BY <1>1, <1>2, <1>4, <1>6 DEF VoicesOK

\* A change of the note outputs only.
LEMMA UntouchedVoices ==
  ASSUME NEW p, VoicesOK(p), NEW q, DOMAIN q = Fields, Rest(q) = Rest(p),
         q.mono = p.mono, q.poly = p.poly,
         NEW vs, vs \cap Voices(p) = {}, NEW note,
         q.sound = [v \in Voices(p) |-> IF v \in vs THEN note ELSE p.sound[v]]
  PROVE  VoicesOK(q)
<1>1. /\ q.voices = p.voices /\ q.polyMode = p.polyMode /\ q.scale = p.scale
      /\ Voices(q) = Voices(p)
  BY RestFacts DEF Voices
<1>2. \A v \in Voices(p) : q.sound[v] = p.sound[v]
  OBVIOUS
<1>3. \A v \in Voices(p) :
         /\ Expected(q, v) = Expected(p, v)
         /\ Borrowed(q, v) = Borrowed(p, v)
         /\ Borrowed(p, v) => (FollowsEither(q) <=> FollowsEither(p))
  BY <1>1, <1>2 DEF Expected, EntryOf, Borrowed, FollowsEither
<1>4. Shape(q)
  BY <1>1 DEF VoicesOK, Shape
<1>5. MonoFollows(p) => MonoFollows(q)
  <2> SUFFICES ASSUME MonoFollows(p) PROVE MonoFollows(q)
    OBVIOUS
  <2>1. MP!StackOK(q.mono)
    BY DEF MonoFollows
  <2>2. ASSUME NEW v \in Voices(q)
        PROVE  q.sound[v] = Expected(q, v)
    <3>1. p.sound[v] = Expected(p, v)
      BY <1>1, <2>2 DEF MonoFollows
    <3>2. v \in Voices(p)
      BY <1>1, <2>2
    <3>3. q.sound[v] = p.sound[v]
      BY <1>2, <3>2
    <3>4. Expected(q, v) = Expected(p, v)
      BY <1>3, <3>2
    <3> QED BY <3>1, <3>3, <3>4
  <2> QED BY <2>1, <2>2 DEF MonoFollows
<1>6. PoolFollows(p) => PoolFollows(q)
  <2> SUFFICES ASSUME PoolFollows(p) PROVE PoolFollows(q)
    OBVIOUS
  <2>1. PoolOK(q.poly) /\ q.poly.size = SizeFor(q.polyMode, q.voices)
    BY <1>1 DEF PoolFollows
  <2>2. ASSUME NEW v \in Voices(q)
        PROVE  IF Borrowed(q, v) THEN FollowsEither(q) ELSE q.sound[v] = Expected(q, v)
    <3>1. IF Borrowed(p, v) THEN FollowsEither(p) ELSE p.sound[v] = Expected(p, v)
      BY <1>1, <2>2 DEF PoolFollows
    <3>2. v \in Voices(p)
      BY <1>1, <2>2
    <3>3. q.sound[v] = p.sound[v]
      BY <1>2, <3>2
    <3>4. /\ Expected(q, v) = Expected(p, v)
          /\ Borrowed(q, v) = Borrowed(p, v)
          /\ Borrowed(p, v) => (FollowsEither(q) <=> FollowsEither(p))
      BY <1>3, <3>2
    <3> QED BY <3>1, <3>3, <3>4
  <2> QED BY <2>1, <2>2 DEF PoolFollows
<1> QED
  BY <1>1, <1>4, <1>5, <1>6 DEF VoicesOK, Pooled

\* The instances of the stacks that the proofs are about are those of Part.
LEMMA SameStack ==
  /\ MP!EmptyStack = Mono!EmptyStack
  /\ \A s : MP!Size(s) = Mono!Size(s) /\ MP!MostRecentNote(s) = Mono!MostRecentNote(s)
  /\ \A s, note : MP!AfterNoteOff(s, note) = Mono!AfterNoteOff(s, note)
  /\ \A s, note, velocity : MP!AfterNoteOn(s, note, velocity) = Mono!AfterNoteOn(s, note, velocity)
<1>1. MP!FreeEntry = Mono!FreeEntry /\ MP!Slots = Mono!Slots
  BY DEF MP!FreeEntry, Mono!FreeEntry, MP!FreeSlot, Mono!FreeSlot, MP!Slots, Mono!Slots
<1>2. MP!EmptyStack = Mono!EmptyStack
  BY <1>1 DEF MP!EmptyStack, Mono!EmptyStack
<1>3. \A s, i : MP!NoteAt(s, i) = Mono!NoteAt(s, i)
  BY DEF MP!NoteAt, Mono!NoteAt
<1>4. \A s : MP!Size(s) = Mono!Size(s) /\ MP!MostRecentNote(s) = Mono!MostRecentNote(s)
  BY <1>3 DEF MP!Size, Mono!Size, MP!MostRecentNote, Mono!MostRecentNote, MP!FreeSlot,
         Mono!FreeSlot
<1>5. \A s, order : MP!Threads(s, order) = Mono!Threads(s, order)
  BY DEF MP!Threads, Mono!Threads
<1>6. \A s : MP!Listing(s) = Mono!Listing(s)
  BY <1>1, <1>5 DEF MP!Listing, Mono!Listing, MP!SeqOf, Mono!SeqOf, MP!IsInjective,
         Mono!IsInjective
<1>7. \A s, order, note : MP!PlaceOf(s, order, note) = Mono!PlaceOf(s, order, note)
  BY DEF MP!PlaceOf, Mono!PlaceOf, MP!NoteAt, Mono!NoteAt, MP!Min, Mono!Min
<1>8. \A t, i : MP!RemoveAt(t, i) = Mono!RemoveAt(t, i)
  BY DEF MP!RemoveAt, Mono!RemoveAt
<1>9. ASSUME NEW s, NEW note
      PROVE  MP!AfterNoteOff(s, note) = Mono!AfterNoteOff(s, note)
  BY <1>1, <1>6, <1>7, <1>8 DEF MP!AfterNoteOff, Mono!AfterNoteOff
<1>10. \A s : MP!LeastRecentNote(s) = Mono!LeastRecentNote(s)
  BY DEF MP!LeastRecentNote, Mono!LeastRecentNote, MP!Slots, Mono!Slots, MP!NoteAt,
         Mono!NoteAt, MP!Max, Mono!Max
<1>11. ASSUME NEW s, NEW note
      PROVE  MP!WithRoomFor(s, note) = Mono!WithRoomFor(s, note)
  BY <1>4, <1>9, <1>10 DEF MP!WithRoomFor, Mono!WithRoomFor
<1>12. ASSUME NEW s, NEW note
      PROVE  MP!InsertionPoint(s, note) = Mono!InsertionPoint(s, note)
  BY DEF MP!InsertionPoint, Mono!InsertionPoint, MP!Size, Mono!Size, MP!NoteAt, Mono!NoteAt,
         MP!Min, Mono!Min
<1>13. ASSUME NEW s, NEW note, NEW velocity
      PROVE  MP!Push(s, note, velocity) = Mono!Push(s, note, velocity)
  BY <1>1, <1>3, <1>12 DEF MP!Push, Mono!Push, MP!FreeSlot, Mono!FreeSlot, MP!Min, Mono!Min,
         MP!InsertAt, Mono!InsertAt
<1>14. ASSUME NEW s, NEW note, NEW velocity
      PROVE  MP!AfterNoteOn(s, note, velocity) = Mono!AfterNoteOn(s, note, velocity)
  BY <1>11, <1>13 DEF MP!AfterNoteOn, Mono!AfterNoteOn
<1> QED
  BY <1>2, <1>4, <1>9, <1>14

LEMMA SameKeys ==
  /\ MK!EmptyStack = Keys!EmptyStack
  /\ \A s : MK!Size(s) = Keys!Size(s) /\ MK!MostRecentNote(s) = Keys!MostRecentNote(s)
  /\ \A s, note : MK!AfterFlag(s, note) = Keys!AfterFlag(s, note)
  /\ \A s, note : MK!AfterNoteOff(s, note) = Keys!AfterNoteOff(s, note)
  /\ \A s, note, velocity : MK!AfterNoteOn(s, note, velocity) = Keys!AfterNoteOn(s, note, velocity)
<1>1. MK!FreeEntry = Keys!FreeEntry /\ MK!Slots = Keys!Slots
  BY DEF MK!FreeEntry, Keys!FreeEntry, MK!FreeSlot, Keys!FreeSlot, MK!Slots, Keys!Slots
<1>2. MK!EmptyStack = Keys!EmptyStack
  BY <1>1 DEF MK!EmptyStack, Keys!EmptyStack
<1>3. \A s, i : MK!NoteAt(s, i) = Keys!NoteAt(s, i)
  BY DEF MK!NoteAt, Keys!NoteAt
<1>4. \A s : MK!Size(s) = Keys!Size(s) /\ MK!MostRecentNote(s) = Keys!MostRecentNote(s)
  BY <1>3 DEF MK!Size, Keys!Size, MK!MostRecentNote, Keys!MostRecentNote, MK!FreeSlot,
         Keys!FreeSlot
<1>5. \A s, order : MK!Threads(s, order) = Keys!Threads(s, order)
  BY DEF MK!Threads, Keys!Threads
<1>6. \A s : MK!Listing(s) = Keys!Listing(s)
  BY <1>1, <1>5 DEF MK!Listing, Keys!Listing, MK!SeqOf, Keys!SeqOf, MK!IsInjective,
         Keys!IsInjective
<1>7. \A s, order, note : MK!PlaceOf(s, order, note) = Keys!PlaceOf(s, order, note)
  BY DEF MK!PlaceOf, Keys!PlaceOf, MK!NoteAt, Keys!NoteAt, MK!Min, Keys!Min
<1>8. \A t, i : MK!RemoveAt(t, i) = Keys!RemoveAt(t, i)
  BY DEF MK!RemoveAt, Keys!RemoveAt
<1>9. ASSUME NEW s, NEW note
      PROVE  MK!AfterNoteOff(s, note) = Keys!AfterNoteOff(s, note)
  BY <1>1, <1>6, <1>7, <1>8 DEF MK!AfterNoteOff, Keys!AfterNoteOff
<1>10. \A s : MK!LeastRecentNote(s) = Keys!LeastRecentNote(s)
  BY DEF MK!LeastRecentNote, Keys!LeastRecentNote, MK!Slots, Keys!Slots, MK!NoteAt,
         Keys!NoteAt, MK!Max, Keys!Max
<1>11. ASSUME NEW s, NEW note
      PROVE  MK!WithRoomFor(s, note) = Keys!WithRoomFor(s, note)
  BY <1>4, <1>9, <1>10 DEF MK!WithRoomFor, Keys!WithRoomFor
<1>12. ASSUME NEW s, NEW note
      PROVE  MK!InsertionPoint(s, note) = Keys!InsertionPoint(s, note)
  BY DEF MK!InsertionPoint, Keys!InsertionPoint, MK!Size, Keys!Size, MK!NoteAt, Keys!NoteAt,
         MK!Min, Keys!Min
<1>13. ASSUME NEW s, NEW note, NEW velocity
      PROVE  MK!Push(s, note, velocity) = Keys!Push(s, note, velocity)
  BY <1>1, <1>3, <1>12 DEF MK!Push, Keys!Push, MK!FreeSlot, Keys!FreeSlot, MK!Min, Keys!Min,
         MK!InsertAt, Keys!InsertAt
<1>14. ASSUME NEW s, NEW note, NEW velocity
      PROVE  MK!AfterNoteOn(s, note, velocity) = Keys!AfterNoteOn(s, note, velocity)
  BY <1>11, <1>13 DEF MK!AfterNoteOn, Keys!AfterNoteOn
<1>15. \A s, note : MK!AfterFlag(s, note) = Keys!AfterFlag(s, note)
  BY <1>1, <1>3 DEF MK!AfterFlag, Keys!AfterFlag
<1> QED
  BY <1>2, <1>4, <1>9, <1>14, <1>15

-----------------------------------------------------------------------------
(* Notes on and off.                                                       *)

\* What a call that plays or stops a note keeps.
Kept(p, q) == VoicesOK(q) /\ Rest(q) = Rest(p)

\* A note on in mono mode takes all the voices.
LEMMA MonoNoteOnKeeps ==
  ASSUME NEW p, VoicesOK(p), p.polyMode = "mono", NEW note \in 0..127,
         NEW q, q = MonoNoteOn(p, note)
  PROVE  Kept(p, q)
<1> DEFINE m == Mono!AfterNoteOn(p.mono, note, 1)
           r == [p EXCEPT !.mono = m]
<1>1. Shape(p) /\ MonoFollows(p)
  BY DEF VoicesOK
<1>2. DOMAIN r = Fields /\ Rest(r) = Rest(p) /\ r.mono = m /\ Voices(r) = Voices(p)
  BY <1>1 DEF Shape, Fields, Rest, Voices
<1>3. MP!StackOK(m) /\ Mono!Size(m) # 0 /\ Mono!MostRecentNote(m) = note
  <2>1. note \in Int /\ note # MP!FreeSlot /\ 1 \in {1} /\ MonoCapacity \in Nat \ {0}
    BY CapacityAssumption DEF MP!FreeSlot
  <2>2. MP!StackOK(p.mono) /\ m = MP!AfterNoteOn(p.mono, note, 1)
    BY <1>1, SameStack DEF MonoFollows
  <2> HIDE DEF m
  <2>3. MP!StackOK(m) /\ MP!Size(m) # 0 /\ MP!MostRecentNote(m) = note
    BY <2>1, <2>2, MP!NoteOnFacts
  <2> QED BY <2>3, SameStack
<1> HIDE DEF m
<1>4. q = Triggered(r, Voices(r), note)
  BY <1>2 DEF MonoNoteOn, m
<1> HIDE DEF r
<1>5. /\ DOMAIN q = Fields /\ Rest(q) = Rest(r) /\ q.mono = r.mono
      /\ q.sound = [v \in Voices(r) |-> IF v \in Voices(r) THEN note ELSE r.sound[v]]
  BY <1>2, <1>4, TriggeredFacts
<1>6. q.polyMode = p.polyMode /\ q.voices = p.voices /\ q.scale = p.scale
  BY <1>2, <1>5, RestFacts
<1>7. \A v \in Voices(q) : q.sound[v] = Expected(q, v)
  <2>1. \A v \in Voices(q) : q.sound[v] = note
    BY <1>2, <1>5, <1>6 DEF Voices
  <2>2. \A v : Expected(q, v) = note
    BY <1>2, <1>3, <1>5, <1>6 DEF Expected
  <2> QED BY <2>1, <2>2
<1> QED
  BY <1>1, <1>2, <1>3, <1>5, <1>6, <1>7 DEF Kept, VoicesOK, Shape, MonoFollows, Pooled

\* A note on in poly, unison and chain mode changes one entry and its voices.
LEMMA PolyNoteOnKeeps ==
  ASSUME NEW p, VoicesOK(p), Pooled(p), NEW note \in 0..127,
         NEW q, q = PolyNoteOn(p, note)
  PROVE  Kept(p, q)
<1> DEFINE a == p.poly
           f == Poly!FindActive(a, note)
           e == EntryForNoteOn(p, note)
           b == IF f # None THEN a ELSE Poly!AfterNoteOn(a, note)
           c == IF IsForwarded(p, e) THEN p.chain \cup {note} ELSE p.chain
           r == [p EXCEPT !.poly = b, !.chain = c]
<1>1. Shape(p) /\ PoolOK(a) /\ PoolType(a) /\ a.size = SizeFor(p.polyMode, p.voices)
  BY DEF VoicesOK, PoolFollows, PoolOK
<1>2. q = Triggered(r, VoicesOfEntry(p, e), note)
  BY <1>1 DEF PolyNoteOn, Shape, Fields
<1>3. DOMAIN r = Fields /\ Rest(r) = Rest(p) /\ r.poly = b /\ r.sound = p.sound /\ r.mono = p.mono
      /\ Voices(r) = Voices(p)
  BY <1>1 DEF Shape, Fields, Rest, Voices
<1>4. \/ f = None
      \/ f \in Entries(a) /\ f # None /\ a.pool[f] = Poly!Active(note)
  BY <1>1, FindActiveFacts
<1> HIDE DEF r, b, c, e
<1>5. /\ DOMAIN q = Fields /\ Rest(q) = Rest(p) /\ q.poly = b /\ q.mono = p.mono
      /\ q.sound = [v \in Voices(p) |-> IF v \in VoicesOfEntry(p, e) THEN note ELSE p.sound[v]]
  BY <1>2, <1>3, TriggeredFacts
<1>6. CASE f = None /\ a.size = 0
  <2>1. b = a /\ e = None
    BY <1>6 DEF b, e, EntryForNoteOn, Poly!AfterNoteOn
  <2>2. VoicesOfEntry(p, e) \cap Voices(p) = {}
    BY <1>1, <1>6 DEF SizeFor, Shape, Voices
  <2>3. VoicesOK(q)
    BY <1>5, <2>1, <2>2, UntouchedVoices
  <2> QED BY <1>5, <2>3 DEF Kept
<1>7. CASE ~(f = None /\ a.size = 0)
  <2> DEFINE x == Poly!Active(note)
  <2>1. /\ e \in Entries(a) /\ PoolOK(b) /\ b.size = a.size
        /\ b.pool = [a.pool EXCEPT ![e] = x]
    <3>1. CASE f # None
      <4>1. b = a /\ e = f
        BY <3>1 DEF b, e, EntryForNoteOn
      <4> QED BY <1>1, <1>4, <3>1, <4>1 DEF PoolType
    <3>2. CASE f = None
      <4>1. b = Poly!AfterNoteOn(a, note) /\ e = Poly!VoiceFor(a, note) /\ a.size # 0
        BY <1>7, <3>2 DEF b, e, EntryForNoteOn
      <4>2. Poly!VoiceFor(a, note) \in Entries(a)
        BY <1>1, <4>1, VoiceForFacts
      <4>3. /\ PoolOK(b) /\ b.size = a.size
            /\ b.pool = [a.pool EXCEPT ![Poly!VoiceFor(a, note)] = Poly!Active(note)]
        <5> HIDE DEF a
        <5> QED BY <1>1, <4>1, PoolNoteOnFacts
      <4> QED BY <4>1, <4>2, <4>3
    <3> QED BY <3>1, <3>2
  <2>2. x.active = TRUE /\ x.note = note /\ x = [note |-> x.note, active |-> x.active]
    BY DEF Poly!Active
  <2> HIDE DEF x
  <2>3. SoundOf(x) = note
    BY <2>2 DEF SoundOf
  <2>4. q.sound = [v \in Voices(p) |-> IF v \in VoicesOfEntry(p, e) THEN SoundOf(x)
                                     ELSE p.sound[v]]
    BY <1>5, <2>3
  <2>5. PoolOK(q.poly) /\ q.poly.size = p.poly.size /\ q.poly.pool = [p.poly.pool EXCEPT ![e] = x]
    BY <1>5, <2>1
  <2>6. x.active \in BOOLEAN
    BY <2>2
  <2>7. e \in Entries(p.poly)
    BY <2>1
  <2> HIDE DEF a
  <2>8. VoicesOK(q)
    BY <1>5, <2>2, <2>4, <2>5, <2>6, <2>7, EntryChanges
  <2> QED BY <1>5, <2>8 DEF Kept
<1> QED
  BY <1>6, <1>7

LEMMA InternalNoteOnKeeps ==
  ASSUME NEW p, VoicesOK(p), NEW note, NEW q, q = InternalNoteOn(p, note)
  PROVE  Kept(p, q)
<1> DEFINE r == [p EXCEPT !.midi = p.midi \cup {note}]
<1>1. Shape(p)
  BY DEF VoicesOK
<1>2. q = IF note \notin p.scale THEN p
          ELSE IF p.polyMode = "mono" THEN MonoNoteOn(r, note) ELSE PolyNoteOn(r, note)
  BY <1>1 DEF InternalNoteOn, Shape, Fields
<1>3. /\ DOMAIN r = Fields /\ Rest(r) = Rest(p)
      /\ r.mono = p.mono /\ r.poly = p.poly /\ r.sound = p.sound
  BY <1>1 DEF Shape, Fields, Rest
<1> HIDE DEF r
<1>4. r.polyMode = p.polyMode /\ r.voices = p.voices /\ r.scale = p.scale
  BY <1>3, RestFacts
<1>5. VoicesOK(r)
  BY <1>1, <1>3, <1>4, SameVoices DEF Shape
<1>6. CASE note \notin p.scale
  BY <1>2, <1>6 DEF Kept
<1>7. CASE note \in p.scale /\ p.polyMode = "mono"
  BY <1>1, <1>2, <1>3, <1>4, <1>5, <1>7, MonoNoteOnKeeps DEF Kept, Shape
<1>8. CASE note \in p.scale /\ p.polyMode # "mono"
  <2>1. note \in 0..127 /\ q = PolyNoteOn(r, note)
    BY <1>1, <1>2, <1>8 DEF Shape
  <2>2. CASE Pooled(p)
    <3>1. Pooled(r)
      BY <1>4, <2>2 DEF Pooled
    <3> QED BY <1>3, <1>5, <2>1, <3>1, PolyNoteOnKeeps DEF Kept
  <2>3. CASE ~Pooled(p)
    <3> DEFINE u == [r EXCEPT !.poly = IF Poly!FindActive(r.poly, note) # None THEN r.poly
                                       ELSE Poly!AfterNoteOn(r.poly, note),
                              !.chain = IF IsForwarded(r, EntryForNoteOn(r, note))
                                        THEN r.chain \cup {note} ELSE r.chain]
    <3>1. DOMAIN u = Fields /\ Rest(u) = Rest(r)
      BY <1>3 DEF Fields, Rest
    <3>2. PICK vs : q = Triggered(u, vs, note)
      BY <1>3, <2>1 DEF PolyNoteOn, Fields
    <3> HIDE DEF u
    <3>3. DOMAIN q = Fields /\ Rest(q) = Rest(p)
      BY <1>3, <3>1, <3>2, TriggeredRest
    <3>4. q.polyMode = p.polyMode /\ q.voices = p.voices /\ q.scale = p.scale
      BY <3>3, RestFacts
    <3>5. Shape(q)
      BY <1>1, <3>3, <3>4 DEF Shape
    <3>6. q.polyMode # "mono" /\ ~Pooled(q)
      BY <1>8, <2>3, <3>4 DEF Pooled
    <3> QED BY <3>3, <3>5, <3>6 DEF Kept, VoicesOK
  <2> QED BY <2>2, <2>3
<1> QED
  BY <1>6, <1>7, <1>8

\* A note off in mono mode gives the voices to the most recent key left.
LEMMA MonoNoteOffKeeps ==
  ASSUME NEW p, VoicesOK(p), p.polyMode = "mono", NEW note, NEW q, q = MonoNoteOff(p, note)
  PROVE  Kept(p, q)
<1> DEFINE m == Mono!AfterNoteOff(p.mono, note)
           r == [p EXCEPT !.mono = m]
<1>1. Shape(p) /\ MonoFollows(p)
  BY DEF VoicesOK
<1>2. /\ DOMAIN r = Fields /\ Rest(r) = Rest(p) /\ r.mono = m /\ r.sound = p.sound
      /\ Voices(r) = Voices(p)
  BY <1>1 DEF Shape, Fields, Rest, Voices
<1>3. /\ MP!StackOK(m)
      /\ Mono!MostRecentNote(p.mono) # note /\ Mono!Size(m) # 0 =>
            Mono!Size(p.mono) # 0 /\ Mono!MostRecentNote(m) = Mono!MostRecentNote(p.mono)
  <2>1. MonoCapacity \in Nat /\ MP!StackOK(p.mono) /\ m = MP!AfterNoteOff(p.mono, note)
    BY <1>1, SameStack, CapacityAssumption DEF MonoFollows
  <2> HIDE DEF m
  <2>2. MP!StackOK(m)
    BY <2>1, MP!NoteOffFacts
  <2>3. MP!MostRecentNote(p.mono) # note => (MP!Size(m) # 0 =>
           MP!Size(p.mono) # 0 /\ MP!MostRecentNote(m) = MP!MostRecentNote(p.mono))
    BY <2>1, MP!TopStays
  <2> QED BY <2>2, <2>3, SameStack
<1>4. q = IF Mono!Size(m) = 0 THEN Triggered(r, Voices(r), Silent)
          ELSE IF Mono!MostRecentNote(p.mono) = note
               THEN Triggered(r, Voices(r), Mono!MostRecentNote(m)) ELSE r
  BY <1>2 DEF MonoNoteOff, Released
<1> HIDE DEF m, r
<1>5. Mono!Size(p.mono) = 0 \/ \A v \in Voices(p) : p.sound[v] = Mono!MostRecentNote(p.mono)
  BY <1>1 DEF MonoFollows, Expected
<1> DEFINE top == IF Mono!Size(m) = 0 THEN Silent ELSE Mono!MostRecentNote(m)
<1>6. /\ DOMAIN q = Fields /\ Rest(q) = Rest(p) /\ q.mono = m
      /\ \A v \in Voices(p) : q.sound[v] = top
  <2>1. CASE \/ Mono!Size(m) = 0
             \/ Mono!MostRecentNote(p.mono) = note
    <3>1. q = Triggered(r, Voices(r), top)
      BY <1>4, <2>1
    <3> HIDE DEF top
    <3>2. /\ DOMAIN q = Fields /\ Rest(q) = Rest(r) /\ q.mono = r.mono
          /\ q.sound = [v \in Voices(r) |-> IF v \in Voices(r) THEN top ELSE r.sound[v]]
      BY <1>2, <3>1, TriggeredFacts
    <3> QED BY <1>2, <3>2
  <2>2. CASE Mono!Size(m) # 0 /\ Mono!MostRecentNote(p.mono) # note
    BY <1>2, <1>3, <1>4, <1>5, <2>2
  <2> QED BY <2>1, <2>2
<1>7. q.polyMode = p.polyMode /\ q.voices = p.voices /\ q.scale = p.scale
  BY <1>6, RestFacts
<1>8. \A v \in Voices(q) : q.sound[v] = Expected(q, v)
  BY <1>6, <1>7 DEF Voices, Expected
<1> QED
  BY <1>1, <1>3, <1>6, <1>7, <1>8 DEF Kept, VoicesOK, Shape, MonoFollows, Pooled

\* A note off in poly, unison and chain mode silences the voices of the entry.
LEMMA PolyNoteOffKeeps ==
  ASSUME NEW p, VoicesOK(p), Pooled(p), NEW note, NEW q, q = PolyNoteOff(p, note)
  PROVE  Kept(p, q)
<1> DEFINE a == p.poly
           e == Poly!Find(a, note)
           b == Poly!AfterNoteOff(a, note)
           c == IF IsForwarded(p, e) THEN p.chain \ {note} ELSE p.chain
           r == [p EXCEPT !.poly = b, !.chain = c]
<1>1. Shape(p) /\ PoolOK(a) /\ PoolType(a) /\ a.size = SizeFor(p.polyMode, p.voices)
  BY DEF VoicesOK, PoolFollows, PoolOK
<1>2. q = Triggered(r, VoicesOfEntry(p, e), Silent)
  BY <1>1 DEF PolyNoteOff, Released, Shape, Fields
<1>3. DOMAIN r = Fields /\ Rest(r) = Rest(p) /\ r.poly = b /\ r.sound = p.sound /\ r.mono = p.mono
      /\ Voices(r) = Voices(p)
  BY <1>1 DEF Shape, Fields, Rest, Voices
<1> HIDE DEF r, c
<1>4. \/ e = None
      \/ e \in Entries(a) /\ e # None
  BY <1>1, FindFacts
<1>5. /\ DOMAIN q = Fields /\ Rest(q) = Rest(p) /\ q.poly = b /\ q.mono = p.mono
      /\ q.sound = [v \in Voices(p) |-> IF v \in VoicesOfEntry(p, e) THEN Silent ELSE p.sound[v]]
  BY <1>2, <1>3, TriggeredFacts
<1>6. CASE e = None
  <2>1. b = a
    BY <1>6 DEF Poly!AfterNoteOff, Poly!None, None
  <2>2. VoicesOfEntry(p, e) \cap Voices(p) = {}
    BY <1>1, <1>6 DEF None, VoicesOfEntry, PoolType
  <2>3. VoicesOK(q)
    BY <1>5, <2>1, <2>2, UntouchedVoices
  <2> QED BY <1>5, <2>3 DEF Kept
<1>7. CASE e # None
  <2> DEFINE x == Poly!Inactive(note)
  <2>1. PoolOK(b) /\ b.size = a.size /\ b.pool = [a.pool EXCEPT ![e] = x]
    BY <1>1, <1>7, PoolNoteOffFacts
  <2>2. x.active = FALSE /\ x = [note |-> x.note, active |-> x.active]
    BY DEF Poly!Inactive
  <2> HIDE DEF x
  <2>3. SoundOf(x) = Silent
    BY <2>2 DEF SoundOf
  <2>4. q.sound = [v \in Voices(p) |-> IF v \in VoicesOfEntry(p, e) THEN SoundOf(x)
                                     ELSE p.sound[v]]
    BY <1>5, <2>3
  <2>5. PoolOK(q.poly) /\ q.poly.size = p.poly.size /\ q.poly.pool = [p.poly.pool EXCEPT ![e] = x]
    BY <1>5, <2>1
  <2>6. x.active \in BOOLEAN
    BY <2>2
  <2>7. e \in Entries(p.poly)
    BY <1>4, <1>7
  <2> HIDE DEF a, e, b
  <2>8. VoicesOK(q)
    BY <1>5, <2>2, <2>4, <2>5, <2>6, <2>7, EntryChanges
  <2> QED BY <1>5, <2>8 DEF Kept
<1> QED
  BY <1>6, <1>7

LEMMA InternalNoteOffKeeps ==
  ASSUME NEW p, VoicesOK(p), NEW note, NEW q, q = InternalNoteOff(p, note)
  PROVE  Kept(p, q)
<1> DEFINE r == [p EXCEPT !.midi = p.midi \ {note}]
<1>1. Shape(p)
  BY DEF VoicesOK
<1>2. q = IF note = None THEN p
          ELSE IF p.polyMode = "mono" THEN MonoNoteOff(r, note) ELSE PolyNoteOff(r, note)
  BY <1>1 DEF InternalNoteOff, Shape, Fields
<1>3. /\ DOMAIN r = Fields /\ Rest(r) = Rest(p)
      /\ r.mono = p.mono /\ r.poly = p.poly /\ r.sound = p.sound
  BY <1>1 DEF Shape, Fields, Rest
<1> HIDE DEF r
<1>4. r.polyMode = p.polyMode /\ r.voices = p.voices /\ r.scale = p.scale
  BY <1>3, RestFacts
<1>5. VoicesOK(r)
  BY <1>1, <1>3, <1>4, SameVoices DEF Shape
<1>6. CASE note = None
  BY <1>2, <1>6 DEF Kept
<1>7. CASE note # None /\ p.polyMode = "mono"
  BY <1>2, <1>3, <1>4, <1>5, <1>7, MonoNoteOffKeeps DEF Kept
<1>8. CASE note # None /\ p.polyMode # "mono"
  <2>1. q = PolyNoteOff(r, note)
    BY <1>2, <1>8
  <2>2. CASE Pooled(p)
    <3>1. Pooled(r)
      BY <1>4, <2>2 DEF Pooled
    <3> QED BY <1>3, <1>5, <2>1, <3>1, PolyNoteOffKeeps DEF Kept
  <2>3. CASE ~Pooled(p)
    <3> DEFINE u == [r EXCEPT !.poly = Poly!AfterNoteOff(r.poly, note),
                              !.chain = IF IsForwarded(r, Poly!Find(r.poly, note))
                                        THEN r.chain \ {note} ELSE r.chain]
    <3>1. DOMAIN u = Fields /\ Rest(u) = Rest(r)
      BY <1>3 DEF Fields, Rest
    <3>2. PICK vs : q = Triggered(u, vs, Silent)
      BY <1>3, <2>1 DEF PolyNoteOff, Released, Fields
    <3> HIDE DEF u
    <3>3. DOMAIN q = Fields /\ Rest(q) = Rest(p)
      BY <1>3, <3>1, <3>2, TriggeredRest
    <3>4. q.polyMode = p.polyMode /\ q.voices = p.voices /\ q.scale = p.scale
      BY <3>3, RestFacts
    <3>5. Shape(q)
      BY <1>1, <3>3, <3>4 DEF Shape
    <3>6. q.polyMode # "mono" /\ ~Pooled(q)
      BY <1>8, <2>3, <3>4 DEF Pooled
    <3> QED BY <3>3, <3>5, <3>6 DEF Kept, VoicesOK
  <2> QED BY <2>2, <2>3
<1> QED
  BY <1>6, <1>7, <1>8

-----------------------------------------------------------------------------
(* Silence and (re)initialisation.                                         *)

\* With the allocator empty and every voice silent they agree.
LEMMA EmptiedFacts ==
  ASSUME NEW q, Shape(q), \A v \in Voices(q) : q.sound[v] = Silent,
         q.polyMode = "mono" => q.mono = Mono!EmptyStack,
         Pooled(q) => Cleared(q.poly, SizeFor(q.polyMode, q.voices))
  PROVE  VoicesOK(q)
<1>1. q.polyMode = "mono" => MonoFollows(q)
  <2> SUFFICES ASSUME q.polyMode = "mono" PROVE MonoFollows(q)
    OBVIOUS
  <2>1. MP!StackOK(q.mono) /\ Mono!Size(q.mono) = 0
    BY MP!EmptyFacts, SameStack
  <2>2. \A v : Expected(q, v) = Silent
    BY <2>1 DEF Expected
  <2> QED BY <2>1, <2>2 DEF MonoFollows
<1>2. Pooled(q) => PoolFollows(q)
  <2> SUFFICES ASSUME Pooled(q) PROVE PoolFollows(q)
    OBVIOUS
  <2>1. /\ PoolOK(q.poly) /\ q.poly.size = SizeFor(q.polyMode, q.voices)
        /\ \A v \in Entries(q.poly) : q.poly.pool[v] = Poly!Inactive(0)
    BY DEF Cleared, Entries
  <2>2. ASSUME NEW v \in Voices(q)
        PROVE  Expected(q, v) = Silent
    <3>1. EntryOf(q, v) \in Entries(q.poly)
      <4>1. CASE q.polyMode = "poly"
        BY <2>1, <4>1 DEF SizeFor, Shape, Entries, Voices, EntryOf
      <4>2. CASE q.polyMode = "chain"
        BY <2>1, <4>2 DEF SizeFor, Shape, Entries, Voices, EntryOf
      <4>3. CASE q.polyMode = "unison_2x"
        BY <2>1, <4>3 DEF SizeFor, Shape, Entries, Voices, EntryOf
      <4> QED BY <4>1, <4>2, <4>3 DEF Pooled
    <3>2. q.poly.pool[EntryOf(q, v)].active = FALSE
      BY <2>1, <3>1 DEF Poly!Inactive
    <3> QED BY <3>2 DEF Expected, Pooled
  <2>3. ASSUME NEW v \in Voices(q), Borrowed(q, v)
        PROVE  FollowsEither(q)
    BY <2>3 DEF Borrowed, FollowsEither
  <2> QED BY <2>1, <2>2, <2>3 DEF PoolFollows
<1> QED
  BY <1>1, <1>2 DEF VoicesOK

\* The settings and the sizes, which silence does not touch.
Settings(p) == <<p.voices, p.polyMode, p.allocMode, p.arpMode, p.direction, p.octaves, p.scale>>

LEMMA SettingsFacts ==
  ASSUME NEW p, NEW q, Settings(q) = Settings(p)
  PROVE  /\ q.voices = p.voices /\ q.polyMode = p.polyMode /\ q.allocMode = p.allocMode
         /\ q.scale = p.scale /\ q.arpMode = p.arpMode /\ q.direction = p.direction
BY DEF Settings

\* The all sound off message.
LEMMA AllSoundOffFacts ==
  ASSUME NEW p, Shape(p), NEW q, q = AfterAllSoundOff(p)
  PROVE  /\ Shape(q) /\ Settings(q) = Settings(p) /\ q.keys = Keys!EmptyStack
         /\ \A v \in Voices(q) : q.sound[v] = Silent
         /\ VoicesOK(p) => VoicesOK(q)
<1> DEFINE r == IF p.polyMode = "mono" THEN [p EXCEPT !.mono = Mono!EmptyStack]
                ELSE [p EXCEPT !.poly = Poly!AfterClear(p.poly)]
           s == [r EXCEPT !.keys = Keys!EmptyStack]
<1>1. /\ DOMAIN s = Fields /\ Settings(s) = Settings(p) /\ Voices(s) = Voices(p)
      /\ s.keys = Keys!EmptyStack
      /\ p.polyMode = "mono" => s.mono = Mono!EmptyStack
      /\ p.polyMode # "mono" => s.poly = Poly!AfterClear(p.poly)
  BY DEF Shape, Fields, Settings, Voices
<1>2. q = Triggered(s, Voices(p), Silent)
  BY DEF AfterAllSoundOff, Released
<1> HIDE DEF r, s
<1>3. /\ DOMAIN q = Fields /\ Rest(q) = Rest(s)
      /\ q.sound = [v \in Voices(s) |-> IF v \in Voices(p) THEN Silent ELSE s.sound[v]]
      /\ q.mono = s.mono /\ q.poly = s.poly /\ q.midi = s.midi /\ q.chain = s.chain
  BY <1>1, <1>2, TriggeredFacts
<1>4. Settings(q) = Settings(p) /\ q.keys = Keys!EmptyStack
  BY <1>1, <1>3 DEF Rest, Settings
<1>5. q.voices = p.voices /\ q.polyMode = p.polyMode /\ q.scale = p.scale
  BY <1>4, SettingsFacts
<1>6. Shape(q) /\ \A v \in Voices(q) : q.sound[v] = Silent
  BY <1>1, <1>3, <1>5 DEF Shape, Voices
<1>7. ASSUME VoicesOK(p), Pooled(q)
      PROVE  Cleared(q.poly, SizeFor(q.polyMode, q.voices))
  <2>1. PoolOK(p.poly) /\ p.poly.size = SizeFor(p.polyMode, p.voices) /\ p.polyMode # "mono"
    BY <1>5, <1>7 DEF VoicesOK, PoolFollows, Pooled
  <2> QED BY <1>1, <1>3, <1>5, <2>1, ClearFacts
<1>8. q.polyMode = "mono" => q.mono = Mono!EmptyStack
  BY <1>1, <1>3, <1>5
<1> QED
  BY <1>4, <1>6, <1>7, <1>8, EmptiedFacts

\* The all notes off message.
LEMMA AllNotesOffFacts ==
  ASSUME NEW p, VoicesOK(p), NEW q, q = AfterAllNotesOff(p)
  PROVE  /\ VoicesOK(q) /\ Settings(q) = Settings(p)
         /\ q.keys = p.keys \/ q.keys = Keys!EmptyStack
<1> DEFINE r == IF p.polyMode = "mono" THEN [p EXCEPT !.mono = Mono!EmptyStack]
                ELSE [p EXCEPT !.poly = Poly!AfterClearNotes(p.poly)]
           s == [r EXCEPT !.keys = Keys!EmptyStack]
           t == Triggered(s, Voices(p), Silent)
           m == IF p.direction = "chord" THEN t.midi ELSE t.midi \ {p.generated}
           u == [t EXCEPT !.midi = m, !.generated = None]
<1>0. Shape(p)
  BY DEF VoicesOK
<1>1. /\ DOMAIN s = Fields /\ Settings(s) = Settings(p) /\ Voices(s) = Voices(p)
      /\ s.keys = Keys!EmptyStack
      /\ p.polyMode = "mono" => s.mono = Mono!EmptyStack
      /\ p.polyMode # "mono" => s.poly = Poly!AfterClearNotes(p.poly)
  BY <1>0 DEF Shape, Fields, Settings, Voices
<1>3. /\ DOMAIN t = Fields /\ Rest(t) = Rest(s)
      /\ t.sound = [v \in Voices(s) |-> IF v \in Voices(p) THEN Silent ELSE s.sound[v]]
      /\ t.mono = s.mono /\ t.poly = s.poly /\ t.midi = s.midi /\ t.chain = s.chain
  <2> HIDE DEF s
  <2> QED BY <1>1, TriggeredFacts
<1>2. q = IF p.pedal THEN p ELSE u
  <2>1. t = Released(s, Voices(p))
    BY DEF Released
  <2> HIDE DEF t
  <2>2. u = [t EXCEPT !.midi = IF p.direction = "chord" THEN @ ELSE @ \ {p.generated},
                      !.generated = None]
    BY <1>3 DEF Fields
  <2> QED BY <2>1, <2>2 DEF AfterAllNotesOff
<1>4. CASE p.pedal
  BY <1>2, <1>4
<1>5. CASE ~p.pedal
  <2> HIDE DEF r, s, t
  <2>1. Settings(t) = Settings(p) /\ t.keys = Keys!EmptyStack
    BY <1>1, <1>3 DEF Rest, Settings
  <2>2. /\ DOMAIN u = Fields /\ Settings(u) = Settings(t)
        /\ u.sound = t.sound /\ u.mono = t.mono /\ u.poly = t.poly /\ u.keys = t.keys
    BY <1>3 DEF Fields, Settings
  <2> HIDE DEF u
  <2>3. u.voices = p.voices /\ u.polyMode = p.polyMode /\ u.scale = p.scale
    <3>1. Settings(u) = Settings(p)
      BY <2>1, <2>2
    <3> QED BY <3>1, SettingsFacts
  <2>4. Shape(u) /\ \A v \in Voices(u) : u.sound[v] = Silent
    BY <1>0, <1>1, <1>3, <2>2, <2>3 DEF Shape, Voices
  <2>5. ASSUME Pooled(u)
        PROVE  Cleared(u.poly, SizeFor(u.polyMode, u.voices))
    <3>1. PoolOK(p.poly) /\ p.poly.size = SizeFor(p.polyMode, p.voices) /\ p.polyMode # "mono"
      BY <2>3, <2>5 DEF VoicesOK, PoolFollows, Pooled
    <3>2. u.poly = Poly!AfterClearNotes(p.poly)
      BY <1>1, <1>3, <2>2, <3>1
    <3>3. Cleared(Poly!AfterClearNotes(p.poly), p.poly.size)
      BY <3>1, ClearFacts
    <3> QED BY <2>3, <3>1, <3>2, <3>3
  <2>6. u.polyMode = "mono" => u.mono = Mono!EmptyStack
    BY <1>1, <1>3, <2>2, <2>3
  <2>7. VoicesOK(u)
    BY <2>4, <2>5, <2>6, EmptiedFacts
  <2> QED BY <1>2, <1>5, <2>1, <2>2, <2>7
<1> QED
  BY <1>4, <1>5

\* What holds between two calls.
PartOK(p) == VoicesOK(p) /\ MK!StackOK(p.keys) /\ p.allocMode = p.polyMode

\* Fresh allocators agree with silent voices.
LEMMA WithAllocatorsFacts ==
  ASSUME NEW p, Shape(p), MK!StackOK(p.keys), \A v \in Voices(p) : p.sound[v] = Silent,
         NEW q, q = WithAllocators(p)
  PROVE  PartOK(q)
<1>1. /\ DOMAIN q = Fields /\ q.voices = p.voices /\ q.polyMode = p.polyMode
      /\ q.scale = p.scale /\ q.sound = p.sound /\ q.allocMode = p.polyMode
      /\ q.mono = Mono!EmptyStack /\ q.keys = p.keys
      /\ q.poly = IF p.polyMode = "mono" THEN Poly!Allocator(0, FALSE)
                  ELSE Poly!Allocator(SizeFor(p.polyMode, p.voices), p.polyMode = "cyclic")
  BY DEF WithAllocators, Shape, Fields
<1>2. Shape(q) /\ \A v \in Voices(q) : q.sound[v] = Silent
  BY <1>1 DEF Shape, Voices
<1>3. ASSUME Pooled(q)
      PROVE  Cleared(q.poly, SizeFor(q.polyMode, q.voices))
  <2>1. q.poly = Poly!Allocator(SizeFor(q.polyMode, q.voices), FALSE)
    BY <1>1, <1>3 DEF Pooled
  <2>2. SizeFor(q.polyMode, q.voices) \in 0..12
    BY <1>2 DEF SizeFor, Shape
  <2> QED BY <2>1, <2>2, ClearFacts
<1> QED
  BY <1>1, <1>2, <1>3, EmptiedFacts DEF PartOK

\* Settings and keys may change under voices that stay as they are.
LEMMA SamePart ==
  ASSUME NEW p, PartOK(p), NEW q, DOMAIN q = Fields, MK!StackOK(q.keys),
         q.voices = p.voices, q.polyMode = p.polyMode, q.allocMode = p.allocMode,
         q.scale \in SUBSET (0..127),
         q.mono = p.mono, q.poly = p.poly, q.sound = p.sound
  PROVE  PartOK(q)
BY SameVoices DEF PartOK

\* Notes on and off keep all of it.
LEMMA InternalKeeps ==
  ASSUME NEW p, PartOK(p), NEW note
  PROVE  PartOK(InternalNoteOn(p, note)) /\ PartOK(InternalNoteOff(p, note))
<1>1. ASSUME NEW q, Kept(p, q)
      PROVE  PartOK(q)
  <2>1. q.keys = p.keys /\ q.allocMode = p.allocMode /\ q.polyMode = p.polyMode
    BY <1>1, RestFacts DEF Kept
  <2> QED BY <1>1, <2>1 DEF Kept, PartOK
<1>2. Kept(p, InternalNoteOn(p, note)) /\ Kept(p, InternalNoteOff(p, note))
  BY InternalNoteOnKeeps, InternalNoteOffKeeps DEF PartOK
<1> QED
  BY <1>1, <1>2

\* The fields that the handlers write directly.
LEMMA FieldFacts ==
  ASSUME NEW p, PartOK(p), NEW x
  PROVE  /\ PartOK([p EXCEPT !.pedal = x]) /\ PartOK([p EXCEPT !.generated = x])
         /\ PartOK([p EXCEPT !.arp = x]) /\ PartOK([p EXCEPT !.arpMode = x])
         /\ PartOK([p EXCEPT !.direction = x]) /\ PartOK([p EXCEPT !.octaves = x])
         /\ PartOK([p EXCEPT !.chain = x])
         /\ x \in SUBSET (0..127) => PartOK([p EXCEPT !.scale = x])
         /\ MK!StackOK(x) => PartOK([p EXCEPT !.keys = x])
<1>0. DOMAIN p = Fields /\ p.scale \in SUBSET (0..127) /\ MK!StackOK(p.keys)
  BY DEF PartOK, VoicesOK, Shape
<1>1. PartOK([p EXCEPT !.pedal = x])
  BY <1>0, SamePart DEF Fields
<1>2. PartOK([p EXCEPT !.generated = x])
  BY <1>0, SamePart DEF Fields
<1>3. PartOK([p EXCEPT !.arp = x])
  BY <1>0, SamePart DEF Fields
<1>4. PartOK([p EXCEPT !.arpMode = x])
  BY <1>0, SamePart DEF Fields
<1>5. PartOK([p EXCEPT !.direction = x])
  BY <1>0, SamePart DEF Fields
<1>6. PartOK([p EXCEPT !.octaves = x])
  BY <1>0, SamePart DEF Fields
<1>7. PartOK([p EXCEPT !.chain = x])
  BY <1>0, SamePart DEF Fields
<1>8. x \in SUBSET (0..127) => PartOK([p EXCEPT !.scale = x])
  BY <1>0, SamePart DEF Fields
<1>9. MK!StackOK(x) => PartOK([p EXCEPT !.keys = x])
  BY <1>0, SamePart DEF Fields
<1> QED
  BY <1>1, <1>2, <1>3, <1>4, <1>5, <1>6, <1>7, <1>8, <1>9

\* A key that is pressed, released or sustained leaves a stack of keys.
LEMMA KeyFacts ==
  ASSUME NEW p, PartOK(p), NEW note
  PROVE  /\ note \in p.scale => MK!StackOK(Keys!AfterNoteOn(p.keys, note, 1))
         /\ MK!StackOK(Keys!AfterNoteOff(p.keys, note))
         /\ MK!StackOK(Keys!AfterFlag(p.keys, note))
         /\ MK!StackOK(Keys!EmptyStack)
         /\ Keys!Size(p.keys) \in Nat
<1>1. KeyCapacity \in Nat \ {0} /\ KeyCapacity \in Nat /\ MK!StackOK(p.keys) /\ 1 \in {1}
  BY CapacityAssumption DEF PartOK
<1>2. ASSUME note \in p.scale
      PROVE  MK!StackOK(MK!AfterNoteOn(p.keys, note, 1))
  <2>1. note \in Int /\ note # MK!FreeSlot
    BY <1>2 DEF PartOK, VoicesOK, Shape, MK!FreeSlot
  <2> QED BY <1>1, <2>1, MK!NoteOnFacts
<1>3. MK!StackOK(MK!AfterNoteOff(p.keys, note))
  BY <1>1, MK!NoteOffFacts
<1>4. MK!StackOK(MK!AfterFlag(p.keys, note))
  BY <1>1, MK!FlagFacts
<1>5. MK!StackOK(MK!EmptyStack)
  BY MK!EmptyFacts
<1>6. MK!Size(p.keys) \in Nat
  BY <1>1, MK!ListingFacts, MK!SameLength
<1> QED
  BY <1>2, <1>3, <1>4, <1>5, <1>6, SameKeys

-----------------------------------------------------------------------------
(* The handlers.                                                           *)

LEMMA AllNotesOffKeeps ==
  ASSUME NEW p, PartOK(p)
  PROVE  PartOK(AfterAllNotesOff(p)) /\ PartOK(AfterAllSoundOff(p))
<1>1. MK!StackOK(Keys!EmptyStack) /\ MK!StackOK(p.keys) /\ Shape(p)
  BY KeyFacts DEF PartOK, VoicesOK
<1>2. ASSUME NEW q, q = AfterAllNotesOff(p)
      PROVE  PartOK(q)
  <2>1. /\ VoicesOK(q) /\ Settings(q) = Settings(p)
        /\ q.keys = p.keys \/ q.keys = Keys!EmptyStack
    BY <1>2, AllNotesOffFacts DEF PartOK
  <2>2. q.allocMode = p.allocMode /\ q.polyMode = p.polyMode
    BY <2>1, SettingsFacts
  <2> QED BY <1>1, <2>1, <2>2 DEF PartOK
<1>3. ASSUME NEW q, q = AfterAllSoundOff(p)
      PROVE  PartOK(q)
  <2>1. VoicesOK(q) /\ Settings(q) = Settings(p) /\ q.keys = Keys!EmptyStack
    BY <1>1, <1>3, AllSoundOffFacts DEF PartOK
  <2>2. q.allocMode = p.allocMode /\ q.polyMode = p.polyMode
    BY <2>1, SettingsFacts
  <2> QED BY <1>1, <2>1, <2>2 DEF PartOK
<1> QED
  BY <1>2, <1>3

LEMMA NoteOnKeeps ==
  ASSUME NEW p, PartOK(p), NEW note
  PROVE  PartOK(AfterNoteOn(p, note))
<1> DEFINE q == [p EXCEPT !.keys = Keys!AfterNoteOn(p.keys, note, 1)]
<1>1. note \in p.scale => PartOK(q)
  BY KeyFacts, FieldFacts
<1>2. PartOK(q) => PartOK(InternalNoteOn(q, note))
  BY InternalKeeps
<1>3. \/ AfterNoteOn(p, note) = p
      \/ note \in p.scale /\ AfterNoteOn(p, note) = InternalNoteOn(q, note)
      \/ note \in p.scale /\ AfterNoteOn(p, note) = q
  BY DEF AfterNoteOn
<1> QED
  BY <1>1, <1>2, <1>3

LEMMA NoteOffKeeps ==
  ASSUME NEW p, PartOK(p), NEW note
  PROVE  PartOK(AfterNoteOff(p, note))
<1> DEFINE q == [p EXCEPT !.keys = Keys!AfterNoteOff(p.keys, note)]
           r == [p EXCEPT !.keys = Keys!AfterFlag(p.keys, note)]
<1>1. PartOK(q) /\ PartOK(r)
  BY KeyFacts, FieldFacts
<1>2. PartOK(InternalNoteOff(q, note)) /\ PartOK(AfterAllNotesOff(q))
  <2> HIDE DEF q
  <2> QED BY <1>1, InternalKeeps, AllNotesOffKeeps
<1>3. \/ AfterNoteOff(p, note) = p
      \/ AfterNoteOff(p, note) = r
      \/ AfterNoteOff(p, note) = InternalNoteOff(q, note)
      \/ AfterNoteOff(p, note) = AfterAllNotesOff(q)
      \/ AfterNoteOff(p, note) = q
  BY DEF AfterNoteOff
<1> QED
  BY <1>1, <1>2, <1>3

-----------------------------------------------------------------------------
(* The loops.                                                              *)

LoopFunction(f, loop, p, n) ==
    f = [i \in 0..n |-> IF i = 0 THEN p ELSE LoopStep(loop, f[i - 1], i)]

\* Each loop is defined: one more step extends the function.
LEMMA LoopDefined ==
  ASSUME NEW loop, NEW p, NEW n \in Nat
  PROVE  \E f : LoopFunction(f, loop, p, n)
<1> DEFINE D == {m \in Nat : ~ \E f : LoopFunction(f, loop, p, m)}
<1>1. ASSUME D # {}
      PROVE  FALSE
  <2>1. PICK m \in D : \A x \in D : m <= x
    <3>1. D \in SUBSET Nat
      OBVIOUS
    <3> HIDE DEF D
    <3> QED BY <1>1, <3>1, MinOfNaturals
  <2>2. CASE m = 0
    <3> DEFINE g == [i \in 0..m |-> p]
    <3>1. g = [i \in 0..m |-> IF i = 0 THEN p ELSE LoopStep(loop, g[i - 1], i)]
      BY <2>2
    <3>2. LoopFunction(g, loop, p, m)
      BY <3>1 DEF LoopFunction
    <3> QED BY <3>2
  <2>3. CASE m # 0
    <3>1. m - 1 \in Nat /\ m - 1 \notin D /\ m \in Nat
      BY <2>1, <2>3
    <3>2. PICK f : LoopFunction(f, loop, p, m - 1)
      BY <3>1
    <3> DEFINE g == [i \in 0..m |-> IF i = m THEN LoopStep(loop, f[m - 1], m) ELSE f[i]]
               h == [i \in 0..m |-> IF i = 0 THEN p ELSE LoopStep(loop, g[i - 1], i)]
    <3>3. \A i \in 0..(m - 1) : f[i] = IF i = 0 THEN p ELSE LoopStep(loop, f[i - 1], i)
      BY <3>2 DEF LoopFunction
    <3>4. ASSUME NEW i \in 0..m
          PROVE  g[i] = IF i = 0 THEN p ELSE LoopStep(loop, g[i - 1], i)
      <4>1. i # 0 => i - 1 \in 0..m /\ i - 1 # m /\ g[i - 1] = f[i - 1]
        BY <3>1
      <4>2. CASE i = m
        BY <2>3, <4>1, <4>2
      <4>3. CASE i # m
        <5>1. i \in 0..(m - 1)
          BY <3>1, <4>3
        <5> QED BY <3>3, <4>1, <4>3, <5>1
      <4> QED BY <4>2, <4>3
    <3>5. g = h
      <4> HIDE DEF g
      <4>1. \A i \in 0..m : g[i] = h[i]
        BY <3>4
      <4>2. DOMAIN g = 0..m /\ g = [i \in 0..m |-> g[i]]
        BY DEF g
      <4> QED BY <4>1, <4>2
    <3>6. LoopFunction(g, loop, p, m)
      BY <3>5 DEF LoopFunction
    <3> QED BY <3>6
  <2> QED BY <2>2, <2>3
<1> QED
  BY <1>1

\* What every step keeps, the loop keeps.
LEMMA LoopKeeps ==
  ASSUME NEW loop, NEW p, PartOK(p), NEW n \in Nat
  PROVE  PartOK(AfterLoop(loop, p, n))
<1> DEFINE f == CHOOSE g : LoopFunction(g, loop, p, n)
<1>1. LoopFunction(f, loop, p, n)
  BY LoopDefined
<1>2. AfterLoop(loop, p, n) = f[n]
  BY DEF AfterLoop, LoopFunction
<1> HIDE DEF f
<1>3. \A i \in 0..n : f[i] = IF i = 0 THEN p ELSE LoopStep(loop, f[i - 1], i)
  BY <1>1 DEF LoopFunction
<1>4. ASSUME NEW q, PartOK(q), NEW i
      PROVE  PartOK(LoopStep(loop, q, i))
  BY <1>4, NoteOffKeeps, InternalKeeps DEF LoopStep
<1> DEFINE D == {m \in 0..n : ~PartOK(f[m])}
<1>5. ASSUME D # {}
      PROVE  FALSE
  <2>1. PICK m \in D : \A x \in D : m <= x
    <3>1. D \in SUBSET Nat
      OBVIOUS
    <3> HIDE DEF D
    <3> QED BY <1>5, <3>1, MinOfNaturals
  <2>2. m # 0
    BY <1>3
  <2>3. m \in 0..n /\ m - 1 \in 0..n /\ m - 1 \notin D
    BY <2>1, <2>2
  <2>4. PartOK(f[m - 1])
    BY <2>3
  <2>5. f[m] = LoopStep(loop, f[m - 1], m)
    BY <1>3, <2>2, <2>3
  <2>6. PartOK(f[m])
    BY <1>4, <2>4, <2>5
  <2> QED BY <2>6
<1>6. n \in 0..n /\ n \notin D
  BY <1>5
<1> QED
  BY <1>2, <1>6

-----------------------------------------------------------------------------
(* Clock, start and stop.                                                  *)

LEMMA SequencerKeeps ==
  ASSUME NEW p, PartOK(p), NEW step
  PROVE  PartOK(AfterSequencer(p, step))
<1> DEFINE note == Clip(step.note + Keys!MostRecentNote(p.keys) - 60)
           killed == InternalNoteOff(p, p.generated)
           fresh == InternalNoteOn(killed, note)
           legato == InternalNoteOff(InternalNoteOn(p, note), p.generated)
<1>1. PartOK(killed)
  BY InternalKeeps
<1>2. PartOK(fresh)
  <2> HIDE DEF killed, note
  <2> QED BY <1>1, InternalKeeps
<1>3. PartOK(legato)
  <2> HIDE DEF note
  <2>1. PartOK(InternalNoteOn(p, note))
    BY InternalKeeps
  <2> QED BY <2>1, InternalKeeps
<1>4. \/ AfterSequencer(p, step) = p
      \/ AfterSequencer(p, step) = [killed EXCEPT !.generated = None]
      \/ AfterSequencer(p, step) = [fresh EXCEPT !.generated = note]
      \/ AfterSequencer(p, step) = [legato EXCEPT !.generated = note]
  BY DEF AfterSequencer
<1> HIDE DEF killed, fresh, legato, note
<1>5. /\ PartOK([killed EXCEPT !.generated = None]) /\ PartOK([fresh EXCEPT !.generated = note])
      /\ PartOK([legato EXCEPT !.generated = note])
  BY <1>1, <1>2, <1>3, FieldFacts
<1> QED
  BY <1>4, <1>5

LEMMA ArpeggiatorKeeps ==
  ASSUME NEW p, PartOK(p), NEW gate, NEW arp
  PROVE  PartOK(AfterArpeggiator(p, gate, arp))
<1> DEFINE off == InternalNoteOff(p, p.generated)
           killed == [off EXCEPT !.generated = None]
           moved == [killed EXCEPT !.arp = arp]
           on == InternalNoteOn(moved, ArpNote(moved))
           n == Keys!Size(p.keys)
           chord == AfterLoop("chord_on", p, n)
           mute == AfterLoop("chord_off", p, n)
<1>1. PartOK(killed) /\ PartOK(moved)
  <2>1. PartOK(off)
    BY InternalKeeps
  <2> HIDE DEF off
  <2>2. PartOK(killed)
    BY <2>1, FieldFacts
  <2> HIDE DEF killed
  <2> QED BY <2>2, FieldFacts
<1>2. PartOK(on)
  <2> HIDE DEF moved
  <2> QED BY <1>1, InternalKeeps
<1>3. PartOK(chord) /\ PartOK(mute)
  <2>1. n \in Nat
    BY KeyFacts
  <2> HIDE DEF n
  <2> QED BY <2>1, LoopKeeps
<1>4. \/ AfterArpeggiator(p, gate, arp) = p
      \/ AfterArpeggiator(p, gate, arp) = [on EXCEPT !.generated = ArpNote(moved)]
      \/ AfterArpeggiator(p, gate, arp) = [chord EXCEPT !.generated = 60]
      \/ AfterArpeggiator(p, gate, arp) = killed
      \/ AfterArpeggiator(p, gate, arp) = [mute EXCEPT !.generated = None]
  BY DEF AfterArpeggiator
<1> HIDE DEF killed, moved, on, chord, mute
<1>5. PartOK([on EXCEPT !.generated = ArpNote(moved)])
  BY <1>2, FieldFacts
<1>6. PartOK([chord EXCEPT !.generated = 60]) /\ PartOK([mute EXCEPT !.generated = None])
  BY <1>3, FieldFacts
<1> QED
  BY <1>1, <1>4, <1>5, <1>6

LEMMA StartStopKeep ==
  ASSUME NEW p, PartOK(p)
  PROVE  PartOK(AfterStart(p)) /\ PartOK(AfterStop(p)) /\ PartOK(ChainSilenced(p))
<1>1. PartOK(AfterStart(p))
  <2> DEFINE q == [p EXCEPT !.generated = None]
             r == [q EXCEPT !.arp = RestartedArp(p)]
  <2>1. PartOK(q)
    BY FieldFacts
  <2>2. AfterStart(p) = r
    BY DEF AfterStart, PartOK, VoicesOK, Shape, Fields
  <2> HIDE DEF q
  <2>3. PartOK(r)
    BY <2>1, FieldFacts
  <2> QED BY <2>2, <2>3
<1>2. PartOK(AfterStop(p))
  <2> DEFINE q == [p EXCEPT !.pedal = FALSE]
  <2>1. PartOK(q)
    BY FieldFacts
  <2> HIDE DEF q
  <2>2. PartOK(AfterAllNotesOff(q))
    BY <2>1, AllNotesOffKeeps
  <2> QED BY <2>2 DEF AfterStop, q
<1>3. PartOK(ChainSilenced(p))
  BY FieldFacts DEF ChainSilenced
<1> QED
  BY <1>1, <1>2, <1>3

-----------------------------------------------------------------------------
(* Settings.                                                               *)

\* New allocators for a part that has been silenced.
LEMMA SilencedFacts ==
  ASSUME NEW p, Shape(p)
  PROVE  PartOK(WithAllocators(AfterAllSoundOff(p)))
<1>1. PICK q : q = AfterAllSoundOff(p)
  OBVIOUS
<1>2. /\ Shape(q) /\ q.keys = Keys!EmptyStack
      /\ \A v \in Voices(q) : q.sound[v] = Silent
  BY <1>1, AllSoundOffFacts
<1>3. MK!StackOK(q.keys)
  BY <1>2, MK!EmptyFacts, SameKeys
<1> QED
  BY <1>1, <1>2, <1>3, WithAllocatorsFacts

LEMMA PolyModeKeeps ==
  ASSUME NEW p, PartOK(p), NEW mode \in PolyModes
  PROVE  PartOK(AfterPolyMode(p, mode))
<1> DEFINE q == [p EXCEPT !.polyMode = mode]
<1>1. Shape(q)
  BY PolyModesAssumption DEF PartOK, VoicesOK, Shape, Fields, Modes
<1> HIDE DEF q
<1>2. PartOK(WithAllocators(AfterAllSoundOff(q)))
  BY <1>1, SilencedFacts
<1> QED
  BY <1>2 DEF AfterPolyMode, q

LEMMA LoadKeeps ==
  ASSUME NEW p, PartOK(p), NEW mode \in PolyModes, NEW arpMode, NEW d, NEW octs,
         NEW scale \in Scales
  PROVE  PartOK(AfterTouch([p EXCEPT !.polyMode = mode, !.arpMode = arpMode,
                                     !.direction = d, !.octaves = octs, !.scale = scale]))
<1> DEFINE q == [p EXCEPT !.polyMode = mode, !.arpMode = arpMode,
                          !.direction = d, !.octaves = octs, !.scale = scale]
<1>0. DOMAIN p = Fields /\ scale \in SUBSET (0..127)
  BY NotesAssumption DEF PartOK, VoicesOK, Shape
<1>1. /\ DOMAIN q = Fields /\ q.polyMode = mode /\ q.voices = p.voices /\ q.scale = scale
      /\ q.allocMode = p.allocMode /\ q.keys = p.keys
      /\ q.mono = p.mono /\ q.poly = p.poly /\ q.sound = p.sound
  BY <1>0 DEF Fields
<1> HIDE DEF q
<1>2. Shape(q)
  BY <1>0, <1>1, PolyModesAssumption DEF PartOK, VoicesOK, Shape, Modes
<1>3. q.polyMode = q.allocMode => PartOK(q)
  <2> SUFFICES ASSUME q.polyMode = q.allocMode PROVE PartOK(q)
    OBVIOUS
  <2>1. q.polyMode = p.polyMode /\ MK!StackOK(q.keys)
    BY <1>1 DEF PartOK
  <2> QED BY <1>0, <1>1, <2>1, SamePart
<1>4. PartOK(WithAllocators(AfterAllSoundOff(q)))
  BY <1>2, SilencedFacts
<1>5. PartOK(AfterTouch(q))
  BY <1>3, <1>4 DEF AfterTouch
<1> QED
  BY <1>5 DEF q

LEMMA AssignKeeps ==
  ASSUME NEW p, PartOK(p), NEW n \in VoiceCounts
  PROVE  PartOK(AfterAssignVoices(p, n))
<1>1. PICK q : q = AfterAllSoundOff(p)
  OBVIOUS
<1>2. PartOK(q) /\ Shape(q)
  BY <1>1, AllNotesOffKeeps DEF PartOK, VoicesOK
<1> DEFINE r == [q EXCEPT !.voices = n, !.sound = [v \in 0..(n - 1) |-> Silent]]
<1>3. /\ DOMAIN r = Fields /\ r.voices = n /\ r.polyMode = q.polyMode /\ r.scale = q.scale
      /\ r.keys = q.keys /\ r.sound = [v \in 0..(n - 1) |-> Silent]
  BY <1>2 DEF Shape, Fields
<1>4. AfterAssignVoices(p, n) = WithAllocators(r)
  BY <1>1 DEF AfterAssignVoices
<1> HIDE DEF r
<1>5. Shape(r)
  BY <1>2, <1>3, VoiceCountsAssumption DEF Shape
<1>6. MK!StackOK(r.keys) /\ \A v \in Voices(r) : r.sound[v] = Silent
  BY <1>2, <1>3 DEF PartOK, Voices
<1> QED
  BY <1>4, <1>5, <1>6, WithAllocatorsFacts

LEMMA FreshFacts ==
  ASSUME NEW n \in VoiceCounts, NEW polyMode \in PolyModes, NEW arpMode, NEW direction,
         NEW octs, NEW scale \in Scales
  PROVE  PartOK(Fresh(n, polyMode, arpMode, direction, octs, scale))
<1> DEFINE r == [ voices |-> n, polyMode |-> polyMode, allocMode |-> polyMode,
                  arpMode |-> arpMode, direction |-> direction, octaves |-> octs,
                  scale |-> scale, pedal |-> FALSE, keys |-> Keys!EmptyStack,
                  mono |-> Keys!EmptyStack, poly |-> Poly!Allocator(0, FALSE),
                  generated |-> 0, arp |-> [dir |-> 0, step |-> 0, octave |-> 0],
                  sound |-> [v \in 0..(n - 1) |-> Silent], midi |-> {}, chain |-> {} ]
<1>1. /\ DOMAIN r = Fields /\ r.voices = n /\ r.polyMode = polyMode /\ r.scale = scale
      /\ r.keys = Keys!EmptyStack /\ r.sound = [v \in 0..(n - 1) |-> Silent]
  BY DEF Fields
<1>2. Fresh(n, polyMode, arpMode, direction, octs, scale) = WithAllocators(r)
  BY DEF Fresh
<1> HIDE DEF r
<1>3. Shape(r)
  BY <1>1, VoiceCountsAssumption, PolyModesAssumption, NotesAssumption DEF Shape, Modes
<1>4. MK!StackOK(r.keys) /\ \A v \in Voices(r) : r.sound[v] = Silent
  BY <1>1, MK!EmptyFacts, SameKeys DEF Voices
<1> QED
  BY <1>2, <1>3, <1>4, WithAllocatorsFacts

-----------------------------------------------------------------------------
(* The theorems.                                                           *)

PartInv == PartOK(part)

\* Inductive: the voices follow the allocator, which is the one of the mode.
LEMMA PartStaysOK == Spec => []PartInv
<1>1. Init => PartInv
  BY FreshFacts DEF Init, PartInv
<1>2. PartInv /\ [Next]_vars => PartInv'
  <2> SUFFICES ASSUME PartOK(part), [Next]_vars
               PROVE  PartOK(part')
    BY DEF PartInv
  <2>1. ASSUME NEW note \in Notes, KeyDown(note)
        PROVE  PartOK(part')
    BY <2>1, StartStopKeep, NoteOnKeeps DEF KeyDown
  <2>2. ASSUME NEW note \in Notes, KeyUp(note)
        PROVE  PartOK(part')
    BY <2>2, NoteOffKeeps DEF KeyUp
  <2>3. CASE PedalDown
    BY <2>3, FieldFacts DEF PedalDown
  <2>4. CASE PedalUp
    <3> DEFINE q == [part EXCEPT !.pedal = FALSE]
    <3>1. PartOK(q) /\ KeyCapacity \in Nat
      BY FieldFacts, CapacityAssumption
    <3> HIDE DEF q
    <3>2. PartOK(AfterLoop("pedal", q, KeyCapacity))
      BY <3>1, LoopKeeps
    <3> QED BY <2>4, <3>2 DEF PedalUp, AfterPedalUp, q
  <2>5. CASE AllNotesOff
    BY <2>5, AllNotesOffKeeps, StartStopKeep DEF AllNotesOff
  <2>6. CASE AllSoundOff
    BY <2>6, AllNotesOffKeeps, StartStopKeep DEF AllSoundOff
  <2>7. CASE ResetAllControllers
    BY <2>7, FieldFacts DEF ResetAllControllers
  <2>8. CASE Start
    BY <2>8, StartStopKeep DEF Start
  <2>9. CASE Stop
    BY <2>9, StartStopKeep DEF Stop
  <2>10. CASE IdleStop
    BY <2>10, StartStopKeep DEF IdleStop
  <2>11. CASE Clock
    <3>1. PICK gate \in BOOLEAN, step \in NoteSteps :
            \E arp \in ArpMoves(AfterSequencer(part, step), gate) :
               part' = AfterArpeggiator(AfterSequencer(part, step), gate, arp)
      BY <2>11 DEF Clock
    <3>2. PartOK(AfterSequencer(part, step))
      BY SequencerKeeps
    <3> QED BY <3>1, <3>2, ArpeggiatorKeeps
  <2>12. ASSUME NEW mode \in PolyModes, SetPolyMode(mode)
         PROVE  PartOK(part')
    BY <2>12, PolyModeKeeps DEF SetPolyMode
  <2>13. ASSUME NEW mode \in ArpModes, SetArpMode(mode)
         PROVE  PartOK(part')
    BY <2>13, FieldFacts DEF SetArpMode
  <2>14. ASSUME NEW d \in ArpDirections, SetDirection(d)
         PROVE  PartOK(part')
    <3> DEFINE q == [part EXCEPT !.direction = d]
    <3>1. PartOK(q)
      BY FieldFacts
    <3>2. part' = [q EXCEPT !.arp = RestartedArp(q)]
      BY <2>14 DEF SetDirection
    <3> HIDE DEF q
    <3> QED BY <3>1, <3>2, FieldFacts
  <2>15. ASSUME NEW octs \in 1..MaxOctaves, SetOctaves(octs)
         PROVE  PartOK(part')
    BY <2>15, FieldFacts DEF SetOctaves
  <2>16. ASSUME NEW scale \in Scales, SetScale(scale)
         PROVE  PartOK(part')
    <3>1. scale \in SUBSET (0..127)
      BY NotesAssumption
    <3> QED BY <2>16, <3>1, FieldFacts DEF SetScale
  <2>17. ASSUME NEW polyMode \in PolyModes, NEW arpMode \in ArpModes, NEW d \in ArpDirections,
                NEW octs \in 1..MaxOctaves, NEW scale \in Scales,
                LoadProgram(polyMode, arpMode, d, octs, scale)
         PROVE  PartOK(part')
    BY <2>17, LoadKeeps DEF LoadProgram
  <2>18. ASSUME NEW n \in VoiceCounts, AssignVoices(n)
         PROVE  PartOK(part')
    BY <2>18, AssignKeeps DEF AssignVoices
  <2>19. CASE UNCHANGED vars
    BY <2>19 DEF vars
  <2> QED
    BY <2>1, <2>2, <2>3, <2>4, <2>5, <2>6, <2>7, <2>8, <2>9, <2>10, <2>11, <2>12, <2>13,
       <2>14, <2>15, <2>16, <2>17, <2>18, <2>19 DEF Next
<1> QED
  BY <1>1, <1>2, PTL DEF Spec

\* VoicesFollowAllocator holds in every reachable state: the voicecards and
\* the allocator never disagree (part.cc, voice_allocator.cc, note_stack.h).
THEOREM VoicesFollow == Spec => []VoicesFollowAllocator
<1>1. PartInv => VoicesFollowAllocator
  <2> SUFFICES ASSUME PartOK(part), part.polyMode # "cyclic", NEW v \in Voices(part),
                      ~(part.polyMode = "unison_2x" /\ part.voices % 2 = 1 /\ v = 0)
               PROVE  part.sound[v] = Expected(part, v)
    BY DEF PartInv, VoicesFollowAllocator
  <2>1. part.polyMode = "mono" \/ Pooled(part)
    BY DEF PartOK, VoicesOK, Shape, Modes, Pooled
  <2>2. ~Borrowed(part, v)
    BY DEF Borrowed
  <2> QED BY <2>1, <2>2 DEF PartOK, VoicesOK, MonoFollows, PoolFollows
<1> QED
  BY <1>1, PartStaysOK, PTL

\* The entry on which a note is active is the one that Find returns.
LEMMA FindSeesActive ==
  ASSUME NEW a, PoolOK(a), NEW note, NEW e \in Entries(a), a.pool[e] = Poly!Active(note)
  PROVE  Poly!Find(a, note) = e
<1>1. PICK f : f = Poly!Find(a, note)
  OBVIOUS
<1>2. \/ f = None /\ \A v \in Entries(a) : a.pool[v].note # note
      \/ /\ f \in Entries(a) /\ f # None /\ a.pool[f].note = note
         /\ \A v \in Entries(a) : v < f => a.pool[v].note # note
  BY <1>1, FindFacts DEF PoolOK
<1>3. a.pool[e].note = note /\ a.pool[e].active = TRUE /\ Poly!Inactive(0).active = FALSE
  BY DEF Poly!Active, Poly!Inactive
<1>4. f \in Entries(a) /\ a.pool[f].note = note /\ ~(e < f)
  BY <1>2, <1>3
<1>5. ~(f < e)
  BY <1>3, <1>4 DEF PoolOK, Distinct
<1>6. e \in Int /\ f \in Int
  BY <1>4 DEF Entries
<1> QED
  BY <1>1, <1>4, <1>5, <1>6

\* AftertouchReachesVoice holds in every reachable state: a message goes to
\* each of the voices that sound the note (Part::Aftertouch).
THEOREM AftertouchReaches == Spec => []AftertouchReachesVoice
<1>1. PartInv => AftertouchReachesVoice
  <2> SUFFICES ASSUME PartOK(part), part.polyMode # "cyclic", NEW v \in Voices(part),
                      part.sound[v] \in Notes
               PROVE  v \in AftertouchVoices(part, part.sound[v])
    BY DEF PartInv, AftertouchReachesVoice
  <2> DEFINE a == part.poly
             note == part.sound[v]
  <2>1. Shape(part) /\ (part.polyMode = "mono" \/ Pooled(part))
    BY DEF PartOK, VoicesOK, Shape, Modes, Pooled
  <2>2. note # Silent
    BY NotesAssumption DEF Silent
  <2>3. CASE part.polyMode = "mono"
    BY <2>3 DEF AftertouchVoices
  <2>4. CASE Pooled(part)
    <3>1. /\ PoolOK(a) /\ a.size = SizeFor(part.polyMode, part.voices)
          /\ IF Borrowed(part, v) THEN FollowsEither(part)
             ELSE part.sound[v] = Expected(part, v)
          /\ part.polyMode # "mono"
      BY <2>4 DEF PartOK, VoicesOK, PoolFollows, Pooled
    <3>2. \A e \in Entries(a), w \in Voices(part) :
             /\ EntryOf(part, w) \in Entries(a)
             /\ ~Borrowed(part, w) => (w \in VoicesOfEntry(part, e) <=> EntryOf(part, w) = e)
             /\ Borrowed(part, w) =>
                   /\ w \in VoicesOfEntry(part, e) <=> e = 0 \/ e = a.size - 1
                   /\ 0 \in Entries(a) /\ a.size - 1 \in Entries(a)
      BY <2>1, <2>4, <3>1, EntryVoices
    <3>2a. 0 \in Entries(a)
      BY <2>1, <2>4, <3>1 DEF Pooled, Shape, SizeFor, Voices, Entries
    <3>3. \E e \in Entries(a) : a.pool[e] = Poly!Active(note) /\ v \in VoicesOfEntry(part, e)
      <4>1. CASE Borrowed(part, v)
        <5>1. v = 0 /\ FollowsEither(part)
          BY <3>1, <4>1 DEF Borrowed
        <5>2. /\ a.size - 1 \in Entries(a)
              /\ v \in VoicesOfEntry(part, 0) /\ v \in VoicesOfEntry(part, a.size - 1)
          BY <3>2, <3>2a, <4>1
        <5>3. a.pool[0] = Poly!Active(note) \/ a.pool[a.size - 1] = Poly!Active(note)
          BY <2>2, <5>1 DEF FollowsEither
        <5> QED BY <3>2a, <5>2, <5>3
      <4>2. CASE ~Borrowed(part, v)
        <5> DEFINE e == EntryOf(part, v)
        <5>1. e \in Entries(a) /\ v \in VoicesOfEntry(part, e)
          <6>1. EntryOf(part, v) \in Entries(a)
            BY <3>2, <3>2a
          <6> QED BY <3>2, <4>2, <6>1
        <5>2. a.pool[e].active /\ a.pool[e].note = note
          BY <2>2, <3>1, <4>2 DEF Expected
        <5>3. a.pool[e] \in [note : 0..127, active : BOOLEAN]
          BY <3>1, <5>1 DEF PoolOK, PoolType
        <5>4. a.pool[e] = Poly!Active(note)
          BY <5>2, <5>3 DEF Poly!Active
        <5> QED BY <5>1, <5>4
      <4> QED BY <4>1, <4>2
    <3>4. PICK e \in Entries(a) : a.pool[e] = Poly!Active(note) /\ v \in VoicesOfEntry(part, e)
      BY <3>3
    <3>5. Poly!Find(a, note) = e
      BY <3>1, <3>4, FindSeesActive
    <3>6. a.size \in Nat /\ e \in 0..(a.size - 1)
      BY <3>1 DEF PoolOK, PoolType, Entries
    <3>7. ~(e >= a.size) /\ e < a.size
      BY <3>6
    <3>8. CASE part.polyMode = "unison_2x"
      <4>1. v \in {2 * e, NextVoice(part, 2 * e)}
        BY <3>4, <3>7, <3>8 DEF VoicesOfEntry
      <4>2. AftertouchVoices(part, note) = {2 * e, NextVoice(part, 2 * e)}
        BY <3>5, <3>7, <3>8 DEF AftertouchVoices
      <4> QED BY <4>1, <4>2
    <3>9. CASE part.polyMode # "unison_2x"
      <4>1. v = e
        BY <2>4, <3>4, <3>9 DEF VoicesOfEntry
      <4>2. AftertouchVoices(part, note) = {e}
        BY <3>1, <3>5, <3>7, <3>9 DEF AftertouchVoices
      <4> QED BY <4>1, <4>2
    <3> QED BY <3>8, <3>9
  <2> QED BY <2>1, <2>3, <2>4
<1> QED
  BY <1>1, PartStaysOK, PTL

-----------------------------------------------------------------------------
(* What the allocators take to be playing.                                 *)

Tuned(p) == p.polyMode # "cyclic"

Playing(p) == IF p.polyMode = "mono" THEN MP!HeldNotes(p.mono) ELSE ActiveNotes(p.poly)

LEMMA TunedFacts ==
  ASSUME NEW p, VoicesOK(p), Tuned(p)
  PROVE  /\ p.polyMode = "mono" \/ Pooled(p)
         /\ p.polyMode = "mono" => MP!StackOK(p.mono)
         /\ p.polyMode # "mono" => PoolOK(p.poly)
BY DEF VoicesOK, Shape, Modes, Pooled, Tuned, MonoFollows, PoolFollows

\* The voices sound nothing else, and 255 is no note.
LEMMA SoundingPlays ==
  ASSUME NEW p, VoicesOK(p), Tuned(p)
  PROVE  Sounding(p) \subseteq Playing(p) /\ None \notin Playing(p)
<1>1. CASE p.polyMode = "mono"
  <2>1. MonoCapacity \in Nat /\ MP!StackOK(p.mono)
    BY <1>1, TunedFacts, CapacityAssumption
  <2>2. /\ MP!HeldNotes(p.mono) = {} => MP!Size(p.mono) = 0
        /\ p.mono.root # 0 => MP!MostRecentNote(p.mono) \in MP!HeldNotes(p.mono)
        /\ MP!FreeSlot \notin MP!HeldNotes(p.mono)
    BY <2>1, MP!TopIsHeld
  <2>3. \A v \in Voices(p) : p.sound[v] = IF Mono!Size(p.mono) = 0 THEN Silent
                                          ELSE Mono!MostRecentNote(p.mono)
    BY <1>1 DEF VoicesOK, MonoFollows, Expected
  <2>4. p.mono.root = 0 => Mono!MostRecentNote(p.mono) = Silent
    BY DEF Mono!MostRecentNote, Mono!FreeSlot, Silent
  <2>5. MP!MostRecentNote(p.mono) = Mono!MostRecentNote(p.mono)
    BY SameStack
  <2> QED BY <1>1, <2>2, <2>3, <2>4, <2>5 DEF Sounding, Playing, MP!FreeSlot, None
<1>2. CASE p.polyMode # "mono"
  <2>1. Pooled(p) /\ PoolType(p.poly) /\ p.poly.size = SizeFor(p.polyMode, p.voices) /\ Shape(p)
    BY <1>2, TunedFacts DEF VoicesOK, PoolFollows, PoolOK
  <2>2. ASSUME NEW e \in Entries(p.poly), p.poly.pool[e].active
        PROVE  p.poly.pool[e].note \in Playing(p)
    BY <1>2, <2>2 DEF Playing, ActiveNotes
  <2>3. None \notin Playing(p)
    BY <1>2, <2>1 DEF Playing, ActiveNotes, PoolType, None
  <2>4. ASSUME NEW v \in Voices(p), p.sound[v] # Silent
        PROVE  p.sound[v] \in Playing(p)
    <3>0. IF Borrowed(p, v) THEN FollowsEither(p) ELSE p.sound[v] = Expected(p, v)
      BY <2>1 DEF VoicesOK, PoolFollows
    <3>1. 0 \in Entries(p.poly)
      BY <2>1 DEF Pooled, Shape, SizeFor, Voices, Entries
    <3>2. /\ EntryOf(p, v) \in Entries(p.poly)
          /\ ~Borrowed(p, v) => (v \in VoicesOfEntry(p, 0) <=> EntryOf(p, v) = 0)
          /\ Borrowed(p, v) =>
                /\ v \in VoicesOfEntry(p, 0) <=> 0 = 0 \/ 0 = p.poly.size - 1
                /\ 0 \in Entries(p.poly) /\ p.poly.size - 1 \in Entries(p.poly)
      BY <2>1, <3>1, EntryVoices
    <3>3. CASE Borrowed(p, v)
      <4>1. \/ p.poly.pool[0] = Poly!Active(p.sound[v])
            \/ p.poly.pool[p.poly.size - 1] = Poly!Active(p.sound[v])
        BY <2>4, <3>0, <3>3 DEF Borrowed, FollowsEither
      <4>2. Poly!Active(p.sound[v]).active /\ Poly!Active(p.sound[v]).note = p.sound[v]
        BY DEF Poly!Active
      <4> QED BY <2>2, <3>2, <3>3, <4>1, <4>2
    <3>4. CASE ~Borrowed(p, v)
      <4>1. p.poly.pool[EntryOf(p, v)].active /\ p.poly.pool[EntryOf(p, v)].note = p.sound[v]
        BY <1>2, <2>4, <3>0, <3>4 DEF Expected
      <4> QED BY <2>2, <3>2, <4>1
    <3> QED BY <3>3, <3>4
  <2> QED BY <2>3, <2>4 DEF Sounding
<1> QED
  BY <1>1, <1>2

\* What the two calls do to the allocators and to MIDI out.
LEMMA OnAllocators ==
  ASSUME NEW p, DOMAIN p = Fields, NEW note, note \in p.scale, NEW q, q = InternalNoteOn(p, note)
  PROVE  /\ q.midi = p.midi \cup {note}
         /\ p.polyMode = "mono" => q.mono = Mono!AfterNoteOn(p.mono, note, 1)
         /\ p.polyMode # "mono" =>
               q.poly = IF Poly!FindActive(p.poly, note) # None THEN p.poly
                        ELSE Poly!AfterNoteOn(p.poly, note)
BY DEF InternalNoteOn, MonoNoteOn, PolyNoteOn, Triggered, Fields

LEMMA OffAllocators ==
  ASSUME NEW p, DOMAIN p = Fields, NEW note, note # None, NEW q, q = InternalNoteOff(p, note)
  PROVE  /\ q.midi = p.midi \ {note}
         /\ p.polyMode = "mono" => q.mono = Mono!AfterNoteOff(p.mono, note)
         /\ p.polyMode # "mono" => q.poly = Poly!AfterNoteOff(p.poly, note)
BY DEF InternalNoteOff, MonoNoteOff, PolyNoteOff, Released, Triggered, Fields

LEMMA OnPlays ==
  ASSUME NEW p, VoicesOK(p), Tuned(p), NEW note, NEW q, q = InternalNoteOn(p, note)
  PROVE  /\ Playing(q) \subseteq Playing(p) \cup {note}
         /\ q.midi \subseteq p.midi \cup {note}
         /\ None \notin p.midi => None \notin q.midi
<1>1. CASE note \notin p.scale
  BY <1>1 DEF InternalNoteOn
<1>2. CASE note \in p.scale
  <2>1. /\ q.midi = p.midi \cup {note}
        /\ p.polyMode = "mono" => q.mono = Mono!AfterNoteOn(p.mono, note, 1)
        /\ p.polyMode # "mono" =>
              q.poly = IF Poly!FindActive(p.poly, note) # None THEN p.poly
                       ELSE Poly!AfterNoteOn(p.poly, note)
    BY <1>2, OnAllocators DEF VoicesOK, Shape
  <2>2. q.polyMode = p.polyMode
    BY InternalNoteOnKeeps, RestFacts DEF Kept
  <2>3. note \in 0..127 /\ note # None
    BY <1>2 DEF VoicesOK, Shape, None
  <2>4. CASE p.polyMode = "mono"
    <3>1. /\ MonoCapacity \in Nat \ {0} /\ MP!StackOK(p.mono) /\ 1 \in {1}
          /\ note \in Int /\ note # MP!FreeSlot
      BY <2>3, <2>4, TunedFacts, CapacityAssumption DEF MP!FreeSlot
    <3>2. q.mono = MP!AfterNoteOn(p.mono, note, 1)
      BY <2>1, <2>4, SameStack
    <3>3. MP!HeldNotes(q.mono) \subseteq MP!HeldNotes(p.mono) \cup {note}
      BY <3>1, <3>2, MP!OnHolds
    <3> QED BY <2>1, <2>2, <2>3, <2>4, <3>3 DEF Playing
  <2>5. CASE p.polyMode # "mono"
    <3>1. PoolOK(p.poly) /\ PoolType(p.poly)
      BY <2>5, TunedFacts DEF PoolOK
    <3>2. ActiveNotes(q.poly) \subseteq ActiveNotes(p.poly) \cup {note}
      <4>1. CASE q.poly = p.poly
        BY <4>1
      <4>2. CASE q.poly # p.poly
        <5>1. q.poly = Poly!AfterNoteOn(p.poly, note) /\ p.poly.size # 0
          BY <2>1, <2>5, <4>2 DEF Poly!AfterNoteOn
        <5>2. /\ PoolOK(q.poly) /\ q.poly.size = p.poly.size
              /\ q.poly.pool = [p.poly.pool EXCEPT ![Poly!VoiceFor(p.poly, note)]
                                                   = Poly!Active(note)]
          BY <2>3, <3>1, <5>1, PoolNoteOnFacts
        <5>3. Poly!Active(note).note = note
          BY DEF Poly!Active
        <5>4. \A v \in Entries(p.poly) : \/ q.poly.pool[v] = p.poly.pool[v]
                                         \/ q.poly.pool[v] = Poly!Active(note)
          BY <3>1, <5>2 DEF PoolType
        <5>5. Entries(q.poly) = Entries(p.poly)
          BY <5>2 DEF Entries
        <5> QED BY <5>3, <5>4, <5>5 DEF ActiveNotes
      <4> QED BY <4>1, <4>2
    <3> QED BY <2>1, <2>2, <2>3, <2>5, <3>2 DEF Playing
  <2> QED BY <2>4, <2>5
<1> QED
  BY <1>1, <1>2

LEMMA OffPlays ==
  ASSUME NEW p, VoicesOK(p), Tuned(p), NEW note, note # None,
         NEW q, q = InternalNoteOff(p, note)
  PROVE  Playing(q) \subseteq Playing(p) \ {note} /\ q.midi = p.midi \ {note}
<1>1. /\ q.midi = p.midi \ {note}
      /\ p.polyMode = "mono" => q.mono = Mono!AfterNoteOff(p.mono, note)
      /\ p.polyMode # "mono" => q.poly = Poly!AfterNoteOff(p.poly, note)
  BY OffAllocators DEF VoicesOK, Shape
<1>2. q.polyMode = p.polyMode
  BY InternalNoteOffKeeps, RestFacts DEF Kept
<1>3. CASE p.polyMode = "mono"
  <2>1. MonoCapacity \in Nat /\ MP!StackOK(p.mono)
    BY <1>3, TunedFacts, CapacityAssumption
  <2>2. q.mono = MP!AfterNoteOff(p.mono, note)
    BY <1>1, <1>3, SameStack
  <2>3. MP!HeldNotes(q.mono) \subseteq MP!HeldNotes(p.mono) \ {note}
    BY <2>1, <2>2, MP!OffHolds
  <2> QED BY <1>1, <1>2, <1>3, <2>3 DEF Playing
<1>4. CASE p.polyMode # "mono"
  <2> DEFINE a == p.poly
  <2>1. PoolOK(a) /\ PoolType(a)
    BY <1>4, TunedFacts DEF PoolOK
  <2>2. PICK e : e = Poly!Find(a, note)
    OBVIOUS
  <2>3. \/ e = None /\ \A v \in Entries(a) : a.pool[v].note # note
        \/ /\ e \in Entries(a) /\ e # None /\ a.pool[e].note = note
           /\ \A v \in Entries(a) : v < e => a.pool[v].note # note
    BY <2>1, <2>2, FindFacts
  <2>4. /\ q.poly.size = a.size
        /\ q.poly.pool = IF e = None THEN a.pool ELSE [a.pool EXCEPT ![e] = Poly!Inactive(note)]
    BY <1>1, <1>4, <2>1, <2>2, PoolNoteOffFacts
  <2>5. Poly!Inactive(note).active = FALSE /\ Poly!Inactive(0).active = FALSE
    BY DEF Poly!Inactive
  <2>6. ASSUME NEW v \in Entries(a), q.poly.pool[v].active
        PROVE  a.pool[v].active /\ a.pool[v].note # note /\ q.poly.pool[v] = a.pool[v]
    <3>1. CASE e = None
      BY <2>3, <2>4, <2>6, <3>1
    <3>2. CASE e # None
      <4>1. e \in Entries(a) /\ a.pool[e].note = note
        BY <2>3, <3>2
      <4>2. v # e /\ q.poly.pool[v] = a.pool[v]
        BY <2>1, <2>4, <2>5, <2>6, <3>2, <4>1 DEF PoolType
      <4>3. v \in Int /\ e \in Int
        BY <4>1 DEF Entries
      <4>4. CASE v < e
        BY <2>3, <2>6, <3>2, <4>2, <4>4
      <4>5. CASE e < v
        <5>1. a.pool[v].note = note => a.pool[v] = Poly!Inactive(0)
          BY <2>1, <4>1, <4>5 DEF PoolOK, Distinct
        <5> QED BY <2>5, <2>6, <4>2, <5>1
      <4> QED BY <4>2, <4>3, <4>4, <4>5
    <3> QED BY <3>1, <3>2
  <2>7. Entries(q.poly) = Entries(a)
    BY <2>4 DEF Entries
  <2>8. ActiveNotes(q.poly) \subseteq ActiveNotes(a) \ {note}
    BY <2>6, <2>7 DEF ActiveNotes
  <2> QED BY <1>1, <1>2, <1>4, <2>8 DEF Playing
<1> QED
  BY <1>3, <1>4

-----------------------------------------------------------------------------
(* The generated note.                                                     *)

\* An arpeggio that is not a chord, or a sequence, on any keyboard, with no
\* restart while it plays and no cyclic allocation.
Generates ==
    /\ ArpModes \subseteq {"arpeggiator", "note"} /\ "chord" \notin ArpDirections
    /\ "cyclic" \notin PolyModes
    /\ ~Restarts

\* Inductive: a part plays the generated note at most, none without keys, and
\* none before the clock runs.
Tidy(p, idle) ==
    /\ PartOK(p) /\ Tuned(p) /\ p.arpMode # "step" /\ p.direction # "chord"
    /\ Playing(p) \cup p.midi \subseteq {p.generated}
    /\ None \notin p.midi
    /\ Keys!Size(p.keys) = 0 => Playing(p) = {}
    /\ idle => Playing(p) = {} /\ p.midi = {}

\* Tidy looks at the allocators, the outputs and the keys.
LEMMA SameTidy ==
  ASSUME NEW idle, NEW p, Tidy(p, idle), NEW q, PartOK(q),
         q.polyMode = p.polyMode, q.arpMode # "step", q.direction # "chord",
         q.mono = p.mono, q.poly = p.poly, q.midi = p.midi, q.generated = p.generated,
         Keys!Size(q.keys) = 0 => Keys!Size(p.keys) = 0
  PROVE  Tidy(q, idle)
<1>1. Playing(q) = Playing(p) /\ Tuned(q)
  BY DEF Playing, Tidy, Tuned
<1> QED
  BY <1>1 DEF Tidy

\* A part that has been silenced is tidy.
LEMMA QuietTidy ==
  ASSUME NEW q, PartOK(q), Tuned(q), q.arpMode # "step", q.direction # "chord",
         Playing(q) = {}, q.midi \subseteq {q.generated}, None \notin q.midi, NEW idle,
         idle => q.midi = {}
  PROVE  Tidy(q, idle)
BY DEF Tidy

LEMMA EmptyPlays ==
  ASSUME NEW q, q.polyMode = "mono" => q.mono = Mono!EmptyStack,
         q.polyMode # "mono" => \E n : Cleared(q.poly, n)
  PROVE  Playing(q) = {}
<1>1. CASE q.polyMode = "mono"
  <2>1. MP!StackOK(MP!EmptyStack) /\ MP!Lists(MP!EmptyStack, <<>>) /\ MP!Size(MP!EmptyStack) = 0
    BY MP!EmptyFacts
  <2>2. \A i \in MP!Slots : MP!NoteAt(MP!EmptyStack, i) = MP!FreeSlot
    BY DEF MP!EmptyStack, MP!NoteAt, MP!FreeEntry
  <2>3. MP!HeldNotes(MP!EmptyStack) = {}
    BY <2>2 DEF MP!HeldNotes, MP!Used
  <2> QED BY <1>1, <2>3, SameStack DEF Playing
<1>2. CASE q.polyMode # "mono"
  <2>1. PICK n : Cleared(q.poly, n)
    BY <1>2
  <2>2. \A v \in Entries(q.poly) : q.poly.pool[v].active = FALSE
    BY <2>1 DEF Cleared, Entries, Poly!Inactive
  <2> QED BY <1>2, <2>2 DEF Playing, ActiveNotes
<1> QED
  BY <1>1, <1>2

\* The settings that WithAllocators and silence keep.
LEMMA AllSoundOffTidy ==
  ASSUME NEW idle, NEW p, Tidy(p, idle)
  PROVE  Tidy(ChainSilenced(AfterAllSoundOff(p)), idle)
<1> DEFINE r == IF p.polyMode = "mono" THEN [p EXCEPT !.mono = Mono!EmptyStack]
                ELSE [p EXCEPT !.poly = Poly!AfterClear(p.poly)]
           s == [r EXCEPT !.keys = Keys!EmptyStack]
           t == Triggered(s, Voices(p), Silent)
           q == [t EXCEPT !.chain = {}]
<1>1. ChainSilenced(AfterAllSoundOff(p)) = q
  BY DEF ChainSilenced, AfterAllSoundOff, Released
<1>2. /\ s.polyMode = p.polyMode /\ s.arpMode = p.arpMode /\ s.direction = p.direction
      /\ s.midi = p.midi /\ s.generated = p.generated /\ DOMAIN s = Fields
      /\ p.polyMode = "mono" => s.mono = Mono!EmptyStack
      /\ p.polyMode # "mono" => s.poly = Poly!AfterClear(p.poly)
  BY DEF Tidy, PartOK, VoicesOK, Shape, Fields
<1> HIDE DEF r, s
<1>3. /\ q.polyMode = s.polyMode /\ q.arpMode = s.arpMode /\ q.direction = s.direction
      /\ q.midi = s.midi /\ q.generated = s.generated /\ q.mono = s.mono /\ q.poly = s.poly
  BY <1>2 DEF Triggered, Fields
<1>4. PartOK(q)
  BY <1>1, AllNotesOffKeeps, StartStopKeep DEF Tidy
<1> HIDE DEF q, t
<1>5. ASSUME p.polyMode # "mono"
      PROVE  \E n : Cleared(q.poly, n)
  BY <1>2, <1>3, <1>5, TunedFacts, ClearFacts DEF Tidy, PartOK
<1>6. Playing(q) = {}
  BY <1>2, <1>3, <1>5, EmptyPlays
<1>7. Tidy(q, idle)
  BY <1>2, <1>3, <1>4, <1>6, QuietTidy DEF Tidy, Tuned
<1> QED
  BY <1>1, <1>7

\* New allocators play nothing.
LEMMA WithAllocatorsTidy ==
  ASSUME NEW idle, NEW p, PartOK(WithAllocators(p)), DOMAIN p = Fields,
         Tuned(p), p.arpMode # "step", p.direction # "chord",
         p.voices \in 0..6, p.polyMode \in Modes,
         p.midi \subseteq {p.generated}, None \notin p.midi, idle => p.midi = {}
  PROVE  Tidy(WithAllocators(p), idle)
<1>1. PICK q : q = WithAllocators(p)
  OBVIOUS
<1>2. /\ q.polyMode = p.polyMode /\ q.arpMode = p.arpMode /\ q.direction = p.direction
      /\ q.midi = p.midi /\ q.generated = p.generated /\ q.mono = Mono!EmptyStack
      /\ q.poly = IF p.polyMode = "mono" THEN Poly!Allocator(0, FALSE)
                  ELSE Poly!Allocator(SizeFor(p.polyMode, p.voices), p.polyMode = "cyclic")
  BY <1>1 DEF WithAllocators, Fields
<1>3. ASSUME p.polyMode # "mono"
      PROVE  \E n : Cleared(q.poly, n)
  <2>1. q.poly = Poly!Allocator(SizeFor(p.polyMode, p.voices), FALSE)
    BY <1>2, <1>3 DEF Tuned
  <2>2. SizeFor(p.polyMode, p.voices) \in 0..12
    BY DEF SizeFor, Modes
  <2> QED BY <2>1, <2>2, ClearFacts
<1>4. Playing(q) = {}
  BY <1>2, <1>3, EmptyPlays
<1>5. Tidy(q, idle)
  BY <1>1, <1>2, <1>4, QuietTidy DEF Tuned
<1> QED
  BY <1>1, <1>5

\* Silenced, a part has forgotten its note.
LEMMA AllNotesOffTidy ==
  ASSUME NEW p, PartOK(p), Tuned(p), p.arpMode # "step", p.direction # "chord",
         p.midi \subseteq {p.generated}, ~p.pedal, NEW idle
  PROVE  Tidy(AfterAllNotesOff(p), idle)
<1> DEFINE r == IF p.polyMode = "mono" THEN [p EXCEPT !.mono = Mono!EmptyStack]
                ELSE [p EXCEPT !.poly = Poly!AfterClearNotes(p.poly)]
           s == [r EXCEPT !.keys = Keys!EmptyStack]
           t == Triggered(s, Voices(p), Silent)
           q == [t EXCEPT !.midi = t.midi \ {p.generated}, !.generated = None]
<1>1. AfterAllNotesOff(p) = q
  <2>1. t = Released(s, Voices(p)) /\ p.direction # "chord" /\ ~p.pedal
    BY DEF Released
  <2> HIDE DEF t
  <2>2. q = [t EXCEPT !.midi = IF p.direction = "chord" THEN @ ELSE @ \ {p.generated},
                      !.generated = None]
    BY <2>1
  <2> HIDE DEF q
  <2> QED BY <2>1, <2>2 DEF AfterAllNotesOff
<1>2. /\ s.polyMode = p.polyMode /\ s.arpMode = p.arpMode /\ s.direction = p.direction
      /\ s.midi = p.midi /\ DOMAIN s = Fields
      /\ p.polyMode = "mono" => s.mono = Mono!EmptyStack
      /\ p.polyMode # "mono" => s.poly = Poly!AfterClearNotes(p.poly)
  BY DEF PartOK, VoicesOK, Shape, Fields
<1> HIDE DEF r, s
<1>3. /\ q.polyMode = s.polyMode /\ q.arpMode = s.arpMode /\ q.direction = s.direction
      /\ q.midi = s.midi \ {p.generated} /\ q.mono = s.mono /\ q.poly = s.poly
  BY <1>2 DEF Triggered, Fields
<1>4. PartOK(q)
  BY <1>1, AllNotesOffKeeps
<1> HIDE DEF q, t
<1>5. ASSUME p.polyMode # "mono"
      PROVE  \E n : Cleared(q.poly, n)
  BY <1>2, <1>3, <1>5, TunedFacts, ClearFacts DEF PartOK
<1>6. Playing(q) = {}
  BY <1>2, <1>3, <1>5, EmptyPlays
<1>7. q.midi = {}
  BY <1>2, <1>3
<1>8. Tidy(q, idle)
  BY <1>2, <1>3, <1>4, <1>6, <1>7, QuietTidy DEF Tuned
<1> QED
  BY <1>1, <1>8

\* The number of keys after each change of the stack.
LEMMA KeyCounts ==
  ASSUME NEW p, PartOK(p), NEW note
  PROVE  /\ note \in p.scale => Keys!Size(Keys!AfterNoteOn(p.keys, note, 1)) # 0
         /\ Keys!Size(Keys!AfterFlag(p.keys, note)) = Keys!Size(p.keys)
<1>1. Keys!Size(Keys!AfterFlag(p.keys, note)) = Keys!Size(p.keys)
  BY DEF PartOK, MK!StackOK, Keys!AfterFlag, Keys!Size
<1>2. ASSUME note \in p.scale
      PROVE  MK!Size(MK!AfterNoteOn(p.keys, note, 1)) # 0
  <2>1. /\ KeyCapacity \in Nat \ {0} /\ MK!StackOK(p.keys) /\ 1 \in {1}
        /\ note \in Int /\ note # MK!FreeSlot
    BY <1>2, CapacityAssumption DEF PartOK, VoicesOK, Shape, MK!FreeSlot
  <2> QED BY <2>1, MK!NoteOnFacts
<1> QED
  BY <1>1, <1>2, SameKeys

\* A key that is pressed: the arpeggiator and the sequencer only store it.
LEMMA NoteOnTidy ==
  ASSUME NEW idle, NEW p, Tidy(p, idle), NEW note
  PROVE  Tidy(AfterNoteOn(p, note), idle)
<1> DEFINE k == Keys!AfterNoteOn(p.keys, note, 1)
           q == [p EXCEPT !.keys = k]
<1>1. AfterNoteOn(p, note) = IF note \notin p.scale THEN p ELSE q
  BY DEF AfterNoteOn, Tidy
<1>2. ASSUME note \in p.scale
      PROVE  Tidy(q, idle)
  <2>1. PartOK(p) /\ PartOK(q) /\ Keys!Size(k) # 0
    BY <1>2, KeyFacts, FieldFacts, KeyCounts DEF Tidy
  <2>2. /\ q.keys = k /\ q.polyMode = p.polyMode /\ q.arpMode = p.arpMode
        /\ q.direction = p.direction /\ q.mono = p.mono /\ q.poly = p.poly
        /\ q.midi = p.midi /\ q.generated = p.generated
    BY <2>1 DEF PartOK, VoicesOK, Shape, Fields
  <2>3. q.arpMode # "step" /\ q.direction # "chord"
    BY <2>2 DEF Tidy
  <2> HIDE DEF q, k
  <2> QED BY <2>1, <2>2, <2>3, SameTidy
<1> QED
  BY <1>1, <1>2

\* A key that is released: the last one silences the part.
LEMMA NoteOffTidy ==
  ASSUME NEW idle, NEW p, Tidy(p, idle), NEW note
  PROVE  Tidy(AfterNoteOff(p, note), idle)
<1> DEFINE q == [p EXCEPT !.keys = Keys!AfterNoteOff(p.keys, note)]
           r == [p EXCEPT !.keys = Keys!AfterFlag(p.keys, note)]
<1>1. AfterNoteOff(p, note) = IF note \notin p.scale THEN p ELSE IF p.pedal THEN r
                              ELSE IF Keys!Size(q.keys) = 0 THEN AfterAllNotesOff(q) ELSE q
  BY DEF AfterNoteOff, Tidy
<1>2. PartOK(p) /\ PartOK(q) /\ PartOK(r)
  BY KeyFacts, FieldFacts DEF Tidy
<1>3. /\ q.polyMode = p.polyMode /\ q.arpMode = p.arpMode /\ q.pedal = p.pedal
      /\ q.direction = p.direction /\ q.mono = p.mono /\ q.poly = p.poly
      /\ q.midi = p.midi /\ q.generated = p.generated
      /\ r.polyMode = p.polyMode /\ r.arpMode = p.arpMode
      /\ r.direction = p.direction /\ r.mono = p.mono /\ r.poly = p.poly
      /\ r.midi = p.midi /\ r.generated = p.generated
      /\ r.keys = Keys!AfterFlag(p.keys, note)
  BY <1>2 DEF PartOK, VoicesOK, Shape, Fields
<1>4. p.arpMode # "step" /\ p.direction # "chord"
  BY DEF Tidy
<1> HIDE DEF q, r
<1>5. Tidy(r, idle)
  BY <1>2, <1>3, <1>4, KeyCounts, SameTidy
<1>6. Keys!Size(q.keys) # 0 => Tidy(q, idle)
  BY <1>2, <1>3, <1>4, SameTidy
<1>7. ASSUME Keys!Size(q.keys) = 0, ~p.pedal, note \in p.scale
      PROVE  Tidy(AfterAllNotesOff(q), idle)
  <2>1. Tuned(q) /\ q.arpMode # "step" /\ q.direction # "chord" /\ ~q.pedal
        /\ q.midi \subseteq {q.generated}
    BY <1>3, <1>7 DEF Tidy, Tuned
  <2> QED BY <1>2, <2>1, AllNotesOffTidy
<1> QED
  BY <1>1, <1>5, <1>6, <1>7

LEMMA LoopTidy ==
  ASSUME NEW idle, NEW p, Tidy(p, idle), NEW n \in Nat
  PROVE  Tidy(AfterLoop("pedal", p, n), idle)
<1> DEFINE f == CHOOSE g : LoopFunction(g, "pedal", p, n)
<1>1. LoopFunction(f, "pedal", p, n)
  BY LoopDefined
<1>2. AfterLoop("pedal", p, n) = f[n]
  BY DEF AfterLoop, LoopFunction
<1> HIDE DEF f
<1>3. \A i \in 0..n : f[i] = IF i = 0 THEN p ELSE LoopStep("pedal", f[i - 1], i)
  BY <1>1 DEF LoopFunction
<1>4. ASSUME NEW q, Tidy(q, idle), NEW i
      PROVE  Tidy(LoopStep("pedal", q, i), idle)
  <2>1. \/ LoopStep("pedal", q, i) = q
        \/ LoopStep("pedal", q, i) = AfterNoteOff(q, Keys!NoteAt(q.keys, i))
    BY DEF LoopStep
  <2> QED BY <1>4, <2>1, NoteOffTidy
<1> DEFINE D == {m \in 0..n : ~Tidy(f[m], idle)}
<1>5. ASSUME D # {}
      PROVE  FALSE
  <2>1. PICK m \in D : \A x \in D : m <= x
    <3>1. D \in SUBSET Nat
      OBVIOUS
    <3> HIDE DEF D
    <3> QED BY <1>5, <3>1, MinOfNaturals
  <2>2. m # 0
    BY <1>3
  <2>3. m \in 0..n /\ m - 1 \in 0..n /\ m - 1 \notin D
    BY <2>1, <2>2
  <2>4. Tidy(f[m - 1], idle)
    BY <2>3
  <2>5. f[m] = LoopStep("pedal", f[m - 1], m)
    BY <1>3, <2>2, <2>3
  <2>6. Tidy(f[m], idle)
    BY <1>4, <2>4, <2>5
  <2> QED BY <2>6
<1>6. n \in 0..n /\ n \notin D
  BY <1>5
<1> QED
  BY <1>2, <1>6

\* A weaker promise while the clock runs.
LEMMA IdleFacts ==
  ASSUME NEW p, NEW idle, Tidy(p, idle)
  PROVE  Tidy(p, FALSE) /\ (idle => Tidy(p, TRUE))
BY DEF Tidy

LEMMA SamePlaying ==
  ASSUME NEW p, NEW q, q.polyMode = p.polyMode, q.mono = p.mono, q.poly = p.poly
  PROVE  Playing(q) = Playing(p) /\ (Tuned(p) => Tuned(q))
BY DEF Playing, Tuned

LEMMA FieldTidy ==
  ASSUME NEW idle, NEW p, Tidy(p, idle), NEW x
  PROVE  /\ Tidy([p EXCEPT !.pedal = x], idle) /\ Tidy([p EXCEPT !.arp = x], idle)
         /\ Tidy([p EXCEPT !.octaves = x], idle) /\ Tidy([p EXCEPT !.chain = x], idle)
         /\ x \in SUBSET (0..127) => Tidy([p EXCEPT !.scale = x], idle)
         /\ x # "step" => Tidy([p EXCEPT !.arpMode = x], idle)
         /\ x # "chord" => Tidy([p EXCEPT !.direction = x], idle)
<1>0. PartOK(p) /\ DOMAIN p = Fields /\ p.arpMode # "step" /\ p.direction # "chord"
  BY DEF Tidy, PartOK, VoicesOK, Shape
<1>1. /\ PartOK([p EXCEPT !.pedal = x]) /\ PartOK([p EXCEPT !.arp = x])
      /\ PartOK([p EXCEPT !.octaves = x]) /\ PartOK([p EXCEPT !.chain = x])
      /\ x \in SUBSET (0..127) => PartOK([p EXCEPT !.scale = x])
      /\ PartOK([p EXCEPT !.arpMode = x]) /\ PartOK([p EXCEPT !.direction = x])
  BY <1>0, FieldFacts
<1>2. Tidy([p EXCEPT !.pedal = x], idle)
  BY <1>0, <1>1, SameTidy DEF Fields
<1>3. Tidy([p EXCEPT !.arp = x], idle)
  BY <1>0, <1>1, SameTidy DEF Fields
<1>4. Tidy([p EXCEPT !.octaves = x], idle)
  BY <1>0, <1>1, SameTidy DEF Fields
<1>5. Tidy([p EXCEPT !.chain = x], idle)
  BY <1>0, <1>1, SameTidy DEF Fields
<1>6. x \in SUBSET (0..127) => Tidy([p EXCEPT !.scale = x], idle)
  BY <1>0, <1>1, SameTidy DEF Fields
<1>7. x # "step" => Tidy([p EXCEPT !.arpMode = x], idle)
  BY <1>0, <1>1, SameTidy DEF Fields
<1>8. x # "chord" => Tidy([p EXCEPT !.direction = x], idle)
  BY <1>0, <1>1, SameTidy DEF Fields
<1> QED
  BY <1>2, <1>3, <1>4, <1>5, <1>6, <1>7, <1>8

\* The note off for the generated note leaves nothing.
LEMMA KilledFacts ==
  ASSUME NEW p, Tidy(p, FALSE), NEW q, q = InternalNoteOff(p, p.generated)
  PROVE  PartOK(q) /\ Rest(q) = Rest(p) /\ Playing(q) = {} /\ q.midi = {}
<1>1. /\ PartOK(p) /\ VoicesOK(p) /\ Tuned(p)
      /\ Playing(p) \cup p.midi \subseteq {p.generated} /\ None \notin p.midi
  BY DEF Tidy, PartOK
<1>2. PartOK(q) /\ Rest(q) = Rest(p)
  BY <1>1, InternalKeeps, InternalNoteOffKeeps DEF Kept
<1>3. CASE p.generated = None
  <2>1. q = p
    BY <1>3 DEF InternalNoteOff
  <2>2. None \notin Playing(p)
    BY <1>1, SoundingPlays
  <2> QED BY <1>1, <1>2, <1>3, <2>1, <2>2
<1>4. CASE p.generated # None
  <2>1. Playing(q) \subseteq Playing(p) \ {p.generated} /\ q.midi = p.midi \ {p.generated}
    BY <1>1, <1>4, OffPlays
  <2> QED BY <1>1, <1>2, <2>1
<1> QED
  BY <1>3, <1>4

\* The note on that follows is remembered.
LEMMA PlayedTidy ==
  ASSUME NEW p, PartOK(p), Tuned(p), p.arpMode # "step", p.direction # "chord",
         Playing(p) = {}, p.midi = {}, Keys!Size(p.keys) # 0, NEW note
  PROVE  Tidy([InternalNoteOn(p, note) EXCEPT !.generated = note], FALSE)
<1> DEFINE r == InternalNoteOn(p, note)
           q == [r EXCEPT !.generated = note]
<1>1. PartOK(r) /\ Rest(r) = Rest(p) /\ VoicesOK(p)
  BY InternalKeeps, InternalNoteOnKeeps DEF Kept, PartOK
<1>2. /\ Playing(r) \subseteq Playing(p) \cup {note} /\ r.midi \subseteq p.midi \cup {note}
      /\ None \notin p.midi => None \notin r.midi
  BY <1>1, OnPlays
<1>3. /\ r.arpMode = p.arpMode /\ r.direction = p.direction /\ r.keys = p.keys
      /\ r.polyMode = p.polyMode /\ DOMAIN r = Fields
  BY <1>1, RestFacts DEF PartOK, VoicesOK, Shape
<1> HIDE DEF r
<1>4. /\ q.arpMode = r.arpMode /\ q.direction = r.direction /\ q.keys = r.keys
      /\ q.polyMode = r.polyMode /\ q.mono = r.mono /\ q.poly = r.poly /\ q.midi = r.midi
      /\ q.generated = note
  BY <1>3 DEF Fields
<1>5. PartOK(q)
  BY <1>1, FieldFacts
<1> HIDE DEF q
<1>6. Playing(q) = Playing(r) /\ Tuned(q)
  BY <1>3, <1>4 DEF Playing, Tuned
<1>7. Tidy(q, FALSE)
  BY <1>2, <1>3, <1>4, <1>5, <1>6 DEF Tidy
<1> QED
  BY <1>7 DEF q, r

\* A step of the note sequence.
LEMMA SequencerTidy ==
  ASSUME NEW p, Tidy(p, FALSE), NEW step
  PROVE  Tidy(AfterSequencer(p, step), FALSE)
<1> DEFINE note == Clip(step.note + Keys!MostRecentNote(p.keys) - 60)
           killed == InternalNoteOff(p, p.generated)
           rest == [killed EXCEPT !.generated = None]
           on == InternalNoteOn(p, note)
           tied == InternalNoteOff(on, p.generated)
           legato == [tied EXCEPT !.generated = note]
<1>1. \/ AfterSequencer(p, step) = p
      \/ AfterSequencer(p, step) = rest
      \/ /\ AfterSequencer(p, step) = [InternalNoteOn(killed, note) EXCEPT !.generated = note]
         /\ Keys!Size(p.keys) # 0
      \/ AfterSequencer(p, step) = legato /\ Keys!Size(p.keys) # 0
  BY DEF AfterSequencer
<1>2. /\ PartOK(p) /\ VoicesOK(p) /\ DOMAIN p = Fields /\ Tuned(p)
      /\ p.arpMode # "step" /\ p.direction # "chord"
      /\ Playing(p) \cup p.midi \subseteq {p.generated} /\ None \notin p.midi
  BY DEF Tidy, PartOK, VoicesOK, Shape
<1>3. PartOK(killed) /\ Rest(killed) = Rest(p) /\ Playing(killed) = {} /\ killed.midi = {}
  BY KilledFacts
<1> HIDE DEF note, killed
<1>4. /\ killed.arpMode = p.arpMode /\ killed.direction = p.direction /\ killed.keys = p.keys
      /\ killed.polyMode = p.polyMode /\ DOMAIN killed = Fields /\ Tuned(killed)
  BY <1>2, <1>3, RestFacts DEF PartOK, VoicesOK, Shape, Tuned
<1>5. Tidy(rest, FALSE)
  <2>1. /\ rest.arpMode = killed.arpMode /\ rest.direction = killed.direction
        /\ rest.polyMode = killed.polyMode /\ rest.mono = killed.mono
        /\ rest.poly = killed.poly /\ rest.midi = killed.midi
    BY <1>4 DEF Fields
  <2>2. PartOK(rest)
    BY <1>3, FieldFacts
  <2> HIDE DEF rest
  <2>3. Playing(rest) = {} /\ Tuned(rest)
    BY <1>3, <1>4, <2>1, SamePlaying
  <2> QED BY <1>2, <1>3, <1>4, <2>1, <2>2, <2>3, QuietTidy
<1>6. Keys!Size(p.keys) # 0 => Tidy([InternalNoteOn(killed, note) EXCEPT !.generated = note], FALSE)
  BY <1>2, <1>3, <1>4, PlayedTidy
<1>7. ASSUME Keys!Size(p.keys) # 0
      PROVE  Tidy(legato, FALSE)
  <2>1. PartOK(on) /\ Rest(on) = Rest(p)
    BY <1>2, InternalKeeps, InternalNoteOnKeeps DEF Kept
  <2>2. /\ Playing(on) \subseteq Playing(p) \cup {note} /\ on.midi \subseteq p.midi \cup {note}
        /\ None \notin p.midi => None \notin on.midi
    BY <1>2, OnPlays
  <2> HIDE DEF on
  <2>3. PartOK(tied) /\ Rest(tied) = Rest(on) /\ VoicesOK(on) /\ Tuned(on)
    <3>1. on.polyMode = p.polyMode
      BY <2>1, RestFacts
    <3> QED BY <1>2, <2>1, <3>1, InternalKeeps, InternalNoteOffKeeps DEF Kept, PartOK, Tuned
  <2>4. Playing(tied) \subseteq {note} /\ tied.midi \subseteq {note} /\ None \notin tied.midi
    <3>1. CASE p.generated = None
      <4>1. tied = on
        BY <3>1 DEF InternalNoteOff
      <4>2. None \notin Playing(p)
        BY <1>2, SoundingPlays
      <4> QED BY <1>2, <2>2, <3>1, <4>1, <4>2
    <3>2. CASE p.generated # None
      <4>1. /\ Playing(tied) \subseteq Playing(on) \ {p.generated}
            /\ tied.midi = on.midi \ {p.generated}
        BY <2>3, <3>2, OffPlays
      <4> QED BY <1>2, <2>2, <4>1
    <3> QED BY <3>1, <3>2
  <2> HIDE DEF tied
  <2>5. /\ tied.arpMode = p.arpMode /\ tied.direction = p.direction /\ tied.keys = p.keys
        /\ tied.polyMode = p.polyMode /\ DOMAIN tied = Fields
    <3>1. Rest(tied) = Rest(p)
      BY <2>1, <2>3
    <3> QED BY <2>3, <3>1, RestFacts DEF PartOK, VoicesOK, Shape
  <2>6. /\ legato.arpMode = p.arpMode /\ legato.direction = p.direction /\ legato.keys = p.keys
        /\ legato.polyMode = tied.polyMode /\ legato.mono = tied.mono
        /\ legato.poly = tied.poly /\ legato.midi = tied.midi /\ legato.generated = note
    BY <2>5 DEF Fields
  <2>7. PartOK(legato)
    BY <2>3, FieldFacts
  <2> HIDE DEF legato
  <2>8. Playing(legato) = Playing(tied) /\ Tuned(legato)
    BY <1>2, <2>5, <2>6 DEF Playing, Tuned
  <2> QED BY <1>2, <1>7, <2>4, <2>6, <2>7, <2>8 DEF Tidy
<1> QED
  BY <1>1, <1>5, <1>6, <1>7

\* A step of the arpeggio.
LEMMA ArpeggiatorTidy ==
  ASSUME NEW p, Tidy(p, FALSE), NEW gate, NEW arp
  PROVE  Tidy(AfterArpeggiator(p, gate, arp), FALSE)
<1> DEFINE off == InternalNoteOff(p, p.generated)
           killed == [off EXCEPT !.generated = None]
           moved == [killed EXCEPT !.arp = arp]
           note == ArpNote(moved)
<1>1. /\ PartOK(p) /\ DOMAIN p = Fields /\ Tuned(p)
      /\ p.arpMode # "step" /\ p.direction # "chord"
  BY DEF Tidy, PartOK, VoicesOK, Shape
<1>2. \/ AfterArpeggiator(p, gate, arp) = p
      \/ /\ AfterArpeggiator(p, gate, arp) = [InternalNoteOn(moved, note) EXCEPT !.generated = note]
         /\ Keys!Size(p.keys) > 0
      \/ AfterArpeggiator(p, gate, arp) = killed
  BY <1>1 DEF AfterArpeggiator
<1>3. PartOK(off) /\ Rest(off) = Rest(p) /\ Playing(off) = {} /\ off.midi = {}
  BY KilledFacts
<1> HIDE DEF off, note
<1>4. /\ off.arpMode = p.arpMode /\ off.direction = p.direction /\ off.keys = p.keys
      /\ off.polyMode = p.polyMode /\ DOMAIN off = Fields
  BY <1>3, RestFacts DEF PartOK, VoicesOK, Shape
<1>5. /\ killed.arpMode = p.arpMode /\ killed.direction = p.direction /\ killed.keys = p.keys
      /\ killed.polyMode = off.polyMode /\ killed.mono = off.mono /\ killed.poly = off.poly
      /\ killed.midi = off.midi /\ DOMAIN killed = Fields
  BY <1>4 DEF Fields
<1>6. PartOK(killed)
  BY <1>3, FieldFacts
<1> HIDE DEF killed
<1>7. /\ moved.arpMode = p.arpMode /\ moved.direction = p.direction /\ moved.keys = p.keys
      /\ moved.polyMode = off.polyMode /\ moved.mono = off.mono /\ moved.poly = off.poly
      /\ moved.midi = off.midi
  BY <1>5 DEF Fields
<1>8. PartOK(moved)
  BY <1>6, FieldFacts
<1> HIDE DEF moved
<1>9. Playing(killed) = {} /\ Playing(moved) = {} /\ Tuned(killed) /\ Tuned(moved)
  BY <1>1, <1>3, <1>4, <1>5, <1>7 DEF Playing, Tuned
<1>10. Tidy(killed, FALSE)
  BY <1>1, <1>3, <1>5, <1>6, <1>9, QuietTidy
<1>11. ASSUME Keys!Size(p.keys) > 0
       PROVE  Tidy([InternalNoteOn(moved, note) EXCEPT !.generated = note], FALSE)
  <2>1. Keys!Size(p.keys) \in Nat
    BY <1>1, KeyFacts
  <2>2. Keys!Size(moved.keys) # 0
    BY <1>7, <1>11, <2>1
  <2>3. moved.arpMode # "step" /\ moved.direction # "chord" /\ moved.midi = {}
    BY <1>1, <1>3, <1>7
  <2> QED BY <1>8, <1>9, <2>2, <2>3, PlayedTidy
<1> QED
  BY <1>2, <1>10, <1>11

\* New allocators for a part that has been silenced.
LEMMA SilencedTidy ==
  ASSUME NEW idle, NEW p, Shape(p), Tuned(p), p.arpMode # "step", p.direction # "chord",
         p.midi \subseteq {p.generated}, None \notin p.midi, idle => p.midi = {}
  PROVE  Tidy(WithAllocators(AfterAllSoundOff(p)), idle)
<1> DEFINE r == IF p.polyMode = "mono" THEN [p EXCEPT !.mono = Mono!EmptyStack]
                ELSE [p EXCEPT !.poly = Poly!AfterClear(p.poly)]
           s == [r EXCEPT !.keys = Keys!EmptyStack]
           q == Triggered(s, Voices(p), Silent)
<1>1. AfterAllSoundOff(p) = q
  BY DEF AfterAllSoundOff, Released
<1>2. /\ s.polyMode = p.polyMode /\ s.arpMode = p.arpMode /\ s.direction = p.direction
      /\ s.midi = p.midi /\ s.generated = p.generated /\ s.voices = p.voices
      /\ DOMAIN s = Fields
  BY DEF Shape, Fields
<1> HIDE DEF r, s
<1>3. /\ q.polyMode = p.polyMode /\ q.arpMode = p.arpMode /\ q.direction = p.direction
      /\ q.midi = p.midi /\ q.generated = p.generated /\ q.voices = p.voices
      /\ DOMAIN q = Fields
  BY <1>2 DEF Triggered, Fields
<1>4. PartOK(WithAllocators(q))
  BY <1>1, SilencedFacts
<1> HIDE DEF q
<1>5. q.voices \in 0..6 /\ q.polyMode \in Modes /\ Tuned(q)
  BY <1>3 DEF Shape, Tuned
<1> QED
  BY <1>1, <1>3, <1>4, <1>5, WithAllocatorsTidy

LEMMA PolyModeTidy ==
  ASSUME NEW idle, NEW p, Tidy(p, idle), NEW mode \in PolyModes, mode # "cyclic"
  PROVE  Tidy(AfterPolyMode(p, mode), idle)
<1> DEFINE q == [p EXCEPT !.polyMode = mode]
<1>1. /\ Shape(q) /\ q.polyMode = mode /\ q.arpMode = p.arpMode /\ q.direction = p.direction
      /\ q.midi = p.midi /\ q.generated = p.generated
  BY PolyModesAssumption DEF Tidy, PartOK, VoicesOK, Shape, Fields, Modes
<1> HIDE DEF q
<1>2. Tidy(WithAllocators(AfterAllSoundOff(q)), idle)
  <2>1. /\ Tuned(q) /\ q.arpMode # "step" /\ q.direction # "chord"
        /\ q.midi \subseteq {q.generated} /\ None \notin q.midi /\ (idle => q.midi = {})
    BY <1>1 DEF Tidy, Tuned
  <2> QED BY <1>1, <2>1, SilencedTidy
<1> QED
  BY <1>2 DEF AfterPolyMode, q

LEMMA LoadTidy ==
  ASSUME NEW idle, NEW p, Tidy(p, idle), NEW mode \in PolyModes, mode # "cyclic",
         NEW arpMode, arpMode # "step", NEW d, d # "chord", NEW octs, NEW scale \in Scales
  PROVE  Tidy(AfterTouch([p EXCEPT !.polyMode = mode, !.arpMode = arpMode,
                                   !.direction = d, !.octaves = octs, !.scale = scale]), idle)
<1> DEFINE q == [p EXCEPT !.polyMode = mode, !.arpMode = arpMode,
                          !.direction = d, !.octaves = octs, !.scale = scale]
<1>0. PartOK(p) /\ DOMAIN p = Fields /\ scale \in SUBSET (0..127)
  BY NotesAssumption DEF Tidy, PartOK, VoicesOK, Shape
<1>1. /\ DOMAIN q = Fields /\ q.polyMode = mode /\ q.voices = p.voices /\ q.scale = scale
      /\ q.allocMode = p.allocMode /\ q.keys = p.keys /\ q.arpMode = arpMode /\ q.direction = d
      /\ q.mono = p.mono /\ q.poly = p.poly /\ q.midi = p.midi /\ q.generated = p.generated
  BY <1>0 DEF Fields
<1>2. PartOK(AfterTouch(q))
  BY <1>0, LoadKeeps
<1> HIDE DEF q
<1>3. Shape(q)
  BY <1>0, <1>1, PolyModesAssumption DEF PartOK, VoicesOK, Shape, Modes
<1>4. ASSUME q.polyMode = q.allocMode
      PROVE  Tidy(q, idle)
  <2>1. q.polyMode = p.polyMode
    BY <1>0, <1>1, <1>4 DEF PartOK
  <2>2. PartOK(q)
    BY <1>2, <1>4 DEF AfterTouch
  <2> QED BY <1>1, <2>1, <2>2, SameTidy
<1>5. Tidy(WithAllocators(AfterAllSoundOff(q)), idle)
  <2>1. /\ Tuned(q) /\ q.arpMode # "step" /\ q.direction # "chord"
        /\ q.midi \subseteq {q.generated} /\ None \notin q.midi /\ (idle => q.midi = {})
    BY <1>1 DEF Tidy, Tuned
  <2> QED BY <1>3, <2>1, SilencedTidy
<1>6. Tidy(AfterTouch(q), idle)
  BY <1>4, <1>5 DEF AfterTouch
<1> QED
  BY <1>6 DEF q

LEMMA AssignTidy ==
  ASSUME NEW idle, NEW p, Tidy(p, idle), NEW n \in VoiceCounts
  PROVE  Tidy(AfterAssignVoices(p, n), idle)
<1> DEFINE u == AfterAllSoundOff(p)
           w == ChainSilenced(u)
           r == [u EXCEPT !.voices = n, !.sound = [v \in 0..(n - 1) |-> Silent]]
<1>1. Tidy(w, idle)
  BY AllSoundOffTidy
<1>2. DOMAIN u = Fields
  BY AllNotesOffKeeps DEF Tidy, PartOK, VoicesOK, Shape
<1> HIDE DEF u
<1>3. /\ w.arpMode = u.arpMode /\ w.direction = u.direction /\ w.polyMode = u.polyMode
      /\ w.midi = u.midi /\ w.generated = u.generated
      /\ r.arpMode = u.arpMode /\ r.direction = u.direction /\ r.polyMode = u.polyMode
      /\ r.midi = u.midi /\ r.generated = u.generated /\ r.voices = n /\ DOMAIN r = Fields
  BY <1>2 DEF ChainSilenced, Fields
<1>4. AfterAssignVoices(p, n) = WithAllocators(r)
  BY DEF AfterAssignVoices, u
<1>5. PartOK(WithAllocators(r))
  BY <1>4, AssignKeeps DEF Tidy
<1> HIDE DEF w, r
<1>6. /\ Tuned(r) /\ r.arpMode # "step" /\ r.direction # "chord"
      /\ r.midi \subseteq {r.generated} /\ None \notin r.midi /\ (idle => r.midi = {})
  BY <1>1, <1>3 DEF Tidy, Tuned
<1>7. w.polyMode \in Modes
  BY <1>1 DEF Tidy, PartOK, VoicesOK, Shape
<1>8. r.voices \in 0..6 /\ r.polyMode \in Modes
  <2>1. r.voices = n /\ w.polyMode = u.polyMode /\ r.polyMode = u.polyMode
    BY <1>3
  <2>2. n \in 0..6
    BY VoiceCountsAssumption
  <2> QED BY <1>7, <2>1, <2>2
<1> QED
  BY <1>3, <1>4, <1>5, <1>6, <1>8, WithAllocatorsTidy

\* With nothing playing, a start forgets nothing.
LEMMA StartTidy ==
  ASSUME NEW p, Tidy(p, TRUE)
  PROVE  Tidy(AfterStart(p), TRUE)
<1> DEFINE q == AfterStart(p)
<1>1. /\ PartOK(p) /\ DOMAIN p = Fields /\ Tuned(p)
      /\ p.arpMode # "step" /\ p.direction # "chord"
      /\ Playing(p) = {} /\ p.midi = {}
  BY DEF Tidy, PartOK, VoicesOK, Shape
<1>2. /\ q.polyMode = p.polyMode /\ q.arpMode = p.arpMode /\ q.direction = p.direction
      /\ q.midi = p.midi /\ q.mono = p.mono /\ q.poly = p.poly
  BY <1>1 DEF AfterStart, Fields
<1>3. PartOK(q)
  BY <1>1, StartStopKeep
<1> HIDE DEF q
<1>4. Playing(q) = {} /\ Tuned(q)
  BY <1>1, <1>2, SamePlaying
<1>5. Tidy(q, TRUE)
  BY <1>1, <1>2, <1>3, <1>4, QuietTidy
<1> QED
  BY <1>5 DEF q

LEMMA StopTidy ==
  ASSUME NEW p, Tidy(p, FALSE)
  PROVE  Tidy(AfterStop(p), TRUE)
<1> DEFINE q == [p EXCEPT !.pedal = FALSE]
<1>1. Tidy(q, FALSE)
  BY FieldTidy
<1>2. DOMAIN p = Fields
  BY DEF Tidy, PartOK, VoicesOK, Shape
<1>3. ~q.pedal
  BY <1>2 DEF Fields
<1> HIDE DEF q
<1>4. /\ PartOK(q) /\ Tuned(q) /\ q.arpMode # "step" /\ q.direction # "chord"
      /\ q.midi \subseteq {q.generated}
  BY <1>1 DEF Tidy
<1>5. Tidy(AfterAllNotesOff(q), TRUE)
  BY <1>1, <1>3, <1>4, AllNotesOffTidy
<1> QED
  BY <1>5 DEF AfterStop, q

LEMMA FreshTidy ==
  ASSUME NEW n \in VoiceCounts, NEW polyMode \in PolyModes, polyMode # "cyclic",
         NEW arpMode, arpMode # "step", NEW direction, direction # "chord",
         NEW octs, NEW scale \in Scales
  PROVE  Tidy(Fresh(n, polyMode, arpMode, direction, octs, scale), TRUE)
<1> DEFINE r == [ voices |-> n, polyMode |-> polyMode, allocMode |-> polyMode,
                  arpMode |-> arpMode, direction |-> direction, octaves |-> octs,
                  scale |-> scale, pedal |-> FALSE, keys |-> Keys!EmptyStack,
                  mono |-> Keys!EmptyStack, poly |-> Poly!Allocator(0, FALSE),
                  generated |-> 0, arp |-> [dir |-> 0, step |-> 0, octave |-> 0],
                  sound |-> [v \in 0..(n - 1) |-> Silent], midi |-> {}, chain |-> {} ]
<1>1. /\ DOMAIN r = Fields /\ r.voices = n /\ r.polyMode = polyMode /\ r.midi = {}
      /\ r.arpMode = arpMode /\ r.direction = direction
  BY DEF Fields
<1>2. Fresh(n, polyMode, arpMode, direction, octs, scale) = WithAllocators(r)
  BY DEF Fresh
<1>3. PartOK(WithAllocators(r))
  BY <1>2, FreshFacts
<1> HIDE DEF r
<1>4. /\ Tuned(r) /\ r.voices \in 0..6 /\ r.polyMode \in Modes
      /\ r.arpMode # "step" /\ r.direction # "chord"
      /\ r.midi \subseteq {r.generated} /\ None \notin r.midi
  BY <1>1, VoiceCountsAssumption, PolyModesAssumption DEF Tuned, Modes
<1>5. Tidy(WithAllocators(r), TRUE)
  BY <1>1, <1>3, <1>4, WithAllocatorsTidy
<1> QED
  BY <1>2, <1>5

TidyInv == Tidy(part, ~running)

\* Inductive, under the conditions of Generates.
LEMMA PartStaysTidy == ASSUME Generates PROVE Spec => []TidyInv
<1>0. /\ ~Restarts /\ \A mode \in PolyModes : mode # "cyclic"
      /\ \A arpMode \in ArpModes : arpMode # "step"
      /\ \A d \in ArpDirections : d # "chord"
  BY DEF Generates
<1>1. Init => TidyInv
  <2> SUFFICES ASSUME Init PROVE TidyInv
    OBVIOUS
  <2>1. Tidy(part, TRUE) /\ running = FALSE
    BY <1>0, FreshTidy DEF Init
  <2> QED BY <2>1 DEF TidyInv, Tidy
<1>2. TidyInv /\ [Next]_vars => TidyInv'
  <2> SUFFICES ASSUME Tidy(part, ~running), [Next]_vars
               PROVE  Tidy(part', ~running')
    BY DEF TidyInv
  <2>0. Tidy(part, FALSE) /\ (~running => Tidy(part, TRUE))
    BY IdleFacts
  <2>1. ASSUME NEW note \in Notes, KeyDown(note)
        PROVE  Tidy(part', ~running')
    <3>1. CASE running
      BY <2>0, <2>1, <3>1, NoteOnTidy DEF KeyDown, Tidy
    <3>2. CASE ~running
      <4>1. Tidy(AfterNoteOn(AfterStart(part), note), TRUE)
        BY <2>0, <3>2, StartTidy, NoteOnTidy
      <4>2. Tidy(AfterNoteOn(AfterStart(part), note), FALSE)
        BY <4>1, IdleFacts
      <4>3. part' = AfterNoteOn(AfterStart(part), note) /\ running' = TRUE
        BY <2>1, <3>2 DEF KeyDown
      <4> QED BY <4>2, <4>3 DEF Tidy
    <3> QED BY <3>1, <3>2
  <2>2. ASSUME NEW note \in Notes, KeyUp(note)
        PROVE  Tidy(part', ~running')
    BY <2>2, NoteOffTidy DEF KeyUp
  <2>3. CASE PedalDown
    BY <2>3, FieldTidy DEF PedalDown
  <2>4. CASE PedalUp
    <3> DEFINE q == [part EXCEPT !.pedal = FALSE]
    <3>1. Tidy(q, ~running) /\ KeyCapacity \in Nat
      BY FieldTidy, CapacityAssumption
    <3> HIDE DEF q
    <3>2. Tidy(AfterLoop("pedal", q, KeyCapacity), ~running)
      BY <3>1, LoopTidy
    <3> QED BY <2>4, <3>2 DEF PedalUp, AfterPedalUp, q
  <2>5. CASE AllNotesOff
    <3>1. ~part.pedal => Tidy(AfterAllNotesOff(part), ~running)
      <4>1. /\ PartOK(part) /\ Tuned(part) /\ part.arpMode # "step"
            /\ part.direction # "chord" /\ part.midi \subseteq {part.generated}
        BY DEF Tidy
      <4> QED BY <4>1, AllNotesOffTidy
    <3>2. ~part.pedal => Tidy(ChainSilenced(AfterAllNotesOff(part)), ~running)
      BY <3>1, FieldTidy DEF ChainSilenced
    <3> QED BY <2>5, <3>2 DEF AllNotesOff
  <2>6. CASE AllSoundOff
    BY <2>6, AllSoundOffTidy DEF AllSoundOff
  <2>7. CASE ResetAllControllers
    BY <2>7, FieldTidy DEF ResetAllControllers
  <2>8. CASE Start
    <3>1. ~running /\ part' = AfterStart(part) /\ running' = TRUE
      BY <1>0, <2>8 DEF Start
    <3>2. Tidy(AfterStart(part), FALSE)
      BY <2>0, <3>1, StartTidy, IdleFacts
    <3> QED BY <3>1, <3>2 DEF Tidy
  <2>9. ASSUME Tidy(part', TRUE), running' = FALSE
        PROVE  Tidy(part', ~running')
    BY <2>9 DEF Tidy
  <2>10. CASE Stop
    <3>1. Tidy(ChainSilenced(AfterStop(part)), TRUE)
      BY <2>0, StopTidy, FieldTidy DEF ChainSilenced
    <3> QED BY <2>9, <2>10, <3>1 DEF Stop
  <2>11. CASE IdleStop
    BY <2>0, <2>9, <2>11, StopTidy DEF IdleStop
  <2>12. CASE Clock
    <3>1. PICK gate \in BOOLEAN, step \in NoteSteps :
            \E arp \in ArpMoves(AfterSequencer(part, step), gate) :
               part' = AfterArpeggiator(AfterSequencer(part, step), gate, arp)
      BY <2>12 DEF Clock
    <3>2. Tidy(AfterSequencer(part, step), FALSE)
      BY <2>0, SequencerTidy
    <3>3. Tidy(part', FALSE)
      BY <3>1, <3>2, ArpeggiatorTidy
    <3> QED BY <2>12, <3>3 DEF Clock, Tidy
  <2>13. ASSUME NEW mode \in PolyModes, SetPolyMode(mode)
         PROVE  Tidy(part', ~running')
    BY <1>0, <2>13, PolyModeTidy DEF SetPolyMode
  <2>14. ASSUME NEW mode \in ArpModes, SetArpMode(mode)
         PROVE  Tidy(part', ~running')
    BY <1>0, <2>14, FieldTidy DEF SetArpMode
  <2>15. ASSUME NEW d \in ArpDirections, SetDirection(d)
         PROVE  Tidy(part', ~running')
    <3> DEFINE q == [part EXCEPT !.direction = d]
    <3>1. Tidy(q, ~running)
      BY <1>0, FieldTidy
    <3>2. part' = [q EXCEPT !.arp = RestartedArp(q)] /\ running' = running
      BY <2>15 DEF SetDirection
    <3> HIDE DEF q
    <3> QED BY <3>1, <3>2, FieldTidy
  <2>16. ASSUME NEW octs \in 1..MaxOctaves, SetOctaves(octs)
         PROVE  Tidy(part', ~running')
    BY <2>16, FieldTidy DEF SetOctaves
  <2>17. ASSUME NEW scale \in Scales, SetScale(scale)
         PROVE  Tidy(part', ~running')
    <3>1. scale \in SUBSET (0..127)
      BY NotesAssumption
    <3> QED BY <2>17, <3>1, FieldTidy DEF SetScale
  <2>18. ASSUME NEW polyMode \in PolyModes, NEW arpMode \in ArpModes, NEW d \in ArpDirections,
                NEW octs \in 1..MaxOctaves, NEW scale \in Scales,
                LoadProgram(polyMode, arpMode, d, octs, scale)
         PROVE  Tidy(part', ~running')
    BY <1>0, <2>18, LoadTidy DEF LoadProgram
  <2>19. ASSUME NEW n \in VoiceCounts, AssignVoices(n)
         PROVE  Tidy(part', ~running')
    BY <2>19, AssignTidy DEF AssignVoices
  <2>20. CASE UNCHANGED vars
    BY <2>20 DEF vars
  <2> QED
    BY <2>1, <2>2, <2>3, <2>4, <2>5, <2>6, <2>7, <2>8, <2>10, <2>11, <2>12, <2>13, <2>14,
       <2>15, <2>16, <2>17, <2>18, <2>19, <2>20 DEF Next
<1> QED
  BY <1>1, <1>2, PTL DEF Spec

\* GeneratedNoteIsRemembered holds in every reachable state: the voices and
\* MIDI out play the note that the next step will end, and no other
\* (Part::ClockSequencer, Part::ClockArpeggiator).  Generates excludes the
\* cases in which the code forgets it.
THEOREM GeneratedStaysRemembered == ASSUME Generates PROVE Spec => []GeneratedNoteIsRemembered
<1>1. TidyInv => GeneratedNoteIsRemembered
  BY SoundingPlays DEF TidyInv, Tidy, PartOK, GeneratedNoteIsRemembered
<1> QED
  BY <1>1, PartStaysTidy, PTL

\* QuietWithoutKeys holds in every reachable state: with no key pressed no
\* voice sounds (Part::NoteOff, Part::AllNotesOff).
THEOREM QuietWhenReleased == ASSUME Generates PROVE Spec => []QuietWithoutKeys
<1>1. TidyInv => QuietWithoutKeys
  BY SoundingPlays DEF TidyInv, Tidy, PartOK, QuietWithoutKeys
<1> QED
  BY <1>1, PartStaysTidy, PTL
=============================================================================
