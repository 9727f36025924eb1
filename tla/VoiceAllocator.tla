---------------------------- MODULE VoiceAllocator ----------------------------
(***************************************************************************)
(* The polyphonic voice allocator of a part (src/controller/               *)
(* voice_allocator.{h,cc}).  An allocator hands out the indices 0..size-1  *)
(* of a part's voices.  It is a record                                     *)
(*                                                                         *)
(*   size    number of allocatable voices (size_)                          *)
(*   pool    for each voice the byte of pool_: the low seven bits are the  *)
(*           note, bit 7 says that the note is active                      *)
(*   lru     lru_: the voices, most recently touched first                 *)
(*   cyclic  cyclic_allocator_: 0xff, or the last voice handed out when    *)
(*           the allocator runs in cyclic mode                             *)
(*                                                                         *)
(* The operators of the class are functions on that record, because        *)
(* Part.tla calls several of them in one step.  The state machine below    *)
(* lets a part call them in any order.                                     *)
(*                                                                         *)
(* A definition whose name has an underscore is a faulty variant of the    *)
(* one that follows it: the properties are tested against these faults.    *)
(***************************************************************************)
EXTENDS Integers, FiniteSetsExt

CONSTANTS
    AllocNotes,     \* the MIDI notes that are played
    Sizes,          \* the pool sizes a part may ask for
    CyclicModes     \* the values of Init's cyclic_mode argument

\* ClearNotes fills the pool with zeros and a cyclic NoteOff with 0xff, so
\* notes 0 and 127 appear in the pool whether or not they are played.
ASSUME AllocNotesAssumption == AllocNotes \subseteq 0..127 /\ {0, 127} \subseteq AllocNotes
ASSUME SizesAssumption == Sizes # {} /\ Sizes \subseteq 0..12
ASSUME CyclicModesAssumption == CyclicModes # {} /\ CyclicModes \subseteq BOOLEAN

VARIABLE alloc

None == 255                                     \* 0xff: no such voice

VoicesOf(a) == 0..(a.size - 1)

Inactive(note) == [note |-> note, active |-> FALSE]
Active(note) == [note |-> note, active |-> TRUE]

\* Init and Clear: every byte of the pool is zero, voice 0 is the oldest.
Allocator(size, cyclic) ==
    [ size   |-> size,
      pool   |-> [v \in 0..(size - 1) |-> Inactive(0)],
      lru    |-> [i \in 0..(size - 1) |-> size - i - 1],
      cyclic |-> IF cyclic THEN 0 ELSE None ]

IsCyclic(a) == a.cyclic # None

-----------------------------------------------------------------------------
(* Look-ups.                                                               *)

Lowest(S) == IF S = {} THEN None ELSE Min(S)

\* Find compares the low seven bits only: it also finds a released voice
\* that played the note last.
Find(a, note) == Lowest({v \in VoicesOf(a) : a.pool[v].note = note})

FindActive(a, note) == Lowest({v \in VoicesOf(a) : a.pool[v] = Active(note)})

Idle(a) == {v \in VoicesOf(a) : ~a.pool[v].active}

\* The loops over lru_ keep the last match: the member of S touched longest ago.
LeastRecent(a, S) == a.lru[Max({i \in VoicesOf(a) : a.lru[i] \in S})]

VoiceFor_StealsTooSoon(a, note) ==
    IF IsCyclic(a)
    THEN IF a.cyclic + 1 >= a.size THEN 0 ELSE a.cyclic + 1
    ELSE IF Find(a, note) # None THEN Find(a, note) ELSE LeastRecent(a, VoicesOf(a))

\* The voice NoteOn returns.
VoiceFor(a, note) ==
    IF IsCyclic(a)
    THEN IF a.cyclic + 1 >= a.size THEN 0 ELSE a.cyclic + 1
    ELSE IF Find(a, note) # None
         THEN Find(a, note)
         ELSE LeastRecent(a, IF Idle(a) # {} THEN Idle(a) ELSE VoicesOf(a))

-----------------------------------------------------------------------------
(* Updates.                                                                *)

Position(a, voice) == CHOOSE i \in VoicesOf(a) : a.lru[i] = voice

\* Touch moves a voice to the front of lru_ and shifts the ones before it.
Touch(a, voice) ==
    [i \in VoicesOf(a) |-> IF i = 0 THEN voice
                           ELSE IF i <= Position(a, voice) THEN a.lru[i - 1]
                           ELSE a.lru[i]]

AfterNoteOn(a, note) ==
    LET voice == VoiceFor(a, note)
    IN  IF a.size = 0
        THEN a
        ELSE [ size   |-> a.size,
               pool   |-> [a.pool EXCEPT ![voice] = Active(note)],
               lru    |-> Touch(a, voice),
               cyclic |-> IF IsCyclic(a) THEN voice ELSE a.cyclic ]

AfterNoteOff(a, note) ==
    LET voice == Find(a, note)
    IN  IF voice = None
        THEN a
        ELSE IF IsCyclic(a)
             THEN [a EXCEPT !.pool = [a.pool EXCEPT ![voice] = Active(127)]]
             ELSE [a EXCEPT !.pool = [a.pool EXCEPT ![voice] = Inactive(note)],
                            !.lru = Touch(a, voice)]

\* ClearNotes forgets the notes but keeps the order of use.
AfterClearNotes(a) == [a EXCEPT !.pool = [v \in VoicesOf(a) |-> Inactive(0)]]

\* Clear also puts lru_ back in its initial order (cyclic_allocator_ stays).
AfterClear(a) == [Allocator(a.size, FALSE) EXCEPT !.cyclic = a.cyclic]

-----------------------------------------------------------------------------
(* The state machine: a part calls the allocator.                          *)

Init == \E size \in Sizes, cyclic \in CyclicModes : alloc = Allocator(size, cyclic)

Reinit(size, cyclic) == alloc' = Allocator(size, cyclic)
NoteOn(note)  == alloc' = AfterNoteOn(alloc, note)
NoteOff(note) == alloc' = AfterNoteOff(alloc, note)
ClearNotes    == alloc' = AfterClearNotes(alloc)
Clear         == alloc' = AfterClear(alloc)

Next ==
    \/ \E size \in Sizes, cyclic \in CyclicModes : Reinit(size, cyclic)
    \/ \E note \in AllocNotes : NoteOn(note) \/ NoteOff(note)
    \/ ClearNotes
    \/ Clear

Spec == Init /\ [][Next]_alloc

-----------------------------------------------------------------------------
(* Correctness.                                                            *)

PoolEntry == [note : AllocNotes, active : BOOLEAN]

\* Every index stored in the allocator is one of its own voices, so a part
\* never reads outside allocated_voices_.
TypeOK ==
    /\ alloc.size \in Sizes
    /\ alloc.pool \in [VoicesOf(alloc) -> PoolEntry]
    /\ alloc.lru \in [VoicesOf(alloc) -> VoicesOf(alloc)]
    /\ alloc.cyclic \in VoicesOf(alloc) \cup {0, None}

\* lru_ always lists every voice exactly once: Touch neither loses nor
\* duplicates a voice, so the loops over lru_ in NoteOn always find one.
LruIsPermutation ==
    /\ \A i, j \in VoicesOf(alloc) : alloc.lru[i] = alloc.lru[j] => i = j
    /\ \A v \in VoicesOf(alloc) : \E i \in VoicesOf(alloc) : alloc.lru[i] = v

\* Two pool entries hold the same note only if the later one is a zero left
\* by ClearNotes.  This is what makes Find and FindActive agree.
PoolEntriesDistinct ==
    ~IsCyclic(alloc) =>
        \A v, w \in VoicesOf(alloc) :
            v < w /\ alloc.pool[v].note = alloc.pool[w].note
                => alloc.pool[w] = Inactive(0)

\* Outside cyclic mode a note is active on at most one voice, however notes,
\* releases and clears interleave (NoteOn reuses the voice Find returns).
NoteOnOneVoice ==
    ~IsCyclic(alloc) =>
        \A v, w \in VoicesOf(alloc) :
            alloc.pool[v].active /\ alloc.pool[v] = alloc.pool[w] => v = w

\* Outside cyclic mode NoteOff, which calls Find and not FindActive, never
\* picks a voice that merely played the note earlier while another one is
\* sounding it: a released key always silences its own voice.
FindSeesActive ==
    ~IsCyclic(alloc) =>
        \A note \in AllocNotes :
            FindActive(alloc, note) # None => Find(alloc, note) = FindActive(alloc, note)

\* The inductive invariant behind the two properties above.
AllocInv == TypeOK /\ LruIsPermutation /\ PoolEntriesDistinct
=============================================================================
