------------------------------ MODULE NoteStack ------------------------------
(***************************************************************************)
(* The stack of pressed keys (src/controller/note_stack.h): a linked list  *)
(* threaded through a fixed pool of nodes, most recent note first, and an  *)
(* array that lists the same nodes by ascending pitch.  A stack is a       *)
(* record                                                                  *)
(*                                                                         *)
(*   root    root_ptr_, the slot of the most recent note, 0 if there is    *)
(*           none                                                          *)
(*   pool    pool_[1..capacity]; pool_[0] is a dummy that never changes    *)
(*   sorted  sorted_ptr_[0..size_-1]; size_ is its length                  *)
(*                                                                         *)
(* Bit 7 of a velocity is the mark a part sets on a note released under    *)
(* the sustain pedal; it is the field flagged.                             *)
(*                                                                         *)
(* A definition whose name has an underscore is a faulty variant of the    *)
(* one that follows it: the properties are tested against these faults.    *)
(***************************************************************************)
EXTENDS Integers, SequencesExt

CONSTANTS
    Capacity,       \* the template parameter: 12 for pressed keys, 7 in MONO
    StackNotes,     \* the notes pressed
    Velocities      \* the velocities they are pressed with

VARIABLE stack

FreeSlot == 255                                 \* kFreeSlot

Slots == 1..Capacity

FreeEntry == [note |-> FreeSlot, velocity |-> 0, flagged |-> FALSE, next |-> 0]

\* Clear: every slot is free.
EmptyStack ==
    [root |-> 0, pool |-> [i \in Slots |-> FreeEntry], sorted |-> <<>>]

Size(s) == Len(s.sorted)

-----------------------------------------------------------------------------
(* Reading the list.                                                       *)

\* The slots of `order` are the ones met from root_ptr_ along next_ptr.
Threads(s, order) ==
    /\ s.root = IF order = <<>> THEN 0 ELSE order[1]
    /\ \A i \in DOMAIN order :
          s.pool[order[i]].next = IF i = Len(order) THEN 0 ELSE order[i + 1]

Listing(s) ==
    CHOOSE order \in SeqOf(Slots, Capacity) : IsInjective(order) /\ Threads(s, order)

NoteAt(s, slot) == s.pool[slot].note

\* The place in `order` of the first slot that holds the note, or 0.
PlaceOf(s, order, note) ==
    LET hits == {i \in DOMAIN order : NoteAt(s, order[i]) = note}
    IN  IF hits = {} THEN 0 ELSE Min(hits)

\* most_recent_note().note: with an empty stack, the dummy's.
MostRecentNote(s) == IF s.root = 0 THEN FreeSlot ELSE NoteAt(s, s.root)

\* played_note(index).note and sorted_note(index).note
PlayedNote(s, index) == NoteAt(s, Listing(s)[Size(s) - index])
SortedNote(s, index) == NoteAt(s, s.sorted[index + 1])

FlaggedNotes(s) == {NoteAt(s, i) : i \in {j \in Slots : s.pool[j].flagged}}

-----------------------------------------------------------------------------
(* NoteOff: unlink the note's slot, close the gap in sorted_ptr_, free it. *)

AfterNoteOff(s, note) ==
    LET order == Listing(s)
        place == PlaceOf(s, order, note)
        slot == order[place]
        next == s.pool[slot].next
        linked == IF place = 1 THEN s.pool
                  ELSE [s.pool EXCEPT ![order[place - 1]].next = next]
    IN  IF place = 0
        THEN s
        ELSE [ root   |-> IF place = 1 THEN next ELSE s.root,
               pool   |-> [linked EXCEPT ![slot] = FreeEntry],
               sorted |-> RemoveAt(s.sorted, CHOOSE i \in DOMAIN s.sorted : s.sorted[i] = slot) ]

-----------------------------------------------------------------------------
(* NoteOn.                                                                 *)

LeastRecentNote_Newest(s) == NoteAt(s, s.root)

\* The loop over the pool of a full stack keeps the last slot that ends a list.
LeastRecentNote(s) == NoteAt(s, Max({i \in Slots : s.pool[i].next = 0}))

\* A note that is there already goes first, else, in a full stack, the oldest.
WithRoomFor(s, note) ==
    LET t == AfterNoteOff(s, note)
    IN  IF Size(t) = Capacity THEN AfterNoteOff(t, LeastRecentNote(t)) ELSE t

\* The index at which sorted_ptr_ takes a slot for the note.
InsertionPoint(s, note) ==
    Min({i \in 1..Size(s) : NoteAt(s, s.sorted[i]) > note} \cup {Size(s) + 1})

Push(s, note, velocity) ==
    LET slot == Min({i \in Slots : NoteAt(s, i) = FreeSlot})
    IN  [ root   |-> slot,
          pool   |-> [s.pool EXCEPT ![slot] =
                         [note |-> note, velocity |-> velocity,
                          flagged |-> FALSE, next |-> s.root]],
          sorted |-> InsertAt(s.sorted, InsertionPoint(s, note), slot) ]

AfterNoteOn(s, note, velocity) == Push(WithRoomFor(s, note), note, velocity)

\* What Part::NoteOff does through mutable_note while the pedal is down.
AfterFlag(s, note) ==
    [s EXCEPT !.pool = [i \in Slots |->
        IF NoteAt(s, i) = note /\ s.pool[i].velocity # 0
        THEN [s.pool[i] EXCEPT !.flagged = TRUE]
        ELSE s.pool[i]]]

-----------------------------------------------------------------------------
(* The state machine.                                                      *)

Init == stack = EmptyStack

NoteOn(note, velocity) == stack' = AfterNoteOn(stack, note, velocity)
NoteOff(note)          == stack' = AfterNoteOff(stack, note)
Flag(note)             == stack' = AfterFlag(stack, note)
Clear                  == stack' = EmptyStack

Next ==
    \/ \E note \in StackNotes, velocity \in Velocities : NoteOn(note, velocity)
    \/ \E note \in StackNotes : NoteOff(note) \/ Flag(note)
    \/ Clear

Spec == Init /\ [][Next]_stack

-----------------------------------------------------------------------------
(* Correctness.                                                            *)

Entry == [note : StackNotes \cup {FreeSlot}, velocity : Velocities \cup {0},
          flagged : BOOLEAN, next : Slots \cup {0}]

\* Every pointer is null or a slot of the pool.
TypeOK ==
    /\ stack.root \in Slots \cup {0}
    /\ stack.pool \in [Slots -> Entry]
    /\ stack.sorted \in Seq(Slots) /\ Size(stack) <= Capacity

-----------------------------------------------------------------------------
(* The abstract stack of keys.                                             *)

\* The keys in the order of the list.
Held ==
    LET order == Listing(stack)
    IN  [i \in 1..Len(order) |->
            [note     |-> stack.pool[order[i]].note,
             velocity |-> stack.pool[order[i]].velocity,
             flagged  |-> stack.pool[order[i]].flagged]]

Keys == INSTANCE KeyStack WITH
    KeyNotes <- StackNotes,
    KeyVelocities <- Velocities,
    held <- Held

\* The linked list implements the stack of keys: presses, releases, sustained
\* releases and evictions keep every other key, its velocity and its place.
ImplementsKeyStack == Keys!KeysSpec
=============================================================================
