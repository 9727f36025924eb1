------------------------------ MODULE Allocators ------------------------------
(***************************************************************************)
(* The two allocators of a part (Part::InitializeAllocators and its        *)
(* callers): the stack of keys of MONO and the voice allocator of the      *)
(* other polyphony modes reuse one block of storage ("these two data-      *)
(* structures are never used at the same time", src/controller/part.cc).   *)
(* A change of mode therefore initialises the one that is used from now    *)
(* on; the other one is given the value of an empty allocator here, as     *)
(* nothing reads it before it is initialised in its turn.                  *)
(***************************************************************************)
EXTENDS VoiceAllocatorHistory

CONSTANTS
    Capacity,       \* the capacity of the stack of keys (7)
    StackNotes      \* the notes of the keys

\* A part without voices, and the allocator that is not used.
ASSUME EmptyPoolAssumption == 0 \in Sizes

VARIABLES
    stack,          \* mono_allocator_
    mono            \* polyphony_mode() == MONO

Stack == INSTANCE NoteStack WITH Velocities <- {1}

avars == <<alloc, since, stack, mono>>

AInit ==
    /\ mono \in BOOLEAN
    /\ Stack!Init
    /\ HInit
    /\ mono => alloc = Allocator(0, FALSE)

\* InitializeAllocators(), for MONO and for the other modes.
UseStack ==
    /\ mono' = TRUE
    /\ Stack!Clear
    /\ HReinit(0, FALSE)

UsePool(size, cyclic) ==
    /\ mono' = FALSE
    /\ Stack!Clear
    /\ HReinit(size, cyclic)

\* The part uses the allocator of its mode.
StackStep ==
    /\ mono
    /\ Stack!Next
    /\ UNCHANGED <<alloc, since, mono>>

PoolNoteOn(note)  == ~mono /\ HNoteOn(note) /\ UNCHANGED <<stack, mono>>
PoolNoteOff(note) == ~mono /\ HNoteOff(note) /\ UNCHANGED <<stack, mono>>
PoolClearNotes    == ~mono /\ HClearNotes /\ UNCHANGED <<stack, mono>>
PoolClear         == ~mono /\ HClear /\ UNCHANGED <<stack, mono>>

ANext ==
    \/ UseStack
    \/ \E size \in Sizes, cyclic \in CyclicModes : UsePool(size, cyclic)
    \/ StackStep
    \/ \E note \in AllocNotes : PoolNoteOn(note) \/ PoolNoteOff(note)
    \/ PoolClearNotes
    \/ PoolClear

ASpec == AInit /\ [][ANext]_avars

-----------------------------------------------------------------------------
\* The linked list implements the stack of keys of KeyStack: presses,
\* releases, sustained releases and evictions keep every other key, its
\* velocity and its place.
ImplementsKeyStack == Stack!Keys!KeysSpec
=============================================================================
