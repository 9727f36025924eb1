------------------------ MODULE VoiceAllocatorHistory ------------------------
(***************************************************************************)
(* VoiceAllocator with a history variable that says, for each voice, which *)
(* voices were used after it, and the refinement mapping to VoicePool.     *)
(* The history is built from the calls alone, so it checks that lru_ is    *)
(* the order of use the comments of VoiceAllocator::NoteOn speak of.       *)
(***************************************************************************)
EXTENDS VoiceAllocator

VARIABLE since          \* since[v]: the voices used after v was used last

\* The voices one after the other, voice 0 first: Clear's order of use.
NeverUsed(n) == [v \in 0..(n - 1) |-> (v + 1)..(n - 1)]

Use(voice) ==
    since' = [v \in VoicesOf(alloc) |->
                 IF v = voice THEN {} ELSE since[v] \cup {voice}]

\* A NoteOn uses the voice it returns.  A NoteOff uses the voice it releases,
\* except in cyclic mode, which does not call Touch.
UseOnNoteOn(note) ==
    IF alloc.size = 0 THEN UNCHANGED since ELSE Use(VoiceFor(alloc, note))

UseOnNoteOff(note) ==
    IF IsCyclic(alloc) \/ Find(alloc, note) = None
    THEN UNCHANGED since
    ELSE Use(Find(alloc, note))

HInit == Init /\ since = NeverUsed(alloc.size)

HReinit(size, cyclic) == Reinit(size, cyclic) /\ since' = NeverUsed(size)
HNoteOn(note)  == NoteOn(note) /\ UseOnNoteOn(note)
HNoteOff(note) == NoteOff(note) /\ UseOnNoteOff(note)
HClearNotes    == ClearNotes /\ UNCHANGED since
HClear         == Clear /\ since' = NeverUsed(alloc.size)

HNext ==
    \/ \E size \in Sizes, cyclic \in CyclicModes : HReinit(size, cyclic)
    \/ \E note \in AllocNotes : HNoteOn(note) \/ HNoteOff(note)
    \/ HClearNotes
    \/ HClear

hvars == <<alloc, since>>

HSpec == HInit /\ [][HNext]_hvars

-----------------------------------------------------------------------------
\* lru_ is exactly the order in which the voices were used, across steals,
\* releases, retriggers and clears ("Holds the indices of the voices sorted
\* by most recent usage", src/controller/voice_allocator.h).
LruIsOrderOfUse ==
    \A i \in VoicesOf(alloc) :
        since[alloc.lru[i]] = {alloc.lru[j] : j \in 0..(i - 1)}

Playing == [v \in VoicesOf(alloc) |-> IF alloc.pool[v].active THEN alloc.pool[v].note ELSE None]

Pool == INSTANCE VoicePool WITH PoolNotes <- AllocNotes, PoolSizes <- Sizes, playing <- Playing

\* Outside cyclic mode the allocator implements VoicePool: whatever has
\* happened before, in cyclic mode too, each step that ends outside cyclic
\* mode is a step of a pool of voices.  And the order by which it chooses
\* among them is their order of use.
ImplementsPool ==
    /\ ~IsCyclic(alloc) => Pool!PoolInit
    /\ [][~IsCyclic(alloc') => [Pool!PoolNext]_Playing]_hvars
    /\ []LruIsOrderOfUse
=============================================================================
