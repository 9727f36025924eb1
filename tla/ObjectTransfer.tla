---------------------------- MODULE ObjectTransfer ----------------------------
(***************************************************************************)
(* The objects of the storage on their way from one unit to another, as    *)
(* SysEx transfers or in a file on the memory card (src/controller/        *)
(* storage.{h,cc}).  A location names a patch, a part, its sequence, a     *)
(* program or a multi; a program and a multi are sent object by object,    *)
(* each with the alias that tells the other unit which part it is for.     *)
(*                                                                         *)
(* The memory of a unit is a record: the bytes of the patch and of the     *)
(* data of each part, and those of the multi.                              *)
(***************************************************************************)
EXTENDS SysExReception

CONSTANTS
    kNumParts,
    SequenceStart,      \* the first byte of the sequence among those of a part
    HeaderReads,        \* what the expression sysex_header[i] may be, for each i
    ProgramMemory,      \* the first 256 bytes of the program memory: addresses 0 to 123 hold
                        \* the vectors of the interrupts, one jump each, and address 33 the upper
                        \* byte of one of those: JMP, or RJMP if the linker has shortened it
    Memories            \* what the two units may contain

Parts == 0..(kNumParts - 1)

VARIABLES
    mine, theirs,       \* the memories of the unit that sends and of the one that receives
    active,             \* ui.active_part() of the one that receives
    line,               \* the bytes on the MIDI cable
    file,               \* the file on the memory card
    expected            \* history: the objects that should have arrived

vars2 == <<vars, mine, theirs, active, line, file, expected>>

Location(object, part) == [object |-> object, part |-> part, alias |-> 0]

-----------------------------------------------------------------------------
(* Objects and their bytes.                                                *)

SequenceAt == SequenceStart..(SequenceStart + object_size[STORAGE_OBJECT_SEQUENCE] - 1)

\* object_data.
object_data(memory, l) ==
    CASE l.object = STORAGE_OBJECT_PATCH -> memory.patch[l.part]
      [] l.object = STORAGE_OBJECT_PART -> memory.part[l.part]
      [] l.object = STORAGE_OBJECT_MULTI -> memory.multi
      [] l.object = STORAGE_OBJECT_SEQUENCE ->
             SubSeq(memory.part[l.part], SequenceStart, Max(SequenceAt))

\* mutable_object_data, all its bytes overwritten.
Overwrite(memory, l, data) ==
    CASE l.object = STORAGE_OBJECT_PATCH -> [memory EXCEPT !.patch[l.part] = data]
      [] l.object = STORAGE_OBJECT_PART -> [memory EXCEPT !.part[l.part] = data]
      [] l.object = STORAGE_OBJECT_MULTI -> [memory EXCEPT !.multi = data]
      [] l.object = STORAGE_OBJECT_SEQUENCE ->
             [memory EXCEPT !.part[l.part] =
                [i \in DOMAIN @ |-> IF i \in SequenceAt THEN data[i - SequenceStart + 1] ELSE @[i]]]

\* ForEachObject: the objects a location stands for, in order.
ForEachObject(l) ==
    LET PatchAndPart(part, alias) ==
            << [object |-> STORAGE_OBJECT_PATCH, part |-> part, alias |-> alias],
               [object |-> STORAGE_OBJECT_PART, part |-> part, alias |-> alias] >>
    IN CASE l.object = STORAGE_OBJECT_PROGRAM -> PatchAndPart(l.part, 0)
         [] l.object = STORAGE_OBJECT_MULTI ->
                <<l>> \o FlattenSeq([i \in 1..kNumParts |-> PatchAndPart(i - 1, i)])
         [] OTHER -> <<l>>

\* The object that an object received or read is for, when this part is the target.
Destination(object, alias, part) == Location(object, IF alias = 0 THEN part ELSE alias - 1)

\* What the target should have of a location.
Copies(memory, l, part) ==
    LET objects == ForEachObject(l)
    IN {<<Destination(o.object, o.alias, part), object_data(memory, o)>> :
            o \in {objects[i] : i \in DOMAIN objects}}

-----------------------------------------------------------------------------
(* SysEx.                                                                  *)

\* sysex_header is in the program memory, and pgm_read_byte takes an address; SysExSendRaw gives it
\* sysex_header[i] for one.  This is the byte of the header where the compiler has worked it out,
\* otherwise some byte of the data memory.
HeaderSent(reads) == [i \in DOMAIN reads |-> ProgramMemory[reads[i]]]

\* SysExSendObject.
SysExSendObject(reads, o) ==
    SysExSendRaw(HeaderSent(reads), <<o.object + Reception, o.alias>>, object_data(mine, o))

\* SysExSend: "Send" in the library, or the answer to a request.
SysExSend(l) ==
    /\ line = <<>>
    /\ \E reads \in HeaderReads :
         line' = FlattenSeq([i \in DOMAIN ForEachObject(l) |->
                                SysExSendObject(reads, ForEachObject(l)[i])])
    /\ expected' = Copies(mine, l, active)
    /\ UNCHANGED <<vars, mine, theirs, active, file>>

\* SysExAcceptCommand, when the command is the reception of an object.
SysExAcceptCommand(r) ==
    Overwrite(theirs, Destination(r.command[1] - Reception, r.command[2], active), Payload(r))

\* A byte reaches the other unit, with the reception of SysEx on.
Carry ==
    /\ line # <<>>
    /\ line' = Tail(line)
    /\ Receive(Head(line), TRUE)
    /\ theirs' = IF Accepts /\ rx'.command[1] \in Receptions THEN SysExAcceptCommand(Whole')
                 ELSE theirs
    /\ UNCHANGED <<mine, active, file, expected>>

-----------------------------------------------------------------------------
(* Files.                                                                  *)

\* A chunk: its tag and its size, what it is the object of, and its bytes.
kOverhead == 12
RIFFWriteObject(o) ==
    [size |-> object_size[o.object] + 4, object |-> o.object + 1, alias |-> o.alias,
     data |-> object_data(mine, o)]

\* riff_size, the size of the chunks as the head of the file announces it.
riff_size(l) ==
    LET program == object_size[STORAGE_OBJECT_PATCH] + kOverhead
                   + object_size[STORAGE_OBJECT_PART] + kOverhead
    IN CASE l.object = STORAGE_OBJECT_MULTI ->
                program * kNumParts + object_size[STORAGE_OBJECT_MULTI] + kOverhead
         [] l.object = STORAGE_OBJECT_PROGRAM -> program
         [] OTHER -> object_size[l.object] + kOverhead

\* Save, on the first unit.
Save(l) ==
    /\ line = <<>>
    /\ file' = [object |-> l.object, size |-> riff_size(l), copies |-> Copies(mine, l, active),
                chunks |-> [i \in DOMAIN ForEachObject(l) |-> RIFFWriteObject(ForEachObject(l)[i])]]
    /\ UNCHANGED <<vars, mine, theirs, active, line, expected>>

\* Load, on the second unit, of a file of the library for that object; a chunk whose size is not
\* that of its object is skipped.
Read(memory, chunk) ==
    LET l == Destination(chunk.object - 1, chunk.alias, active)
    IN IF chunk.size - 4 = object_size[l.object] THEN Overwrite(memory, l, chunk.data) ELSE memory

Load ==
    /\ line = <<>> /\ file.chunks # <<>>
    /\ theirs' = FoldLeft(Read, theirs, file.chunks)
    /\ expected' = file.copies
    /\ UNCHANGED <<vars, mine, active, line, file>>

-----------------------------------------------------------------------------
TransferInit ==
    /\ RxInit
    /\ mine \in Memories /\ theirs \in Memories
    /\ active \in Parts
    /\ line = <<>>
    /\ file = [object |-> 0, size |-> 0, copies |-> {}, chunks |-> <<>>]
    /\ expected = {}

TransferNext ==
    \/ \E object \in Objects, part \in Parts :
          SysExSend(Location(object, part)) \/ Save(Location(object, part))
    \/ Carry
    \/ Load

TransferSpec == TransferInit /\ [][TransferNext]_vars2

-----------------------------------------------------------------------------
\* What a unit sends or saves is what the other one has once it has arrived: each object in its
\* own part, or in the active one when one part is sent.  The transfer begins with the header
\* that the comments at storage.cc:45-47 spell out.
ObjectsArrive == line = <<>> => \A copy \in expected : object_data(theirs, copy[1]) = copy[2]
=============================================================================
