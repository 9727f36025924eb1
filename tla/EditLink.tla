------------------------------ MODULE EditLink ------------------------------
(***************************************************************************)
(* Edits sent over MIDI: each edit of a part goes out as NRPN messages     *)
(* (MidiDispatcher::OnEdit), through an output buffer that loses messages  *)
(* when it is full, to the parts of another unit (Part::ControlChange).    *)
(* The address is sent again only when it changes, or once in a while: the *)
(* edits of a part on another channel may find no address there.           *)
(* The other unit may hear other controllers on the same channel, and its  *)
(* player may reset or randomize a part.                                   *)
(***************************************************************************)
EXTENDS Parameters, FiniteSets

CONSTANTS
    kNumParts,
    OutRoom,                \* messages the output buffer holds
    kDataEntryResendRate,   \* edits after which the address is sent again (32)
    Draws                   \* random bytes: bound

ASSUME EditLinkAssumption ==
    /\ kNumParts \in Nat \ {0} /\ OutRoom \in Nat \ {0} /\ kDataEntryResendRate \in Nat \ {0}
    /\ Draws \subseteq 0..255

Parts == 0..(kNumParts - 1)

VARIABLES
    sender,     \* the dispatcher, and history: the channel its address went to, the last edit,
                \* the edits since the other unit may have missed something, and how often
                \* something came to it from elsewhere
    wire,       \* the output buffer and the MIDI line
    far         \* the other unit: for each part, what its ControlChange keeps

editVars == <<sender, wire, far>>

\* The bytes of a part, the patch first, after InitSettings; values has those that differ.
kDefaults == init_patch_params \o init_part_params
GetValue(part, address) ==
    IF address \in DOMAIN part.values THEN part.values[address] ELSE kDefaults[address + 1]

NoEdit == [part |-> 0, address |-> kNoParameter, value |-> 0]

NewSender ==
    [address |-> 255, counter |-> 0, channel |-> 0, last |-> NoEdit,
     since |-> kDataEntryResendRate, others |-> 0]

EditInit ==
    /\ sender = NewSender
    /\ wire = <<>>
    /\ far = [p \in Parts |-> [nrpn |-> 0, nrpn_msb |-> 0, data_msb |-> 0, values |-> <<>>]]

-----------------------------------------------------------------------------
(* Sending.                                                                *)

msb(x) == IF x >= 128 THEN 1 ELSE 0
U7(x) == x % 128

Message(channel, controller, value) ==
    [channel |-> channel, controller |-> controller, value |-> value]

\* Polyphony mode CHAIN is POLY for the unit at the end of the chain.
kPolyphonyModeAddress == 127
Remapped(mode, address, value) ==
    IF mode = "chain" /\ address = kPolyphonyModeAddress /\ value = PolyphonyMode.CHAIN
    THEN PolyphonyMode.POLY ELSE value

\* Fault: the address is sent again only when it changes.
NeedsAddress_Changed(s, address) == s.address # address

NeedsAddress(s, address) == s.address # address \/ s.counter + 1 >= kDataEntryResendRate

kDataEntryMsb == 6
kDataEntryLsb == 38
kDataIncrement == 96
kDataDecrement == 97
kNrpnLsb == 98
kNrpnMsb == 99

AddressMessages(channel, address) ==
    << Message(channel, kNrpnMsb, msb(address)), Message(channel, kNrpnLsb, U7(address)) >>

DataMessages(channel, value) ==
    << Message(channel, kDataEntryMsb, msb(value)), Message(channel, kDataEntryLsb, U7(value)) >>

\* The class of the buffer is not in this repository: when it is full, Overwrite may lose
\* the new message or all those that wait.  Pairs of the buffer and of whether it lost.
Overwritten(b, m) ==
    IF Len(b[1]) < OutRoom THEN {<<Append(b[1], m), b[2]>>}
    ELSE {<<b[1], TRUE>>, <<<<m>>, TRUE>>}

Sent(messages) ==
    LET after[n \in 0..Len(messages)] ==
            IF n = 0 THEN {<<wire, FALSE>>}
            ELSE UNION {Overwritten(b, messages[n]) : b \in after[n - 1]}
    IN after[Len(messages)]

\* MidiDispatcher::OnEdit, in the modes of MIDI_OUT_CONTROLLER and above.
OnEdit(mode, channel, part, address, edited) ==
    LET value == Remapped(mode, address, edited)
        addressed == NeedsAddress(sender, address)
        messages == (IF addressed THEN AddressMessages(channel, address) ELSE <<>>)
                    \o DataMessages(channel, value)
    IN \E b \in Sent(messages) :
         /\ wire' = b[1]
         /\ sender' = [sender EXCEPT
               !.address = IF addressed THEN address ELSE @,
               !.counter = IF addressed THEN 0 ELSE @ + 1,
               !.channel = IF addressed THEN channel ELSE @,
               !.last = [part |-> part, address |-> address, value |-> value],
               !.since = IF b[2] \/ (~addressed /\ channel # sender.channel) THEN 0
                         ELSE IF @ >= kDataEntryResendRate THEN @ ELSE @ + 1]
         /\ UNCHANGED far

\* The unit is turned on, with nothing on the wire; and the parts move to other channels.
Restarted ==
    /\ sender' = [NewSender EXCEPT !.others = sender.others] /\ wire' = <<>>
    /\ UNCHANGED far
Rechannelled == sender' = [sender EXCEPT !.since = 0] /\ UNCHANGED <<wire, far>>

-----------------------------------------------------------------------------
(* Receiving: Part::ControlChange, but for the pedals and the wheel, with  *)
(* system_settings.rx_nrpn() and rx_cc() on.                               *)

\* Part::SetValue, not user initiated.
SetByte(part, address, value) ==
    [part EXCEPT !.values = [a \in DOMAIN @ \cup {address} |-> IF a = address THEN value ELSE @[a]]]

\* Data entry and data increment, when the address is that of a parameter or of the sequence.
Addressed(part) == parameter(AddressToParameterId(part.nrpn))
Edited(part, value) ==
    IF AddressToParameterId(part.nrpn) = kNoParameter THEN part
    ELSE SetByte(part, part.nrpn, value)

\* Any other controller may stand for an instance of a parameter.
Controlled(part, controller, value) ==
    LET id == ControlChangeToParameterId(controller)
        p == parameter(id)
    IN IF id = kNoParameter THEN part
       ELSE SetByte(part, Address(p, InstanceOfController(p, controller)), Scale(p, value))

AfterControlChange(part, m) ==
    CASE m.controller = kDataEntryMsb -> [part EXCEPT !.data_msb = IF m.value = 0 THEN 0 ELSE 128]
      [] m.controller = kNrpnLsb ->
             [part EXCEPT !.nrpn = m.value + part.nrpn_msb, !.nrpn_msb = 0, !.data_msb = 0]
      [] m.controller = kNrpnMsb ->
             [part EXCEPT !.nrpn_msb = IF m.value = 0 THEN 0 ELSE 128, !.data_msb = 0]
      [] m.controller = kDataEntryLsb ->
             Edited(part, Clamp(Addressed(part), m.value + part.data_msb))
      [] m.controller = kDataIncrement ->
             Edited(part, Increment(Addressed(part), GetValue(part, part.nrpn), 1))
      [] m.controller = kDataDecrement ->
             Edited(part, Increment(Addressed(part), GetValue(part, part.nrpn), -1))
      [] OTHER -> Controlled(part, m.controller, m.value)

\* Multi::ControlChange: the parts that listen to the channel.
ControlChange(m, listening) ==
    far' = [p \in Parts |-> IF p \in listening THEN AfterControlChange(far[p], m) ELSE far[p]]

Deliver(listening) ==
    /\ wire # <<>>
    /\ ControlChange(Head(wire), listening)
    /\ wire' = Tail(wire)
    /\ UNCHANGED sender

Others == [sender EXCEPT !.since = 0, !.others = @ + 1]

\* A message of another device that the other unit listens to.
DeliverOther(m, listening) ==
    /\ ControlChange(m, listening)
    /\ sender' = Others
    /\ UNCHANGED wire

-----------------------------------------------------------------------------
(* Part::InitPatch, InitSequence and InitSettings of the other unit.       *)

PatchBytes == 0..(kPatchSize - 1)
PartBytes == kPatchSize..(kPatchSize + kPartSize - 1)
SequenceBytes == PartParameter["PART_ARP_DIRECTION"]..(PartParameter["PART_ARP_DIRECTION"] + 71)

Loaded(part, bytes) ==
    [part EXCEPT !.values = [a \in DOMAIN @ \ bytes |-> @[a]]]

\* RandomizeRange, when every byte drawn is the same: bound.
RandomizeRange(part, bytes, draw) ==
    LET known == {a \in bytes : AddressToParameterId(a) # kNoParameter}
    IN [part EXCEPT !.values =
          [a \in DOMAIN @ \cup known |->
              IF a \in known THEN RandomValue(parameter(AddressToParameterId(a)), draw) ELSE @[a]]]

Initialized(part, bytes) ==
    {Loaded(part, bytes)} \cup {RandomizeRange(part, bytes, draw) : draw \in Draws}

InitPart(p, what) ==
    /\ far' \in {[far EXCEPT ![p] = new] :
                    new \in CASE what = "patch" -> Initialized(far[p], PatchBytes)
                              [] what = "sequence" -> Initialized(far[p], SequenceBytes)
                              [] what = "part" -> Initialized(far[p], PatchBytes \cup PartBytes)}
    /\ sender' = Others
    /\ UNCHANGED wire

-----------------------------------------------------------------------------
\* The other unit follows: when everything sent has arrived, it has the value last edited
\* under its own address.  After messages were lost or came from elsewhere, after the parts
\* changed their channels, and when the same address is edited on another channel, where it
\* was not sent, the edits go astray no longer than kDataEntryResendRate of them
\* (midi_dispatcher.h, OnEdit).
EditsArrive ==
    (/\ wire = <<>> /\ sender.since >= kDataEntryResendRate /\ sender.last # NoEdit)
    => GetValue(far[sender.last.part], sender.last.address) = sender.last.value

\* Whatever is edited, sent by any device, reset or drawn at random, in whatever order, each
\* byte of a part stays in the range of the member it is, wherever the maps of MIDI say it is.
\* The voicecards index tables with these bytes, and nothing there looks at the range (part.cc,
\* parameter.cc); and every instance of a parameter is at the address of its member.
kMembers == LayoutOf("part")
kParametersAt ==
    [a \in PatchBytes \cup PartBytes |->
        {p \in ToSet(ParameterTable) : p.name = kMembers[a + 1][1]}]
InRange(address, value) == \A p \in kParametersAt[address] : Within(p, Signed(p, value))
DefaultsInRange == \A a \in PatchBytes \cup PartBytes : InRange(a, kDefaults[a + 1])
OffsetsMatchMembers ==
    \A p \in ToSet(ParameterTable) : \A k \in 0..(p.num_instances - 1) :
        LayoutOf(p.level)[Address(p, k) + 1] = <<p.name, k>>
BytesStayInRange ==
    /\ DefaultsInRange
    /\ OffsetsMatchMembers
    /\ \A p \in Parts : \A a \in DOMAIN far[p].values :
           a \in PatchBytes \cup PartBytes /\ InRange(a, far[p].values[a])

=============================================================================
