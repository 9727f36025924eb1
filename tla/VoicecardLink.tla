---------------------------- MODULE VoicecardLink ----------------------------
(***************************************************************************)
(* The SPI link between the controller and the voicecards                  *)
(* (src/controller/voicecard_tx.{h,cc}, src/voicecard/voicecard_rx.h).     *)
(*                                                                         *)
(* Controller.  The main loop puts bytes in two buffers, one for the cards *)
(* of even number and one for the others; the timer interrupt sends from   *)
(* one of them at odd ticks and from the other at even ticks.  Some        *)
(* operations wait for the buffers to be empty and drive the bus           *)
(* themselves.  `todo` is what remains of the operation in progress, as a  *)
(* sequence of instructions:                                               *)
(*     put      Write: one byte into the buffer of the card                *)
(*     flush    FlushBuffers                                               *)
(*     delay    ConstantDelay, in controller ticks still to wait           *)
(*     spi      a byte written on the bus by the main loop                 *)
(*     block    the same, for the size and the data of a block             *)
(*     ask      the same, for the byte it reads back                       *)
(*     sd       the SD card takes the bus, or gives it back                *)
(*                                                                         *)
(* Voicecard.  Its own timer interrupt polls the SPI data register, which  *)
(* holds one byte, and moves it to a buffer; its main loop parses the      *)
(* buffer after each block of audio samples.  A card executing BULK_SEND   *)
(* stops its timer and reads the data register in a tight loop.            *)
(*                                                                         *)
(* The timers of the controller and of the cards run at the same nominal   *)
(* rate but are not synchronised.                                          *)
(*                                                                         *)
(* A definition whose name has an underscore is a faulty variant of the    *)
(* one that follows it: the properties are tested against these faults.    *)
(***************************************************************************)
EXTENDS Integers, SequencesExt

CONSTANTS
    kNumVoices,     \* the number of voicecards
    Capacity,       \* what a transmission buffer holds (31 entries)
    Messages,       \* the commands sent through the buffers
    BlockData,      \* the data of a block (a patch)
    MaxPending,     \* bound: commands issued and not executed, for all cards
    MaxLag,         \* controller ticks that a card goes without polling
    MaxAge,         \* polls that a card goes without parsing its buffer
    BlockDelay,     \* ConstantDelay(5), in controller ticks
    PauseDelay,     \* ConstantDelay(1), in controller ticks
    SettleDelay,    \* ticks from a transaction to the next command: nothing
                    \* in the code enforces them, but the callers go on with
                    \* the display or with reading the EEPROM
    PartialFrames   \* bytes missing to the command a card is in at power up

ASSUME LinkAssumption ==
    /\ kNumVoices \in Nat \ {0} /\ Capacity \in Nat \ {0}
    /\ MaxLag \in Nat \ {0} /\ MaxAge \in Nat \ {0}
    /\ BlockDelay \in Nat /\ PauseDelay \in Nat /\ SettleDelay \in Nat
    /\ Messages \subseteq Seq(0..255) /\ BlockData \in Seq(0..255) /\ Len(BlockData) \in 1..255
    /\ PartialFrames \subseteq 0..3

VARIABLES
    todo,       \* the rest of the controller's operation
    tx,         \* even_buffer_ and odd_buffer_
    flop,       \* the flip-flop of SendBytes
    sdBusy,     \* the bus belongs to the SD card
    cards,      \* the state of each voicecard
    lag,        \* for each card, controller ticks since it last polled
    age,        \* for each card, polls since its buffer was last empty
    stale,      \* for each card: in a command it was receiving at power up
    pending,    \* for each card, commands issued and not yet executed
    executed    \* for each card, the last command executed, and its parity

linkvars == <<todo, tx, flop, sdBusy, cards, lag, age, stale, pending, executed>>

Cards == 0..(kNumVoices - 1)

BULK_SEND == 0
NOTE_ON == 16
WRITE_PATCH_DATA == 32
WRITE_LFO == 80
RELEASE == 96
GET_SLAVE_ID == 252
SYNC == 255

Idle == 255         \* what a card replies when it has nothing to say
SlaveId == 1

\* The number of bytes that follow a command.
ArgumentCount(b) ==
    CASE b \in 16..31 -> 3
      [] b \in 32..79 -> 2
      [] b \in 80..95 -> 1
      [] OTHER -> 0

Parity(c) == c % 2

-----------------------------------------------------------------------------
(* The operations of the controller, as sequences of instructions.         *)

Put(c, b)   == [card |-> c, op |-> "put", byte |-> b]
Spi(c, b)   == [card |-> c, op |-> "spi", byte |-> b]
Block(c, b) == [card |-> c, op |-> "block", byte |-> b]
Ask(c)      == [card |-> c, op |-> "ask", byte |-> 255]
Delay(n)    == [op |-> "delay", left |-> n]
Flush       == [op |-> "flush"]
Sd(busy)    == [op |-> "sd", busy |-> busy]

Write(c, bytes) == [i \in DOMAIN bytes |-> Put(c, bytes[i])]

\* BlockingTransaction.
Transaction(instruction) == <<Flush, Delay(PauseDelay), instruction>>

SyncCard_Twice(c) == Transaction(Spi(c, SYNC)) \o Transaction(Spi(c, SYNC))

SyncCard(c) == FlattenSeq([i \in 1..4 |-> Transaction(Spi(c, SYNC))])

\* GetVersion; the version follows the identifier in the same way.
Version(c) ==
    SyncCard(c) \o Transaction(Spi(c, GET_SLAVE_ID)) \o <<Delay(BlockDelay)>>
                \o Transaction(Ask(c)) \o <<Delay(SettleDelay)>>

\* WriteBlock: the size and the data.
WriteBlock(c) ==
    <<Flush, Block(c, Len(BlockData))>>
        \o [i \in DOMAIN BlockData |-> Block(c, BlockData[i])]

\* The loops over the voicecards.
CardSeq == [i \in 1..kNumVoices |-> i - 1]

\* Part::TouchPatch.
LoadPatch_NoDelay ==
    [i \in DOMAIN CardSeq |-> Put(CardSeq[i], BULK_SEND)]
        \o FlattenSeq([i \in DOMAIN CardSeq |-> WriteBlock(CardSeq[i])])

LoadPatch ==
    [i \in DOMAIN CardSeq |-> Put(CardSeq[i], BULK_SEND)]
        \o <<Delay(BlockDelay)>>
        \o FlattenSeq([i \in DOMAIN CardSeq |-> WriteBlock(CardSeq[i])])

SdSession_NoFlush == <<Sd(TRUE), Sd(FALSE)>>

\* SdCardSession.
SdSession == <<Flush, Sd(TRUE), Sd(FALSE)>>

-----------------------------------------------------------------------------
(* The voicecard.                                                          *)

\* A byte crosses the bus; the register then holds it until it is replaced.
Transferred(k, b) == [k EXCEPT !.full = TRUE, !.spdr = b, !.reply = b]

\* Receive, in the interrupt.
Polled(k) ==
    IF k.full THEN [k EXCEPT !.full = FALSE, !.rx = Append(@, k.spdr), !.reply = Idle]
    ELSE k

Finished(k) == [k EXCEPT !.frame = <<>>, !.left = 0, !.mode = "run"]

ReceivesBlock(k) == k.mode # "run"

\* One byte of the buffer is parsed (Process).
Parsed(k) ==
    LET b == Head(k.rx)
        q == [k EXCEPT !.rx = Tail(@), !.frame = Append(@, b)]
        n == IF k.left > 0 THEN k.left - 1 ELSE ArgumentCount(b)
    IN  CASE n > 0 -> [q EXCEPT !.left = n]
          [] n = 0 /\ k.left = 0 /\ b = BULK_SEND -> [q EXCEPT !.mode = "size"]
          [] n = 0 /\ k.left = 0 /\ b = GET_SLAVE_ID -> Finished([q EXCEPT !.reply = SlaveId])
          [] OTHER -> Finished(q)

\* One byte of a block is read (DoShortCommand, COMMAND_BULK_SEND).
BlockRead(k) ==
    LET q == [k EXCEPT !.full = FALSE]
    IN  IF k.mode = "size"
        THEN IF k.spdr = 0 THEN Finished(q) ELSE [q EXCEPT !.mode = "data", !.left = k.spdr]
        ELSE IF k.left > 1 THEN [q EXCEPT !.left = @ - 1, !.frame = Append(@, k.spdr)]
        ELSE Finished(q)

\* Commands that only concern the link.
IsControl(frame) == frame \in {<<SYNC>>, <<GET_SLAVE_ID>>}

-----------------------------------------------------------------------------
(* Steps.                                                                  *)

LinkInit ==
    /\ todo = FlattenSeq([i \in DOMAIN CardSeq |-> SyncCard(CardSeq[i])])
                \o <<Delay(SettleDelay)>>
    /\ tx = [p \in 0..1 |-> <<>>]
    /\ flop = 0
    /\ sdBusy = FALSE
    /\ \E left \in [Cards -> PartialFrames] :
          /\ cards = [c \in Cards |->
                        [full |-> FALSE, spdr |-> Idle, reply |-> Idle, rx |-> <<>>,
                         mode |-> "run", left |-> left[c],
                         frame |-> IF left[c] = 0 THEN <<>> ELSE <<NOTE_ON>>]]
          /\ stale = [c \in Cards |-> left[c] > 0]
    /\ lag = [c \in Cards |-> 0]
    /\ age = [c \in Cards |-> 0]
    /\ pending = [c \in Cards |-> <<>>]
    /\ executed = [c \in Cards |-> [command |-> <<>>, parity |-> 0]]

PendingCount == MapThenSumSet(LAMBDA c : Len(pending[c]), Cards)

Issue(receivers, frame, program) ==
    /\ todo = <<>>
    /\ PendingCount + Cardinality(receivers) <= MaxPending
    /\ todo' = program
    /\ pending' = [c \in Cards |-> IF c \in receivers THEN Append(pending[c], frame)
                                   ELSE pending[c]]
    /\ UNCHANGED <<tx, flop, sdBusy, cards, lag, age, stale, executed>>

SendMessage(c, m) == Issue({c}, m, Write(c, m))
SendPatch         == Issue(Cards, <<BULK_SEND>> \o BlockData, LoadPatch)
GetVersion(c)     == Issue({}, <<>>, Version(c))
UseSdCard         == Issue({}, <<>>, SdSession)

\* Write waits for room in the buffer.
PutByte ==
    /\ todo # <<>> /\ Head(todo).op = "put"
    /\ LET i == Head(todo) p == Parity(i.card)
       IN  /\ Len(tx[p]) < Capacity
           /\ tx' = [tx EXCEPT ![p] = Append(@, <<i.card, i.byte>>)]
    /\ todo' = Tail(todo)
    /\ UNCHANGED <<flop, sdBusy, cards, lag, age, stale, pending, executed>>

FlushBuffers ==
    /\ todo # <<>> /\ Head(todo).op = "flush"
    /\ \A p \in 0..1 : tx[p] = <<>>
    /\ todo' = Tail(todo)
    /\ UNCHANGED <<tx, flop, sdBusy, cards, lag, age, stale, pending, executed>>

EndDelay ==
    /\ todo # <<>> /\ Head(todo).op = "delay" /\ Head(todo).left = 0
    /\ todo' = Tail(todo)
    /\ UNCHANGED <<tx, flop, sdBusy, cards, lag, age, stale, pending, executed>>

\* A card in its tight loop has read a byte before the next one is complete.
DriveBus ==
    /\ todo # <<>> /\ Head(todo).op \in {"spi", "block", "ask"}
    /\ LET i == Head(todo) k == cards[i.card]
       IN  /\ ~(ReceivesBlock(k) /\ k.full)
           /\ cards' = [cards EXCEPT ![i.card] = Transferred(k, i.byte)]
    /\ todo' = Tail(todo)
    /\ UNCHANGED <<tx, flop, sdBusy, lag, age, stale, pending, executed>>

SwitchSd ==
    /\ todo # <<>> /\ Head(todo).op = "sd"
    /\ sdBusy' = Head(todo).busy
    /\ todo' = Tail(todo)
    /\ UNCHANGED <<tx, flop, cards, lag, age, stale, pending, executed>>

\* The buffers the interrupt sends from: the even one at odd ticks.
SentAt(f) == {p \in 0..1 : tx[p] # <<>> /\ p = 1 - f}

\* TIMER2_OVF of the controller: SendBytes.  A card polls at least once in
\* MaxLag of these ticks, and its tight loop is much faster than that.
ControllerTick ==
    /\ \A c \in Cards : IF ReceivesBlock(cards[c]) THEN ~cards[c].full ELSE lag[c] < MaxLag
    /\ flop' = 1 - flop
    /\ LET sent == SentAt(flop')
           To(c) == {p \in sent : Head(tx[p])[1] = c}
       IN  /\ tx' = [p \in 0..1 |-> IF p \in sent THEN Tail(tx[p]) ELSE tx[p]]
           /\ cards' = [c \in Cards |->
                          IF To(c) = {} THEN cards[c]
                          ELSE Transferred(cards[c], Head(tx[Parity(c)])[2])]
    /\ lag' = [c \in Cards |-> IF ReceivesBlock(cards[c]) THEN 0 ELSE lag[c] + 1]
    /\ todo' = IF todo # <<>> /\ Head(todo).op = "delay" /\ Head(todo).left > 0
               THEN <<Delay(Head(todo).left - 1)>> \o Tail(todo) ELSE todo
    /\ UNCHANGED <<sdBusy, age, stale, pending, executed>>

\* TIMER2_OVF of a voicecard.
PollSpi(c) ==
    /\ ~ReceivesBlock(cards[c])
    /\ age[c] < MaxAge
    /\ cards' = [cards EXCEPT ![c] = Polled(@)]
    /\ lag' = [lag EXCEPT ![c] = 0]
    /\ age' = [age EXCEPT ![c] = @ + 1]
    /\ UNCHANGED <<todo, tx, flop, sdBusy, stale, pending, executed>>

\* What the end of a command means for the history.
Account(c, frame) ==
    IF stale[c] THEN stale' = [stale EXCEPT ![c] = FALSE] /\ UNCHANGED <<pending, executed>>
    ELSE IF IsControl(frame) THEN UNCHANGED <<stale, pending, executed>>
    ELSE /\ executed' = [executed EXCEPT ![c] = [command |-> frame, parity |-> 1 - @.parity]]
         /\ pending' = [pending EXCEPT ![c] = IF @ = <<>> THEN @ ELSE Tail(@)]
         /\ UNCHANGED stale

\* Process, byte by byte; with its buffer empty the main loop goes on to
\* the next block of samples.
Process(c) ==
    /\ ~ReceivesBlock(cards[c])
    /\ cards[c].rx # <<>>
    /\ cards' = [cards EXCEPT ![c] = Parsed(@)]
    /\ age' = [age EXCEPT ![c] = IF Len(cards[c].rx) = 1 THEN 0 ELSE @]
    /\ IF cards'[c].left = 0 /\ ~ReceivesBlock(cards'[c])
       THEN Account(c, Append(cards[c].frame, Head(cards[c].rx)))
       ELSE UNCHANGED <<stale, pending, executed>>
    /\ UNCHANGED <<todo, tx, flop, sdBusy, lag>>

NothingToProcess(c) ==
    /\ ~ReceivesBlock(cards[c])
    /\ cards[c].rx = <<>> /\ age[c] > 0
    /\ age' = [age EXCEPT ![c] = 0]
    /\ UNCHANGED <<todo, tx, flop, sdBusy, cards, lag, stale, pending, executed>>

ReadBlock(c) ==
    /\ ReceivesBlock(cards[c]) /\ cards[c].full
    /\ cards' = [cards EXCEPT ![c] = BlockRead(@)]
    /\ age' = [age EXCEPT ![c] = 0]
    /\ IF ReceivesBlock(cards'[c]) THEN UNCHANGED <<stale, pending, executed>>
       ELSE Account(c, IF cards[c].mode = "size" THEN cards[c].frame
                       ELSE Append(cards[c].frame, cards[c].spdr))
    /\ UNCHANGED <<todo, tx, flop, sdBusy, lag>>

LinkCardStep(c) == PollSpi(c) \/ Process(c) \/ NothingToProcess(c) \/ ReadBlock(c)

MainStep == PutByte \/ FlushBuffers \/ EndDelay \/ DriveBus \/ SwitchSd

LinkNext ==
    \/ \E c \in Cards, m \in Messages : SendMessage(c, m)
    \/ SendPatch \/ UseSdCard
    \/ \E c \in Cards : GetVersion(c)
    \/ PutByte \/ FlushBuffers \/ EndDelay \/ DriveBus \/ SwitchSd
    \/ ControllerTick
    \/ \E c \in Cards : PollSpi(c) \/ Process(c) \/ NothingToProcess(c) \/ ReadBlock(c)

\* Interrupts keep coming and the main loops keep running; nothing obliges
\* the controller to issue commands.
LinkSpec ==
    /\ LinkInit /\ [][LinkNext]_linkvars
    /\ WF_linkvars(MainStep) /\ WF_linkvars(ControllerTick)
    /\ \A c \in Cards : WF_linkvars(LinkCardStep(c))

-----------------------------------------------------------------------------
(* Correctness.                                                            *)

\* The pauses after SyncCard, WRITE_PATCH and GET_SLAVE_ID suffice.  "At this stage, all the
\* voicecards are sitting in a tight SPI receive loop." (part.cc:173): whenever a block is written,
\* its card reads it; and GetVersion reads the identifier that the card has prepared, not the idle
\* reply and not the answer to another byte.
PausesSuffice ==
    todo # <<>> =>
        /\ Head(todo).op = "block" => ReceivesBlock(cards[Head(todo).card])
        /\ Head(todo).op = "ask" => cards[Head(todo).card].reply = SlaveId

\* While the SD card has the bus, the interrupt sends nothing on it.
SdCardHasTheBus == sdBusy => \A p \in 0..1 : tx[p] = <<>>

\* Every command is executed whole, once, in order, whatever state the cards
\* were in at power up, and is executed in the end.
Channel == INSTANCE CommandChannel WITH
    ChannelCards <- Cards, ChannelMessages <- Messages \cup {<<BULK_SEND>> \o BlockData}

ImplementsChannel == Channel!Spec
=============================================================================
