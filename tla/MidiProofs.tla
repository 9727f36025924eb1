------------------------------ MODULE MidiProofs ------------------------------
(***************************************************************************)
(* Proofs about MIDI (src/midi/midi.h, src/controller/midi_dispatcher.h):  *)
(* which messages the parser makes of any stream of bytes, what the next   *)
(* unit makes of what is passed on to it, and that what comes out of the   *)
(* output buffers is whole or is known to be cut.                          *)
(***************************************************************************)
EXTENDS MidiParser, MidiPorts, OrderLemmas, SequenceTheorems, TLAPS

-----------------------------------------------------------------------------
(* The parser of the MIDI input.                                           *)

DataBytes == 0..127
ChannelStatus == 128..239

\* In the middle of a channel message, or after one, the parser has what the protocol says.
ParserFollows ==
    status \in ChannelStatus =>
        /\ since \in Seq(DataBytes) /\ Len(since) < ExpectedSize(status)
        /\ parser = [running |-> status, data |-> since, expected |-> ExpectedSize(status)]

\* Channel messages have one data byte or two.
LEMMA ChannelSizes == \A b \in ChannelStatus : ExpectedSize(b) \in {1, 2}
<1> SUFFICES ASSUME NEW b \in ChannelStatus
             PROVE  ExpectedSize(b) \in {1, 2}
  OBVIOUS
<1>1. Hi(b) \in {128, 144, 160, 176, 192, 208, 224}
  <2>1. b \div 16 \in 8..14
    BY DEF ChannelStatus
  <2> QED BY <2>1 DEF Hi
<1>2. CASE Hi(b) \in {128, 144, 160, 176, 224}
  BY <1>2 DEF ExpectedSize
<1>3. CASE Hi(b) \in {192, 208}
  BY <1>3 DEF ExpectedSize
<1> QED BY <1>1, <1>2, <1>3

\* What a data byte of a channel message does.
LEMMA DataOfChannel ==
  ASSUME ParserFollows, status \in ChannelStatus, NEW b \in DataBytes
  PROVE  /\ With(b) \in Seq(DataBytes) /\ Len(With(b)) = Len(since) + 1
         /\ Completes(b) => /\ Messages(b) = <<<<status>> \o With(b)>>
                            /\ Pushed(parser, b).parser = [parser EXCEPT !.data = <<>>]
         /\ ~Completes(b) => /\ Messages(b) = <<>>
                             /\ Pushed(parser, b).parser = [parser EXCEPT !.data = With(b)]
                             /\ Len(With(b)) < ExpectedSize(status)
<1>1. /\ since \in Seq(DataBytes) /\ Len(since) < ExpectedSize(status)
      /\ parser = [running |-> status, data |-> since, expected |-> ExpectedSize(status)]
      /\ ExpectedSize(status) \in {1, 2}
  BY ChannelSizes DEF ParserFollows
<1>2. With(b) \in Seq(DataBytes) /\ Len(With(b)) = Len(since) + 1
  BY <1>1 DEF With
<1>3. PICK q : q = [parser EXCEPT !.data = Append(@, b)]
  OBVIOUS
<1>4. /\ q = [parser EXCEPT !.data = With(b)] /\ q.running = status /\ q.data = With(b)
      /\ q.expected = ExpectedSize(status)
      /\ [q EXCEPT !.data = <<>>] = [parser EXCEPT !.data = <<>>]
  BY <1>1, <1>3 DEF With
<1>5. Pushed(parser, b) = AfterData(parser, b)
  BY DEF Pushed, IsRealtime, IsStatus, DataBytes
<1>6. Pushed(parser, b) = IF Len(q.data) >= q.expected THEN Completed(q)
                          ELSE [parser |-> q, messages |-> <<>>, out |-> <<>>]
  BY <1>3, <1>5 DEF AfterData
<1>7. ASSUME Completes(b)
      PROVE  /\ Pushed(parser, b).messages = <<<<status>> \o With(b)>>
             /\ Pushed(parser, b).parser = [parser EXCEPT !.data = <<>>]
  <2>1. Pushed(parser, b) = Completed(q)
    BY <1>1, <1>2, <1>4, <1>6, <1>7 DEF Completes
  <2>0. q.running = status /\ q.data = With(b)
    BY <1>4
  <2>2. ~(q.running > 240)
    BY <2>0 DEF ChannelStatus
  <2>3. Handed(q.running, q.data) = <<<<status>> \o With(b)>>
    <3>1. Handed(status, With(b)) = <<<<status>> \o With(b)>>
      BY DEF Handed, IsRealtime, ChannelStatus
    <3> QED BY <2>0, <3>1
  <2> QED BY <1>4, <2>1, <2>2, <2>3 DEF Completed
<1>8. ASSUME ~Completes(b)
      PROVE  /\ Pushed(parser, b).messages = <<>>
             /\ Pushed(parser, b).parser = [parser EXCEPT !.data = With(b)]
             /\ Len(With(b)) < ExpectedSize(status)
  <2>1. Len(With(b)) < ExpectedSize(status) /\ ~(Len(q.data) >= q.expected)
    BY <1>1, <1>2, <1>4, <1>8 DEF Completes
  <2> QED BY <1>4, <1>6, <2>1
<1> QED BY <1>2, <1>7, <1>8 DEF Messages

\* A status byte makes the parser start with it.
LEMMA StatusOfChannel ==
  ASSUME NEW b \in ChannelStatus
  PROVE  Pushed(parser, b).parser = [running |-> b, data |-> <<>>, expected |-> ExpectedSize(b)]
<1>1. Pushed(parser, b) = AfterStatus(parser, b)
  BY DEF Pushed, IsRealtime, IsStatus, ChannelStatus
<1>2. ExpectedSize(b) # 0 /\ b # 247 /\ b # 240
  BY ChannelSizes DEF ChannelStatus
<1> QED BY <1>1, <1>2 DEF AfterStatus

\* HandsOverWholeMessages holds of any stream of bytes: running status, messages cut by others
\* and realtime bytes between two data bytes lose, add or move no data byte of a channel message.
THEOREM WholeMessages == ParserSpec => []HandsOverWholeMessages
<1>1. ParserInit => ParserFollows
  BY DEF ParserInit, ParserFollows, ChannelStatus
<1>2. ParserFollows /\ [ParserNext]_parserVars => ParserFollows'
  <2> SUFFICES ASSUME ParserFollows, [ParserNext]_parserVars
               PROVE  ParserFollows'
    OBVIOUS
  <2>1. CASE UNCHANGED parserVars
    BY <2>1 DEF ParserFollows, parserVars
  <2>2. ASSUME NEW b \in Input, PushByte(b)
        PROVE  ParserFollows'
    <3>0. b \in 0..255 /\ parser' = Pushed(parser, b).parser
      BY <2>2, ParserAssumption DEF PushByte
    <3>1. CASE IsRealtime(b)
      <4>1. UNCHANGED <<parser, status, since>>
        <5>1. Pushed(parser, b) = AfterRealtime(parser, b)
          BY <3>1 DEF Pushed, IsStatus
        <5>2. Remember(b) => UNCHANGED <<status, since>>
          BY <3>1 DEF Remember, IsStatus
        <5> QED BY <2>2, <3>0, <5>1, <5>2 DEF PushByte, AfterRealtime
      <4> QED BY <4>1 DEF ParserFollows
    <3>2. CASE IsStatus(b)
      <4>1. since' = <<>> /\ status' = IF ExpectedSize(b) = 0 THEN 0 ELSE b
        BY <2>2, <3>2 DEF PushByte, Remember, IsStatus
      <4>2. CASE b \in ChannelStatus
        <5>1. status' = b /\ Len(since') = 0 /\ ExpectedSize(b) > 0 /\ since' \in Seq(DataBytes)
          BY <4>1, <4>2, ChannelSizes
        <5> QED BY <3>0, <4>1, <4>2, <5>1, StatusOfChannel DEF ParserFollows
      <4>3. CASE b \notin ChannelStatus
        BY <3>0, <4>1, <4>3 DEF ParserFollows, ChannelStatus
      <4> QED BY <4>2, <4>3
    <3>3. CASE ~IsRealtime(b) /\ ~IsStatus(b)
      <4>0. b \in DataBytes
        BY <3>0, <3>3 DEF IsRealtime, IsStatus, DataBytes
      <4>1. /\ since' = IF status \in {0, 240} \/ Completes(b) THEN <<>> ELSE With(b)
            /\ status' = IF status > 240 /\ Completes(b) THEN 0 ELSE status
        BY <2>2, <3>3 DEF PushByte, Remember
      <4>2. CASE status \in ChannelStatus
        <5>1. status' = status /\ since' = IF Completes(b) THEN <<>> ELSE With(b)
          BY <4>1, <4>2 DEF ChannelStatus
        <5>2. /\ parser = [running |-> status, data |-> since, expected |-> ExpectedSize(status)]
              /\ ExpectedSize(status) \in {1, 2} /\ Len(since) < ExpectedSize(status)
              /\ Len(since) \in Nat
          BY <4>2, ChannelSizes DEF ParserFollows
        <5>3. parser' = [parser EXCEPT !.data = since']
          BY <3>0, <4>0, <4>2, <5>1, DataOfChannel
        <5>4. since' \in Seq(DataBytes) /\ Len(since') < ExpectedSize(status)
          <6>1. CASE Completes(b)
            BY <5>1, <5>2, <6>1
          <6>2. CASE ~Completes(b)
            BY <4>0, <4>2, <5>1, <5>2, <6>2, DataOfChannel DEF Completes
          <6> QED BY <6>1, <6>2
        <5> QED BY <5>1, <5>2, <5>3, <5>4 DEF ParserFollows
      <4>3. CASE status \notin ChannelStatus
        BY <4>1, <4>3 DEF ParserFollows, ChannelStatus
      <4> QED BY <4>2, <4>3
    <3> QED BY <3>1, <3>2, <3>3
  <2> QED BY <2>1, <2>2 DEF ParserNext
<1>3. ParserFollows => HandsOverWholeMessages
  <2> SUFFICES ASSUME ParserFollows, status \in ChannelStatus, NEW b \in Input, b < 128
               PROVE  Messages(b) = IF Completes(b) THEN <<<<status>> \o With(b)>> ELSE <<>>
    BY DEF HandsOverWholeMessages, ChannelStatus
  <2>1. b \in DataBytes
    BY ParserAssumption DEF DataBytes
  <2> QED BY <2>1, DataOfChannel DEF Messages
<1> QED BY <1>1, <1>2, <1>3, PTL DEF ParserSpec

-----------------------------------------------------------------------------
(* The next unit, which parses what this one passes on.                    *)

Begun == 128..243

\* A parser with a status, and the data bytes of an unfinished message.
State(st, d) == [running |-> st, data |-> d, expected |-> ExpectedSize(st)]
Unfinished(st, d) ==
    /\ d \in Seq(DataBytes)
    /\ \/ st = 0 /\ d = <<>>
       \/ st \in Begun /\ Len(d) < ExpectedSize(st)

\* Between two bytes this unit is in the middle of a message, and of a SysEx with the next one.
NextInv ==
    /\ \E st, d : parser = State(st, d) /\ Unfinished(st, d)
    /\ parser.running = 240 => next = State(240, <<>>)

LEMMA TwoBytes ==
    ASSUME NEW S, NEW a \in S, NEW b \in S
    PROVE  <<a>> \o <<b>> = <<a, b>>
<1>1. PICK s, t, u : s = <<a>> /\ t = <<b>> /\ u = <<a, b>>
  OBVIOUS
<1>2. /\ s \in Seq(S) /\ Len(s) = 1 /\ s[1] = a /\ t \in Seq(S) /\ Len(t) = 1 /\ t[1] = b
      /\ u \in Seq(S) /\ Len(u) = 2 /\ u[1] = a /\ u[2] = b
  BY <1>1
<1>0. PICK w : w = s \o t
  OBVIOUS
<1>3. w \in Seq(S) /\ Len(w) = 2 /\ w[1] = a /\ w[2] = b
  <2>1. /\ w \in Seq(S) /\ Len(w) = Len(s) + Len(t)
        /\ \A i \in 1..(Len(s) + Len(t)) : w[i] = IF i <= Len(s) THEN s[i] ELSE t[i - Len(s)]
    BY <1>0, <1>2, ConcatProperties
  <2>2. 1 \in 1..2 /\ 2 \in 1..2 /\ 2 - 1 = 1 /\ Len(s) + Len(t) = 2 /\ ~(2 <= 1)
    BY <1>2
  <2>3. w[1] = s[1] /\ w[2] = t[2 - 1]
    BY <1>2, <2>1, <2>2
  <2> QED BY <1>2, <2>1, <2>2, <2>3
<1>4. \A i \in 1..2 : i = 1 \/ i = 2
  OBVIOUS
<1>5. \A i \in 1..Len(w) : w[i] = u[i]
  BY <1>2, <1>3, <1>4
<1>6. w = u
  <2>1. w \in Seq(S) /\ u \in Seq(S) /\ Len(w) = Len(u)
    BY <1>2, <1>3
  <2> QED BY <1>5, <2>1, SeqEqual, Zenon
<1> QED BY <1>0, <1>1, <1>6

LEMMA SystemSizes ==
    /\ ExpectedSize(0) = 0 /\ ExpectedSize(240) = 1 /\ ExpectedSize(241) = 2
    /\ ExpectedSize(242) = 2 /\ ExpectedSize(243) = 1 /\ ExpectedSize(244) = 0
    /\ ExpectedSize(245) = 0 /\ ExpectedSize(246) = 0 /\ ExpectedSize(247) = 0
<1>1. Hi(0) = 0 /\ \A b \in 240..247 : Hi(b) = 240
  BY DEF Hi
<1>2. \A b \in {240, 241, 242, 243, 244, 245, 246, 247} : Hi(b) = 240
  BY <1>1
<1> QED BY <1>1, <1>2 DEF ExpectedSize

LEMMA SizesOfStatus == \A b \in Begun : ExpectedSize(b) \in {1, 2}
<1>1. \A b \in Begun : b \in ChannelStatus \/ b = 240 \/ b = 241 \/ b = 242 \/ b = 243
  BY DEF Begun, ChannelStatus
<1> QED BY <1>1, ChannelSizes, SystemSizes

\* What a data byte makes of a parser.
LEMMA DataPushed ==
  ASSUME NEW st, NEW d, Unfinished(st, d), NEW p, p = State(st, d), NEW b \in DataBytes
  PROVE  /\ Append(d, b) \in Seq(DataBytes) /\ Len(Append(d, b)) = Len(d) + 1
         /\ Len(d) + 1 < ExpectedSize(st) =>
                Pushed(p, b) = [parser |-> State(st, Append(d, b)), messages |-> <<>>, out |-> <<>>]
         /\ ~(Len(d) + 1 < ExpectedSize(st)) =>
                Pushed(p, b) = [parser |-> IF st > 240 THEN Fresh ELSE State(st, <<>>),
                                messages |-> Handed(st, Append(d, b)),
                                out |-> PassedOn(st, Append(d, b))]
<1>1. d \in Seq(DataBytes) /\ Len(d) \in Nat /\ (st = 0 \/ st \in 128..243)
  BY DEF Unfinished, Begun
<1>2. Append(d, b) \in Seq(DataBytes) /\ Len(Append(d, b)) = Len(d) + 1
  BY <1>1
<1>3. PICK q : q = [p EXCEPT !.data = Append(@, b)]
  OBVIOUS
<1>4. /\ q = State(st, Append(d, b)) /\ q.running = st /\ q.data = Append(d, b)
      /\ q.expected = ExpectedSize(st) /\ [q EXCEPT !.data = <<>>] = State(st, <<>>)
  <2>1. PICK n, e : n = Append(d, b) /\ e = ExpectedSize(st)
    OBVIOUS
  <2>2. q = [running |-> st, data |-> n, expected |-> e]
    BY <1>3, <2>1 DEF State
  <2>3. q.running = st /\ q.data = n /\ q.expected = e
    BY <2>2
  <2>4. [q EXCEPT !.data = <<>>] = [running |-> st, data |-> <<>>, expected |-> e]
    BY <2>2
  <2> QED BY <2>1, <2>2, <2>3, <2>4 DEF State
<1>5. Pushed(p, b) = AfterData(p, b)
  BY DEF Pushed, IsRealtime, IsStatus, DataBytes
<1>6. Pushed(p, b) = IF Len(q.data) >= q.expected THEN Completed(q)
                     ELSE [parser |-> q, messages |-> <<>>, out |-> <<>>]
  BY <1>3, <1>5 DEF AfterData
<1>7. ExpectedSize(st) \in Nat
  BY <1>1, SizesOfStatus, SystemSizes DEF Unfinished
<1>8. Completed(q) = [parser |-> IF st > 240 THEN Fresh ELSE State(st, <<>>),
                      messages |-> Handed(st, Append(d, b)), out |-> PassedOn(st, Append(d, b))]
  BY <1>4 DEF Completed
<1>9. Len(d) + 1 < ExpectedSize(st) <=> ~(Len(q.data) >= q.expected)
  BY <1>1, <1>2, <1>4, <1>7
<1> QED BY <1>2, <1>4, <1>6, <1>8, <1>9

MessageEnds(st, d) == ~(Len(d) + 1 < ExpectedSize(st))

LEMMA DataWaits ==
  ASSUME NEW st, NEW d, Unfinished(st, d), NEW b \in DataBytes, ~MessageEnds(st, d)
  PROVE  /\ Pushed(State(st, d), b).parser = State(st, Append(d, b))
         /\ Pushed(State(st, d), b).messages = <<>> /\ Pushed(State(st, d), b).out = <<>>
<1>1. PICK p : p = State(st, d)
  OBVIOUS
<1>2. Pushed(p, b) = [parser |-> State(st, Append(d, b)), messages |-> <<>>, out |-> <<>>]
  BY <1>1, DataPushed DEF MessageEnds
<1> QED BY <1>1, <1>2

LEMMA DataCompletes ==
  ASSUME NEW st, NEW d, Unfinished(st, d), NEW b \in DataBytes, MessageEnds(st, d)
  PROVE  /\ Pushed(State(st, d), b).parser = IF st > 240 THEN Fresh ELSE State(st, <<>>)
         /\ Pushed(State(st, d), b).messages = Handed(st, Append(d, b))
         /\ Pushed(State(st, d), b).out = PassedOn(st, Append(d, b))
<1>1. PICK p, q : p = State(st, d) /\ q = IF st > 240 THEN Fresh ELSE State(st, <<>>)
  OBVIOUS
<1>2. Pushed(p, b) = [parser |-> q, messages |-> Handed(st, Append(d, b)),
                      out |-> PassedOn(st, Append(d, b))]
  BY <1>1, DataPushed DEF MessageEnds
<1> QED BY <1>1, <1>2

\* What a status byte makes of a parser.
StatusByte(b) == b \in 128..247

LEMMA StatusPushed ==
  ASSUME NEW p, NEW b, StatusByte(b)
  PROVE  /\ b \in Begun /\ b # 240 =>
                Pushed(p, b) = [parser |-> State(b, <<>>), messages |-> <<>>, out |-> <<>>]
         /\ b = 240 => Pushed(p, b) = [parser |-> State(240, <<>>), messages |-> <<<<240>>>>,
                                       out |-> <<240>>]
         /\ b \in 244..246 =>
                Pushed(p, b) = [parser |-> Fresh, messages |-> <<>>, out |-> <<b>>]
         /\ b = 247 => /\ Pushed(p, b).parser = Fresh
                       /\ Pushed(p, b).messages = IF p.running = 240 THEN <<<<247>>>> ELSE <<>>
                       /\ Pushed(p, b).out = IF p.running = 240 THEN <<247, 0>> ELSE <<0>>
<1>0. b \in 128..247
  BY DEF StatusByte
<1>1. Pushed(p, b) = AfterStatus(p, b)
  BY <1>0 DEF Pushed, IsRealtime, IsStatus
<1>2. CASE b \in 128..243
  <2>1. PICK q : q = [running |-> b, data |-> <<>>, expected |-> ExpectedSize(b)]
    OBVIOUS
  <2>2. q.expected # 0 /\ q = State(b, <<>>) /\ b # 247
    <3>1. b \in Begun /\ b # 247
      BY <1>2 DEF Begun
    <3>2. ExpectedSize(b) # 0
      BY <3>1, SizesOfStatus
    <3>3. q = State(b, <<>>)
      BY <2>1 DEF State
    <3>4. q.expected = ExpectedSize(b)
      BY <2>1
    <3> QED BY <3>1, <3>2, <3>3, <3>4
  <2>3. PICK edge : edge = IF b = 240 THEN <<b>> ELSE <<>>
    OBVIOUS
  <2>4. AfterStatus(p, b) = [parser |-> q, messages |-> (IF edge = <<>> THEN <<>> ELSE <<edge>>),
                             out |-> edge]
    <3>1. PICK r : r = [parser |-> q, messages |-> <<>>, out |-> <<>>]
      OBVIOUS
    <3>2. AfterStatus(p, b) = [r EXCEPT !.messages = (IF edge = <<>> THEN <<>> ELSE <<edge>>) \o @,
                                        !.out = edge \o @]
      BY <2>1, <2>2, <2>3, <3>1 DEF AfterStatus
    <3>3. edge \o <<>> = edge
      BY <2>3
    <3>4. (IF edge = <<>> THEN <<>> ELSE <<edge>>) \o <<>> = IF edge = <<>> THEN <<>> ELSE <<edge>>
      BY <2>3
    <3> QED BY <3>1, <3>2, <3>3, <3>4
  <2>5. CASE b = 240
    <3>1. edge = <<240>> /\ edge # <<>> /\ b \notin 244..246 /\ b # 247
      BY <2>3, <2>5
    <3> QED BY <1>1, <2>2, <2>4, <2>5, <3>1
  <2>6. CASE b # 240
    <3>1. edge = <<>> /\ b \notin 244..246
      BY <1>2, <2>3, <2>6
    <3> QED BY <1>1, <2>2, <2>4, <2>6, <3>1
  <2> QED BY <2>5, <2>6
<1>3. CASE b \in {244, 245, 246, 247}
  <2>1. PICK st : st = IF b = 247 THEN 0 ELSE b
    OBVIOUS
  <2> DEFINE q == [running |-> IF b = 247 THEN 0 ELSE b, data |-> <<>>,
                   expected |-> ExpectedSize(b)]
             r == IF q.expected = 0 THEN Completed(q)
                  ELSE [parser |-> q, messages |-> <<>>, out |-> <<>>]
             edge == IF b = 240 \/ (b = 247 /\ p.running = 240) THEN <<b>> ELSE <<>>
  <2>2. AfterStatus(p, b) = [r EXCEPT !.messages = (IF edge = <<>> THEN <<>> ELSE <<edge>>) \o @,
                                      !.out = edge \o @]
    BY DEF AfterStatus
  <2>4. ExpectedSize(b) = 0 /\ b # 240 /\ b \notin Begun
    BY <1>3, SystemSizes DEF Begun
  <2>5. q = [running |-> st, data |-> <<>>, expected |-> 0]
    BY <2>1, <2>4
  <2>3. edge = IF b = 247 /\ p.running = 240 THEN <<b>> ELSE <<>>
    BY <2>4
  <2> HIDE DEF q
  <2>12. r = Completed(q)
    BY <2>5
  <2> HIDE DEF r, edge
  <2>6. /\ q.running = st /\ q.data = <<>>
        /\ [q EXCEPT !.data = <<>>] = [running |-> st, data |-> <<>>, expected |-> 0]
    BY <2>5
  <2>7. r = [parser |-> Fresh, messages |-> <<>>, out |-> <<st>>]
    <3>1. st > 240 \/ [q EXCEPT !.data = <<>>] = Fresh
      BY <1>3, <2>1, <2>6 DEF Fresh
    <3>2. Handed(st, <<>>) = <<>>
      <4>1. ~IsRealtime(st) /\ st \notin 128..240
        BY <1>3, <2>1 DEF IsRealtime
      <4> QED BY <4>1 DEF Handed
    <3>3. PassedOn(st, <<>>) = <<st>>
      <4>1. st \notin {240, 247}
        BY <1>3, <2>1
      <4>2. <<st>> \o <<>> = <<st>>
        OBVIOUS
      <4> QED BY <4>1, <4>2 DEF PassedOn
    <3>4. Completed(q).parser = Fresh
      BY <2>6, <3>1 DEF Completed
    <3>5. Completed(q) = [parser |-> Completed(q).parser, messages |-> Handed(st, <<>>),
                          out |-> PassedOn(st, <<>>)]
      BY <2>6 DEF Completed
    <3> QED BY <2>12, <3>2, <3>3, <3>4, <3>5
  <2>8. PICK ms, o : /\ ms = (IF edge = <<>> THEN <<>> ELSE <<edge>>) \o <<>>
                     /\ o = edge \o <<st>>
    OBVIOUS
  <2>9. Pushed(p, b) = [parser |-> Fresh, messages |-> ms, out |-> o]
    <3>1. PICK u : u = <<st>>
      OBVIOUS
    <3>2. r = [parser |-> Fresh, messages |-> <<>>, out |-> u] /\ o = edge \o u
      BY <2>7, <2>8, <3>1
    <3> QED BY <1>1, <2>2, <2>8, <3>2
  <2>10. CASE b = 247
    <3>1. /\ ms = IF p.running = 240 THEN <<<<247>>>> ELSE <<>>
          /\ o = IF p.running = 240 THEN <<247, 0>> ELSE <<0>>
      <4>1. st = 0 /\ edge = IF p.running = 240 THEN <<247>> ELSE <<>>
        BY <2>1, <2>3, <2>10
      <4>2. <<247>> \o <<0>> = <<247, 0>>
        <5>1. 247 \in Nat /\ 0 \in Nat
          OBVIOUS
        <5> QED BY <5>1, TwoBytes, Zenon
      <4>3. <<>> \o <<0>> = <<0>> /\ <<>> \o <<>> = <<>> /\ <<247>> # <<>>
        OBVIOUS
      <4>4. \A e : <<e>> \o <<>> = <<e>>
        OBVIOUS
      <4> QED BY <2>8, <4>1, <4>2, <4>3, <4>4
    <3>2. b \notin 244..246
      BY <2>10
    <3> QED BY <2>4, <2>9, <2>10, <3>1, <3>2
  <2>11. CASE b # 247
    <3>1. st = b /\ edge = <<>>
      BY <2>1, <2>3, <2>11
    <3>2. <<>> \o <<>> = <<>> /\ \A e : <<>> \o <<e>> = <<e>>
      OBVIOUS
    <3>3. ms = <<>> /\ o = <<b>>
      BY <2>8, <3>1, <3>2
    <3> QED BY <2>4, <2>9, <2>11, <3>3
  <2> QED BY <2>10, <2>11
<1>4. b \in 128..243 \/ b \in {244, 245, 246, 247}
  BY <1>0
<1> QED BY <1>2, <1>3, <1>4
-----------------------------------------------------------------------------
\* One more byte, for a unit that parses several.
From(p) == [parser |-> p, messages |-> <<>>]
Then(x, b) == [parser |-> Pushed(x.parser, b).parser,
               messages |-> x.messages \o Pushed(x.parser, b).messages]

LEMMA PushedFew ==
  ASSUME NEW p, NEW bytes, NEW n \in 0..3, Len(bytes) = n
  PROVE  /\ n = 0 => PushedAll(p, bytes) = From(p)
         /\ n = 1 => PushedAll(p, bytes) = Then(From(p), bytes[1])
         /\ n = 2 => PushedAll(p, bytes) = Then(Then(From(p), bytes[1]), bytes[2])
         /\ n = 3 => PushedAll(p, bytes) = Then(Then(Then(From(p), bytes[1]), bytes[2]), bytes[3])
<1> DEFINE after == CHOOSE x : x = [i \in 0..Len(bytes) |->
                        IF i = 0 THEN [parser |-> p, messages |-> <<>>]
                        ELSE [parser |-> Pushed(x[i - 1].parser, bytes[i]).parser,
                              messages |-> x[i - 1].messages
                                           \o Pushed(x[i - 1].parser, bytes[i]).messages]]
<1>1. PushedAll(p, bytes) = after[n]
  BY DEF PushedAll
<1>2. after = CHOOSE x : x = [i \in 0..n |-> IF i = 0 THEN From(p) ELSE Then(x[i - 1], bytes[i])]
  BY DEF From, Then
<1> HIDE DEF after
<1>3. PICK a, b, c, d : /\ a = From(p) /\ b = Then(a, bytes[1]) /\ c = Then(b, bytes[2])
                        /\ d = Then(c, bytes[3])
  OBVIOUS
<1> DEFINE g == [i \in 0..n |-> IF i = 0 THEN a ELSE IF i = 1 THEN b ELSE IF i = 2 THEN c ELSE d]
<1>4. /\ \A i \in 0..n : g[i] = IF i = 0 THEN a ELSE IF i = 1 THEN b ELSE IF i = 2 THEN c ELSE d
      /\ g = [i \in 0..n |-> g[i]]
  OBVIOUS
<1> HIDE DEF g
<1>5. \A i \in 0..n : i - 1 \in 0..n \/ i = 0
  OBVIOUS
<1>6. ASSUME NEW i \in 0..n
      PROVE  g[i] = IF i = 0 THEN From(p) ELSE Then(g[i - 1], bytes[i])
  <2>1. CASE i = 0
    BY <1>3, <1>4, <2>1
  <2>2. CASE i = 1
    <3>1. i - 1 = 0 /\ 0 \in 0..n
      BY <2>2
    <3> QED BY <1>3, <1>4, <2>2, <3>1
  <2>3. CASE i = 2
    <3>1. i - 1 = 1 /\ 1 \in 0..n
      BY <2>3
    <3> QED BY <1>3, <1>4, <2>3, <3>1
  <2>4. CASE i = 3
    <3>1. i - 1 = 2 /\ 2 \in 0..n
      BY <2>4
    <3> QED BY <1>3, <1>4, <2>4, <3>1
  <2> QED BY <2>1, <2>2, <2>3, <2>4
<1>7. g = [i \in 0..n |-> IF i = 0 THEN From(p) ELSE Then(g[i - 1], bytes[i])]
  BY <1>4, <1>6
<1>8. after = [i \in 0..n |-> IF i = 0 THEN From(p) ELSE Then(after[i - 1], bytes[i])]
  BY <1>2, <1>7, Zenon
<1> DEFINE entry(i) == IF i = 0 THEN From(p) ELSE Then(after[i - 1], bytes[i])
<1>9. \A i \in 0..n : after[i] = entry(i)
  <2>1. after = [i \in 0..n |-> entry(i)]
    BY <1>8
  <2> HIDE DEF entry
  <2> QED BY <2>1
<1>10. after[0] = From(p)
  BY <1>9
<1>11. CASE n = 0
  BY <1>1, <1>10, <1>11
<1>12. CASE n = 1
  <2>1. 1 \in 0..n /\ 1 - 1 = 0 /\ n # 0 /\ n # 2 /\ n # 3
    BY <1>12
  <2>2. after[1] = Then(after[0], bytes[1])
    BY <1>9, <2>1
  <2> QED BY <1>1, <1>10, <1>12, <2>1, <2>2
<1>13. CASE n = 2
  <2>1. 1 \in 0..n /\ 1 - 1 = 0 /\ 2 \in 0..n /\ 2 - 1 = 1 /\ n # 0 /\ n # 1 /\ n # 3
    BY <1>13
  <2>2. after[1] = Then(after[0], bytes[1]) /\ after[2] = Then(after[1], bytes[2])
    BY <1>9, <2>1
  <2> QED BY <1>1, <1>10, <1>13, <2>1, <2>2
<1>14. CASE n = 3
  <2>1. /\ 1 \in 0..n /\ 1 - 1 = 0 /\ 2 \in 0..n /\ 2 - 1 = 1 /\ 3 \in 0..n /\ 3 - 1 = 2
        /\ n # 0 /\ n # 1 /\ n # 2
    BY <1>14
  <2>2. /\ after[1] = Then(after[0], bytes[1]) /\ after[2] = Then(after[1], bytes[2])
        /\ after[3] = Then(after[2], bytes[3])
    BY <1>9, <2>1
  <2> QED BY <1>1, <1>10, <1>14, <2>1, <2>2
<1> QED BY <1>11, <1>12, <1>13, <1>14

-----------------------------------------------------------------------------
LEMMA StatusThen ==
  ASSUME NEW st \in Begun \ {240}, NEW p
  PROVE  Then(From(p), st) = From(State(st, <<>>))
<1>1. st \in 128..247 /\ st \in Begun /\ st # 240
  BY DEF Begun
<1>2. Pushed(p, st) = [parser |-> State(st, <<>>), messages |-> <<>>, out |-> <<>>]
  <2>1. StatusByte(st)
    BY <1>1 DEF StatusByte
  <2> QED BY <1>1, <2>1, StatusPushed
<1>3. From(p).parser = p /\ From(p).messages = <<>> /\ <<>> \o <<>> = <<>>
  BY DEF From
<1>4. /\ Pushed(From(p).parser, st).parser = State(st, <<>>)
      /\ Pushed(From(p).parser, st).messages = <<>>
  BY <1>2, <1>3
<1> QED BY <1>3, <1>4 DEF Then, From

\* A whole message that is parsed after anything is handed over as it is.
LEMMA Reparsed ==
  ASSUME NEW st \in Begun \ {240}, NEW d \in Seq(DataBytes), Len(d) = ExpectedSize(st), NEW p
  PROVE  PushedAll(p, <<st>> \o d).messages = Handed(st, d)
<1>1. ExpectedSize(st) \in {1, 2} /\ Len(d) \in {1, 2}
  BY SizesOfStatus
<1>2. PICK s, m : s = <<st>> /\ m = s \o d
  OBVIOUS
<1>3. /\ m = <<st>> \o d /\ Len(m) = 1 + Len(d) /\ m[1] = st
      /\ \A i \in 1..Len(d) : m[1 + i] = d[i]
  <2>1. s \in Seq(Nat) /\ Len(s) = 1 /\ s[1] = st
    BY <1>2 DEF Begun
  <2>2. d \in Seq(Nat)
    <3>1. DataBytes \subseteq Nat
      BY DEF DataBytes
    <3> QED BY <3>1, SeqMonotonic, Zenon
  <2>3. /\ Len(m) = Len(s) + Len(d)
        /\ \A i \in 1..(Len(s) + Len(d)) : m[i] = IF i <= Len(s) THEN s[i] ELSE d[i - Len(s)]
    BY <1>2, <2>1, <2>2, ConcatProperties
  <2>4. \A i \in 1..Len(d) : 1 + i \in 1..(1 + Len(d)) /\ ~(1 + i <= 1) /\ (1 + i) - 1 = i
    BY <1>1
  <2>5. 1 \in 1..(1 + Len(d)) /\ 1 <= 1
    BY <1>1
  <2> QED BY <1>2, <2>1, <2>3, <2>4, <2>5
<1>4. Then(From(p), st) = From(State(st, <<>>))
  BY StatusThen
<1>0. PICK none : none = <<>>
  OBVIOUS
<1>5. PICK e : e = Append(none, d[1])
  OBVIOUS
<1>6. d[1] \in DataBytes /\ e \in Seq(DataBytes) /\ Len(e) = 1 /\ e[1] = d[1]
  <2>1. 1 \in 1..Len(d)
    BY <1>1
  <2>2. d[1] \in DataBytes
    BY <2>1, ElementOfSeq
  <2> QED BY <1>0, <1>5, <2>2
<1>7. Unfinished(st, none) /\ Len(none) = 0
  <2>1. none \in Seq(DataBytes) /\ Len(none) = 0
    BY <1>0
  <2> QED BY <1>1, <2>1 DEF Unfinished
<1>8. PICK x, y : x = From(State(st, <<>>)) /\ y = Then(x, d[1])
  OBVIOUS
<1>9. x.parser = State(st, none) /\ x.messages = <<>>
  BY <1>0, <1>8 DEF From
<1>10. CASE Len(d) = 1
  <2>1. PushedAll(p, m) = y
    <3>1. Len(m) = 2 /\ m[1] = st /\ m[2] = d[1] /\ 2 \in 0..3
      BY <1>3, <1>10
    <3>2. PushedAll(p, m) = Then(Then(From(p), m[1]), m[2])
      BY <3>1, PushedFew
    <3> QED BY <1>4, <1>8, <3>1, <3>2
  <2>2. e = d
    <3>1. \A i \in 1..Len(e) : e[i] = d[i]
      BY <1>6, <1>10
    <3>2. Len(e) = Len(d)
      BY <1>6, <1>10
    <3>3. e \in Seq(DataBytes) /\ d \in Seq(DataBytes)
      BY <1>6
    <3> QED BY <3>1, <3>2, <3>3, SeqEqual, Zenon
  <2>3. Pushed(x.parser, d[1]).messages = Handed(st, e)
    <3>1. MessageEnds(st, none)
      BY <1>7, <1>10 DEF MessageEnds
    <3>4. PICK c \in DataBytes : c = d[1]
      BY <1>6
    <3>5. Unfinished(st, none)
      BY <1>7
    <3>6. Pushed(State(st, none), c).messages = Handed(st, Append(none, c))
      BY <3>1, <3>5, DataCompletes
    <3>2. Pushed(State(st, none), d[1]).messages = Handed(st, Append(none, d[1]))
      BY <3>4, <3>6
    <3>3. x.parser = State(st, none) /\ e = Append(none, d[1])
      BY <1>5, <1>9
    <3> QED BY <3>2, <3>3, Zenon
  <2>4. y.messages = <<>> \o Handed(st, e)
    BY <1>8, <1>9, <2>3 DEF Then
  <2>5. <<>> \o Handed(st, e) = Handed(st, e)
    <3>1. Handed(st, e) = <<>> \/ \E v : Handed(st, e) = <<v>>
      BY DEF Handed
    <3>2. <<>> \o <<>> = <<>> /\ \A v : <<>> \o <<v>> = <<v>>
      OBVIOUS
    <3> QED BY <3>1, <3>2
  <2> QED BY <1>3, <2>1, <2>2, <2>4, <2>5
<1>11. CASE Len(d) = 2
  <2>1. PICK z : z = Then(y, d[2])
    OBVIOUS
  <2>2. PushedAll(p, m) = z
    <3>1. Len(m) = 3 /\ m[1] = st /\ m[2] = d[1] /\ m[3] = d[2] /\ 3 \in 0..3
      BY <1>3, <1>11
    <3>2. PushedAll(p, m) = Then(Then(Then(From(p), m[1]), m[2]), m[3])
      BY <3>1, PushedFew
    <3> QED BY <1>4, <1>8, <2>1, <3>1, <3>2
  <2>3. Pushed(x.parser, d[1]).parser = State(st, e) /\ Pushed(x.parser, d[1]).messages = <<>>
    <3>1. ~MessageEnds(st, none)
      BY <1>7, <1>11 DEF MessageEnds
    <3>4. PICK c \in DataBytes : c = d[1]
      BY <1>6
    <3>5. Unfinished(st, none)
      BY <1>7
    <3>6. /\ Pushed(State(st, none), c).parser = State(st, Append(none, c))
          /\ Pushed(State(st, none), c).messages = <<>>
      BY <3>1, <3>5, DataWaits
    <3>2. /\ Pushed(State(st, none), d[1]).parser = State(st, Append(none, d[1]))
          /\ Pushed(State(st, none), d[1]).messages = <<>>
      BY <3>4, <3>6
    <3>3. x.parser = State(st, none) /\ e = Append(none, d[1])
      BY <1>5, <1>9
    <3> QED BY <3>2, <3>3, Zenon
  <2>4. y.parser = State(st, e) /\ y.messages = <<>>
    <3>1. <<>> \o <<>> = <<>>
      OBVIOUS
    <3> QED BY <1>8, <1>9, <2>3, <3>1 DEF Then
  <2>5. Unfinished(st, e)
    BY <1>1, <1>6, <1>11 DEF Unfinished
  <2>6. PICK f : f = Append(e, d[2])
    OBVIOUS
  <2>7. d[2] \in DataBytes
    <3>1. 2 \in 1..Len(d)
      BY <1>11
    <3> QED BY <3>1, ElementOfSeq
  <2>8. f = d
    <3>1. f \in Seq(DataBytes) /\ Len(f) = 2 /\ f[1] = d[1] /\ f[2] = d[2]
      <4>1. /\ f \in Seq(DataBytes) /\ Len(f) = Len(e) + 1 /\ f[Len(e) + 1] = d[2]
            /\ \A i \in 1..Len(e) : f[i] = e[i]
        <5>1. e \in Seq(DataBytes)
          BY <1>6
        <5> QED BY <2>6, <2>7, <5>1, AppendProperties
      <4>2. Len(e) + 1 = 2 /\ 1 \in 1..Len(e)
        BY <1>6
      <4> QED BY <1>6, <4>1, <4>2
    <3>2. \A i \in 1..Len(f) : f[i] = d[i]
      BY <1>11, <3>1
    <3>3. Len(f) = Len(d)
      BY <1>11, <3>1
    <3>4. f \in Seq(DataBytes) /\ d \in Seq(DataBytes)
      BY <3>1
    <3> QED BY <3>2, <3>3, <3>4, SeqEqual, Zenon
  <2>9. Pushed(y.parser, d[2]).messages = Handed(st, f)
    <3>1. MessageEnds(st, e)
      BY <1>6, <1>11 DEF MessageEnds
    <3>2. Pushed(State(st, e), d[2]).messages = Handed(st, Append(e, d[2]))
      BY <2>5, <2>7, <3>1, DataCompletes
    <3> QED BY <2>4, <2>6, <3>2
  <2>10. z.messages = <<>> \o Handed(st, f)
    BY <2>1, <2>4, <2>9 DEF Then
  <2>11. <<>> \o Handed(st, f) = Handed(st, f)
    <3>1. Handed(st, f) = <<>> \/ \E v : Handed(st, f) = <<v>>
      BY DEF Handed
    <3>2. <<>> \o <<>> = <<>> /\ \A v : <<>> \o <<v>> = <<v>>
      OBVIOUS
    <3> QED BY <3>1, <3>2
  <2> QED BY <1>3, <2>2, <2>8, <2>10, <2>11
<1> QED BY <1>1, <1>10, <1>11
-----------------------------------------------------------------------------
LEMMA OneByte ==
  ASSUME NEW p, NEW b
  PROVE  PushedAll(p, <<b>>) = Then(From(p), b)
<1>1. PICK s : s = <<b>>
  OBVIOUS
<1>2. Len(s) = 1 /\ s[1] = b /\ 1 \in 0..3
  BY <1>1
<1> QED BY <1>1, <1>2, PushedFew

LEMMA OneByteParsed ==
  ASSUME NEW p, NEW b, Pushed(p, b).messages = <<>> \/ \E m : Pushed(p, b).messages = <<m>>
  PROVE  /\ PushedAll(p, <<b>>).parser = Pushed(p, b).parser
         /\ PushedAll(p, <<b>>).messages = Pushed(p, b).messages
<1>1. From(p).parser = p /\ From(p).messages = <<>>
  BY DEF From
<1>2. <<>> \o <<>> = <<>> /\ \A m : <<>> \o <<m>> = <<m>>
  OBVIOUS
<1>3. /\ Then(From(p), b).parser = Pushed(p, b).parser
      /\ Then(From(p), b).messages = <<>> \o Pushed(p, b).messages
  BY <1>1 DEF Then
<1> QED BY <1>2, <1>3, OneByte

\* What each kind of byte does: the parser that it leaves, and what the next unit makes of it.
NextFollows(b) ==
    /\ \E st, d : Pushed(parser, b).parser = State(st, d) /\ Unfinished(st, d)
    /\ Pushed(parser, b).parser.running = 240 => NextPushed(b).parser = State(240, <<>>)
    /\ ~PassesOnMore(b) => NextPushed(b).messages = Messages(b)

LEMMA InSysEx ==
  ASSUME NEW st, NEW d, parser = State(st, d), Unfinished(st, d)
  PROVE  /\ parser.running = st /\ parser.data = d
         /\ st = 240 => d = <<>>
<1>1. parser.running = st /\ parser.data = d
  BY DEF State
<1>2. ASSUME st = 240
      PROVE  d = <<>>
  <2>1. d \in Seq(DataBytes) /\ Len(d) < 1
    BY <1>2, SystemSizes DEF Unfinished
  <2> QED BY <2>1, EmptySeq
<1> QED BY <1>1, <1>2

LEMMA RealtimeFollows ==
  ASSUME NextInv, NEW b \in 248..255
  PROVE  NextFollows(b)
<1>1. PICK st, d : parser = State(st, d) /\ Unfinished(st, d)
  BY DEF NextInv
<1>2. IsRealtime(b) /\ ~IsStatus(b) /\ b \notin {240, 247}
  BY DEF IsRealtime, IsStatus
<1>3. \A p : /\ Pushed(p, b).parser = p /\ Pushed(p, b).messages = Handed(b, p.data)
             /\ Pushed(p, b).out = PassedOn(b, p.data)
  BY <1>2 DEF Pushed, AfterRealtime
<1>4. \A x, y : Handed(b, x) = Handed(b, y)
  BY <1>2 DEF Handed
<1>5. \A x : Handed(b, x) = <<>> \/ \E m : Handed(b, x) = <<m>>
  BY <1>2 DEF Handed
<1>6. ASSUME parser.data = <<>>
      PROVE  NextPushed(b).parser = next /\ NextPushed(b).messages = Messages(b)
  <2>1. PassedOn(b, <<>>) = <<b>>
    <3>1. <<b>> \o <<>> = <<b>>
      OBVIOUS
    <3> QED BY <1>2, <3>1 DEF PassedOn
  <2>2. NextPushed(b) = PushedAll(next, <<b>>)
    BY <1>3, <1>6, <2>1 DEF NextPushed
  <2>3. /\ PushedAll(next, <<b>>).parser = next
        /\ PushedAll(next, <<b>>).messages = Handed(b, next.data)
    <3>1. Pushed(next, b).parser = next /\ Pushed(next, b).messages = Handed(b, next.data)
      BY <1>3
    <3>2. Pushed(next, b).messages = <<>> \/ \E m : Pushed(next, b).messages = <<m>>
      BY <1>5, <3>1
    <3> QED BY <3>1, <3>2, OneByteParsed
  <2> QED BY <1>3, <1>4, <2>2, <2>3 DEF Messages
<1>7. Pushed(parser, b).parser = parser
  BY <1>3
<1>8. parser.running = 240 => parser.data = <<>> /\ next = State(240, <<>>)
  BY <1>1, InSysEx DEF NextInv
<1>9. ~PassesOnMore(b) => parser.data = <<>>
  BY <1>2 DEF PassesOnMore
<1> QED BY <1>1, <1>6, <1>7, <1>8, <1>9 DEF NextFollows

LEMMA UnfinishedStart ==
  /\ Unfinished(0, <<>>) /\ Fresh = State(0, <<>>)
  /\ \A b \in Begun : Unfinished(b, <<>>)
<1>1. <<>> \in Seq(DataBytes) /\ Len(<<>>) = 0
  OBVIOUS
<1>2. Unfinished(0, <<>>) /\ Fresh = State(0, <<>>)
  BY <1>1, SystemSizes DEF Unfinished, State, Fresh
<1>3. ASSUME NEW b \in Begun
      PROVE  Unfinished(b, <<>>)
  <2>1. 0 < ExpectedSize(b)
    BY SizesOfStatus
  <2> QED BY <1>1, <2>1 DEF Unfinished
<1> QED BY <1>2, <1>3

LEMMA StatusFollows ==
  ASSUME NextInv, NEW b \in 128..247
  PROVE  NextFollows(b)
<1>0. StatusByte(b)
  BY DEF StatusByte
<1>1. PICK st, d : parser = State(st, d) /\ Unfinished(st, d)
  BY DEF NextInv
<1>2. /\ \A x, y : State(x, y).running = x
      /\ Fresh.running = 0
  BY DEF State, Fresh
<1>3. CASE b \in 128..243 \ {240}
  <2>1. /\ Pushed(parser, b).parser = State(b, <<>>) /\ Pushed(parser, b).messages = <<>>
        /\ Pushed(parser, b).out = <<>>
    <3>0. b \in Begun /\ b # 240
      BY <1>3 DEF Begun
    <3>1. Pushed(parser, b) = [parser |-> State(b, <<>>), messages |-> <<>>, out |-> <<>>]
      BY <1>0, <3>0, StatusPushed
    <3> QED BY <3>1
  <2>2. b \in Begun /\ b # 240
    BY <1>3 DEF Begun
  <2>3. NextPushed(b).messages = <<>>
    <3>1. PICK none : none = <<>>
      OBVIOUS
    <3>2. Len(none) = 0 /\ 0 \in 0..3
      BY <3>1
    <3>3. PushedAll(next, none) = From(next)
      BY <3>2, PushedFew
    <3> QED BY <2>1, <3>1, <3>3 DEF NextPushed, From
  <2> QED BY <1>2, <2>1, <2>2, <2>3, UnfinishedStart DEF NextFollows, Messages
<1>4. CASE b = 240
  <2>1. \A p : /\ Pushed(p, b).parser = State(240, <<>>) /\ Pushed(p, b).messages = <<<<240>>>>
               /\ Pushed(p, b).out = <<240>>
    <3> SUFFICES ASSUME NEW p
                 PROVE  /\ Pushed(p, b).parser = State(240, <<>>)
                        /\ Pushed(p, b).messages = <<<<240>>>> /\ Pushed(p, b).out = <<240>>
      OBVIOUS
    <3>1. Pushed(p, b) = [parser |-> State(240, <<>>), messages |-> <<<<240>>>>, out |-> <<240>>]
      BY <1>4, <1>0, StatusPushed
    <3> QED BY <3>1
  <2>2. NextPushed(b) = PushedAll(next, <<b>>)
    BY <1>4, <2>1 DEF NextPushed
  <2>3. /\ PushedAll(next, <<b>>).parser = State(240, <<>>)
        /\ PushedAll(next, <<b>>).messages = <<<<240>>>>
    BY <2>1, OneByteParsed
  <2>4. 240 \in Begun
    BY DEF Begun
  <2> QED BY <2>1, <2>2, <2>3, <2>4, UnfinishedStart DEF NextFollows, Messages
<1>5. CASE b \in 244..246
  <2>1. \A p : /\ Pushed(p, b).parser = Fresh /\ Pushed(p, b).messages = <<>>
               /\ Pushed(p, b).out = <<b>>
    <3> SUFFICES ASSUME NEW p
                 PROVE  /\ Pushed(p, b).parser = Fresh /\ Pushed(p, b).messages = <<>>
                        /\ Pushed(p, b).out = <<b>>
      OBVIOUS
    <3>1. Pushed(p, b) = [parser |-> Fresh, messages |-> <<>>, out |-> <<b>>]
      BY <1>0, <1>5, StatusPushed
    <3> QED BY <3>1
  <2>2. NextPushed(b) = PushedAll(next, <<b>>)
    BY <2>1 DEF NextPushed
  <2>3. PushedAll(next, <<b>>).messages = <<>>
    BY <2>1, OneByteParsed
  <2> QED BY <1>2, <2>1, <2>2, <2>3, UnfinishedStart DEF NextFollows, Messages
<1>6. CASE b = 247
  <2>1. \A p : /\ Pushed(p, b).parser = Fresh
               /\ Pushed(p, b).messages = IF p.running = 240 THEN <<<<247>>>> ELSE <<>>
               /\ Pushed(p, b).out = IF p.running = 240 THEN <<247, 0>> ELSE <<0>>
    <3> SUFFICES ASSUME NEW p
                 PROVE  /\ Pushed(p, b).parser = Fresh
                        /\ Pushed(p, b).messages = IF p.running = 240 THEN <<<<247>>>> ELSE <<>>
                        /\ Pushed(p, b).out = IF p.running = 240 THEN <<247, 0>> ELSE <<0>>
      OBVIOUS
    <3> QED BY <1>6, <1>0, StatusPushed
  <2>2. ASSUME ~PassesOnMore(b)
        PROVE  NextPushed(b).messages = Messages(b)
    <3>1. parser.running = 240 /\ next = State(240, <<>>)
      BY <1>6, <2>2 DEF PassesOnMore, NextInv
    <3>2. PICK out : out = <<247, 0>>
      OBVIOUS
    <3>3. Len(out) = 2 /\ out[1] = b /\ out[2] = 0 /\ 2 \in 0..3
      BY <1>6, <3>2
    <3>4. PICK x, y : x = Then(From(next), b) /\ y = Then(x, 0)
      OBVIOUS
    <3>5. NextPushed(b) = y
      <4>1. NextPushed(b) = PushedAll(next, out)
        BY <2>1, <3>1, <3>2 DEF NextPushed
      <4> QED BY <3>3, <3>4, <4>1, PushedFew
    <3>6. x.parser = Fresh /\ x.messages = <<<<247>>>>
      <4>1. From(next).parser = next /\ From(next).messages = <<>> /\ next.running = 240
        BY <1>2, <3>1 DEF From
      <4>2. <<>> \o <<<<247>>>> = <<<<247>>>>
        OBVIOUS
      <4>3. Pushed(next, b).parser = Fresh /\ Pushed(next, b).messages = <<<<247>>>>
        BY <2>1, <4>1
      <4> QED BY <3>4, <4>1, <4>2, <4>3 DEF Then
    <3>7. Pushed(Fresh, 0).messages = <<>>
      <4>1. PICK none : none = <<>>
        OBVIOUS
      <4>2. Unfinished(0, none) /\ Fresh = State(0, none) /\ 0 \in DataBytes
        BY <4>1, UnfinishedStart DEF DataBytes
      <4>3. MessageEnds(0, none)
        BY <4>1, SystemSizes DEF MessageEnds
      <4>4. Pushed(State(0, none), 0).messages = Handed(0, Append(none, 0))
        BY <4>2, <4>3, DataCompletes
      <4>5. Handed(0, Append(none, 0)) = <<>>
        BY DEF Handed, IsRealtime
      <4> QED BY <4>2, <4>4, <4>5
    <3>8. y.messages = <<<<247>>>>
      <4>1. <<<<247>>>> \o <<>> = <<<<247>>>>
        OBVIOUS
      <4> QED BY <3>4, <3>6, <3>7, <4>1 DEF Then
    <3> QED BY <2>1, <3>1, <3>5, <3>8 DEF Messages
  <2> QED BY <1>2, <2>1, <2>2, UnfinishedStart DEF NextFollows
<1>7. b \in 128..243 \ {240} \/ b = 240 \/ b \in 244..246 \/ b = 247
  OBVIOUS
<1> QED BY <1>3, <1>4, <1>5, <1>6, <1>7

LEMMA DataFollowsOn ==
  ASSUME NextInv, NEW b \in DataBytes
  PROVE  NextFollows(b)
<1>1. PICK st, d : parser = State(st, d) /\ Unfinished(st, d)
  BY DEF NextInv
<1>2. /\ \A x, y : State(x, y).running = x
      /\ Fresh.running = 0
  BY DEF State, Fresh
<1>3. parser.running = st /\ (st = 0 \/ st \in Begun) /\ d \in Seq(DataBytes)
  BY <1>1, <1>2 DEF Unfinished
<1>4. PICK e : e = Append(d, b)
  OBVIOUS
<1>5. e \in Seq(DataBytes) /\ Len(e) = Len(d) + 1
  BY <1>3, <1>4, AppendProperties
<1>6. CASE ~MessageEnds(st, d)
  <2>1. /\ Pushed(parser, b).parser = State(st, e) /\ Pushed(parser, b).messages = <<>>
        /\ Pushed(parser, b).out = <<>>
    BY <1>1, <1>4, <1>6, DataWaits
  <2>2. NextPushed(b).messages = <<>>
    <3>1. PICK none : none = <<>>
      OBVIOUS
    <3>2. Len(none) = 0 /\ 0 \in 0..3
      BY <3>1
    <3>3. PushedAll(next, none) = From(next)
      BY <3>2, PushedFew
    <3> QED BY <2>1, <3>1, <3>3 DEF NextPushed, From
  <2>3. Unfinished(st, e) /\ st # 240
    <3>1. Len(e) < ExpectedSize(st) /\ Len(e) \in Nat \ {0}
      <4>1. Len(d) \in Nat
        BY <1>3, LenProperties
      <4> QED BY <1>5, <1>6, <4>1 DEF MessageEnds
    <3>2. st # 0 /\ st # 240
      BY <3>1, SystemSizes
    <3> QED BY <1>3, <1>5, <3>1, <3>2 DEF Unfinished
  <2> QED BY <1>2, <2>1, <2>2, <2>3 DEF NextFollows, Messages
<1>7. CASE MessageEnds(st, d)
  <2>1. /\ Pushed(parser, b).parser = IF st > 240 THEN Fresh ELSE State(st, <<>>)
        /\ Pushed(parser, b).messages = Handed(st, e) /\ Pushed(parser, b).out = PassedOn(st, e)
    BY <1>1, <1>4, <1>7, DataCompletes
  <2>2. \E s, x : Pushed(parser, b).parser = State(s, x) /\ Unfinished(s, x)
    BY <1>3, <2>1, UnfinishedStart
  <2>3. \A x : Handed(st, x) = <<>> \/ \E m : Handed(st, x) = <<m>>
    BY DEF Handed
  <2>4. CASE st = 240
    <3>1. d = <<>> /\ next = State(240, <<>>)
      BY <1>1, <1>3, <2>4, InSysEx DEF NextInv
    <3>2. PassedOn(st, e) = <<b>>
      BY <1>4, <2>4, <3>1 DEF PassedOn
    <3>3. NextPushed(b) = PushedAll(next, <<b>>)
      BY <2>1, <3>2 DEF NextPushed
    <3>4. next = parser
      BY <1>1, <2>4, <3>1
    <3>5. /\ PushedAll(next, <<b>>).parser = State(240, <<>>)
          /\ PushedAll(next, <<b>>).messages = Handed(st, e)
      <4>1. Pushed(next, b).parser = State(240, <<>>) /\ Pushed(next, b).messages = Handed(st, e)
        BY <2>1, <2>4, <3>4
      <4>2. Pushed(next, b).messages = <<>> \/ \E m : Pushed(next, b).messages = <<m>>
        BY <2>3, <4>1
      <4> QED BY <4>1, <4>2, OneByteParsed
    <3> QED BY <2>1, <2>2, <3>3, <3>5 DEF NextFollows, Messages
  <2>5. CASE st # 240 /\ st # 0
    <3>1. st \in Begun \ {240} /\ st # 247
      <4>1. st \in Begun
        BY <1>3, <2>5
      <4>2. st \in 128..243
        BY <4>1 DEF Begun
      <4> QED BY <2>5, <4>1, <4>2
    <3>2. Len(e) = ExpectedSize(st)
      <4>1. Len(d) \in Nat /\ ExpectedSize(st) \in {1, 2} /\ Len(d) < ExpectedSize(st)
        BY <1>1, <2>5, <3>1, SizesOfStatus, LenProperties DEF Unfinished
      <4> QED BY <1>5, <1>7, <4>1 DEF MessageEnds
    <3>3. PassedOn(st, e) = <<st>> \o e
      BY <2>5, <3>1 DEF PassedOn
    <3>4. NextPushed(b).messages = Handed(st, e)
      BY <1>5, <2>1, <3>1, <3>2, <3>3, Reparsed DEF NextPushed
    <3>5. Pushed(parser, b).parser.running # 240
      BY <1>2, <2>1, <2>5
    <3> QED BY <2>1, <2>2, <3>4, <3>5 DEF NextFollows, Messages
  <2>6. CASE st = 0
    <3>1. PassesOnMore(b) /\ Pushed(parser, b).parser.running # 240
      BY <1>2, <1>3, <2>1, <2>6 DEF PassesOnMore, DataBytes
    <3> QED BY <2>2, <3>1 DEF NextFollows
  <2> QED BY <2>4, <2>5, <2>6
<1> QED BY <1>6, <1>7

LEMMA EachByteFollows ==
  ASSUME NextInv, NEW b \in Input
  PROVE  NextFollows(b)
<1>1. b \in 248..255 \/ b \in 128..247 \/ b \in DataBytes
  BY ParserAssumption DEF DataBytes
<1> QED BY <1>1, RealtimeFollows, StatusFollows, DataFollowsOn

\* NextUnitFollows holds of any stream of bytes: while a SysEx comes in the next unit is in it
\* too, and every other message is passed on whole, after which its parser does not matter.
THEOREM NextUnitAgrees == ParserSpec => []NextUnitFollows
<1>1. ParserInit => NextInv
  <2> SUFFICES ASSUME ParserInit
               PROVE  NextInv
    OBVIOUS
  <2>1. parser = State(0, <<>>) /\ Unfinished(0, <<>>)
    BY UnfinishedStart DEF ParserInit
  <2>2. parser.running # 240
    BY <2>1 DEF State
  <2> QED BY <2>1, <2>2 DEF NextInv
<1>2. NextInv /\ [ParserNext]_parserVars => NextInv'
  <2> SUFFICES ASSUME NextInv, [ParserNext]_parserVars
               PROVE  NextInv'
    OBVIOUS
  <2>1. CASE UNCHANGED parserVars
    BY <2>1 DEF NextInv, parserVars
  <2>2. ASSUME NEW b \in Input, PushByte(b)
        PROVE  NextInv'
    <3>1. parser' = Pushed(parser, b).parser /\ next' = NextPushed(b).parser
      BY <2>2 DEF PushByte, NextPushed
    <3>2. NextFollows(b)
      BY EachByteFollows
    <3> QED BY <3>1, <3>2 DEF NextFollows, NextInv
  <2> QED BY <2>1, <2>2 DEF ParserNext
<1>3. NextInv => NextUnitFollows
  BY EachByteFollows DEF NextUnitFollows, NextFollows
<1> QED BY <1>1, <1>2, <1>3, PTL DEF ParserSpec

-----------------------------------------------------------------------------
(* MIDI out (MidiPorts): the parser of the next unit is this one.          *)

LEMMA SameParser ==
    /\ \A b : Parser!ExpectedSize(b) = ExpectedSize(b)
    /\ \A p, b : Parser!Pushed(p, b) = Pushed(p, b)
    /\ \A ms : Parser!ChannelMessages(ms) = ChannelMessages(ms)
<1>1. \A b : Parser!Hi(b) = Hi(b) /\ Parser!IsRealtime(b) = IsRealtime(b)
  BY DEF Parser!Hi, Hi, Parser!IsRealtime, IsRealtime
<1>2. \A b : Parser!IsStatus(b) = IsStatus(b)
  BY <1>1 DEF Parser!IsStatus, IsStatus
<1>3. \A b : Parser!ExpectedSize(b) = ExpectedSize(b)
  BY <1>1 DEF Parser!ExpectedSize, ExpectedSize
<1>4. \A st, d : Parser!Handed(st, d) = Handed(st, d)
  BY <1>1 DEF Parser!Handed, Handed
<1>5. \A st, d : Parser!PassedOn(st, d) = PassedOn(st, d)
  BY DEF Parser!PassedOn, PassedOn
<1>6. Parser!Fresh = Fresh
  BY DEF Parser!Fresh, Fresh
<1>7. \A p : Parser!Completed(p) = Completed(p)
  BY <1>4, <1>5, <1>6 DEF Parser!Completed, Completed
<1>8. ASSUME NEW p, NEW b
      PROVE  Parser!AfterStatus(p, b) = AfterStatus(p, b)
  <2>1. PICK st, e : st = (IF b = 247 THEN 0 ELSE b) /\ e = ExpectedSize(b)
    OBVIOUS
  <2>2. PICK q : q = [running |-> st, data |-> <<>>, expected |-> e]
    OBVIOUS
  <2>3. PICK c : c = Completed(q)
    OBVIOUS
  <2> DEFINE r == IF q.expected = 0 THEN c ELSE [parser |-> q, messages |-> <<>>, out |-> <<>>]
             edge == IF b = 240 \/ (b = 247 /\ p.running = 240) THEN <<b>> ELSE <<>>
             made == [r EXCEPT !.messages = (IF edge = <<>> THEN <<>> ELSE <<edge>>) \o @,
                               !.out = edge \o @]
  <2>4. Parser!ExpectedSize(b) = e /\ Parser!Completed(q) = c
    BY <1>3, <1>7, <2>1, <2>3
  <2>5. AfterStatus(p, b) = made
    BY <2>1, <2>2, <2>3 DEF AfterStatus
  <2>6. Parser!AfterStatus(p, b) = made
    <3>1. PICK d : d = Parser!Completed(q)
      OBVIOUS
    <3>2. PICK f : f = Parser!ExpectedSize(b)
      OBVIOUS
    <3>3. e = f /\ c = d
      BY <2>4, <3>1, <3>2
    <3>4. q = [running |-> st, data |-> <<>>, expected |-> f]
      BY <2>2, <3>3
    <3> DEFINE r2 == IF q.expected = 0 THEN d ELSE [parser |-> q, messages |-> <<>>, out |-> <<>>]
    <3>5. Parser!AfterStatus(p, b) =
              [r2 EXCEPT !.messages = (IF edge = <<>> THEN <<>> ELSE <<edge>>) \o @,
                         !.out = edge \o @]
      BY <2>1, <3>1, <3>2, <3>4 DEF Parser!AfterStatus
    <3> QED BY <3>3, <3>5
  <2> HIDE DEF made
  <2> QED BY <2>5, <2>6
<1>9. ASSUME NEW p, NEW b
      PROVE  Parser!AfterData(p, b) = AfterData(p, b)
  <2>1. PICK q : q = [p EXCEPT !.data = Append(@, b)]
    OBVIOUS
  <2>2. Parser!AfterData(p, b) = IF Len(q.data) >= q.expected THEN Parser!Completed(q)
                                 ELSE [parser |-> q, messages |-> <<>>, out |-> <<>>]
    BY <2>1 DEF Parser!AfterData
  <2>3. AfterData(p, b) = IF Len(q.data) >= q.expected THEN Completed(q)
                          ELSE [parser |-> q, messages |-> <<>>, out |-> <<>>]
    BY <2>1 DEF AfterData
  <2> QED BY <1>7, <2>2, <2>3
<1>10. \A p, b : Parser!AfterRealtime(p, b) = AfterRealtime(p, b)
  BY <1>4, <1>5 DEF Parser!AfterRealtime, AfterRealtime
<1>11. \A p, b : Parser!Pushed(p, b) = Pushed(p, b)
  BY <1>1, <1>2, <1>8, <1>9, <1>10 DEF Parser!Pushed, Pushed
<1>12. ASSUME NEW ms
       PROVE  Parser!ChannelMessages(ms) = ChannelMessages(ms)
  BY Zenon DEF Parser!ChannelMessages, ChannelMessages
<1> QED BY <1>3, <1>11, <1>12

\* A byte hands over one message or none; of one, it is a channel message if its status is.
LEMMA ChannelOfFew ==
    /\ ChannelMessages(<<>>) = <<>>
    /\ \A m : ChannelMessages(<<m>>) = IF m[1] < 240 THEN <<m>> ELSE <<>>
<1> DEFINE kept(m) == IF m[1] < 240 THEN <<m>> ELSE <<>>
           Upto(ms) == CHOOSE x : x = [i \in 0..Len(ms) |->
                           IF i = 0 THEN <<>> ELSE x[i - 1] \o kept(ms[i])]
<1>1. \A ms : ChannelMessages(ms) = Upto(ms)[Len(ms)]
  BY DEF ChannelMessages
<1>2. ASSUME NEW ms, NEW n \in 0..1, Len(ms) = n
      PROVE  Upto(ms)[0] = <<>> /\ (n = 1 => Upto(ms)[1] = <<>> \o kept(ms[1]))
  <2> HIDE DEF kept
  <2> DEFINE upto == Upto(ms)
             g == [i \in 0..n |-> IF i = 0 THEN <<>> ELSE <<>> \o kept(ms[1])]
  <2>1. \A i \in 0..n : g[i] = IF i = 0 THEN <<>> ELSE g[i - 1] \o kept(ms[i])
    <3>1. \A i \in 0..n : i = 0 \/ (i = 1 /\ i - 1 = 0 /\ 0 \in 0..n)
      OBVIOUS
    <3> QED BY <3>1
  <2>2. g = [i \in 0..n |-> g[i]]
    OBVIOUS
  <2> HIDE DEF g
  <2>3. g = [i \in 0..n |-> IF i = 0 THEN <<>> ELSE g[i - 1] \o kept(ms[i])]
    BY <2>1, <2>2
  <2>4. upto = CHOOSE x : x = [i \in 0..n |-> IF i = 0 THEN <<>> ELSE x[i - 1] \o kept(ms[i])]
    BY <1>2
  <2> HIDE DEF upto
  <2>5. upto = [i \in 0..n |-> IF i = 0 THEN <<>> ELSE upto[i - 1] \o kept(ms[i])]
    BY <2>3, <2>4, Zenon
  <2> DEFINE entry(i) == IF i = 0 THEN <<>> ELSE upto[i - 1] \o kept(ms[i])
  <2>6. \A i \in 0..n : upto[i] = entry(i)
    <3>1. upto = [i \in 0..n |-> entry(i)]
      BY <2>5
    <3> HIDE DEF entry
    <3> QED BY <3>1
  <2>7. upto[0] = <<>>
    BY <2>6
  <2>8. ASSUME n = 1
        PROVE  upto[1] = <<>> \o kept(ms[1])
    <3>1. 1 \in 0..n /\ 1 - 1 = 0 /\ 1 # 0
      BY <2>8
    <3> QED BY <2>6, <2>7, <3>1
  <2> QED BY <2>7, <2>8 DEF upto
<1> HIDE DEF Upto
<1>3. ChannelMessages(<<>>) = <<>>
  <2>1. PICK ms : ms = <<>>
    OBVIOUS
  <2>2. Len(ms) = 0 /\ 0 \in 0..1
    BY <2>1
  <2> QED BY <1>1, <1>2, <2>1, <2>2
<1>4. ASSUME NEW m
      PROVE  ChannelMessages(<<m>>) = IF m[1] < 240 THEN <<m>> ELSE <<>>
  <2>1. PICK ms : ms = <<m>>
    OBVIOUS
  <2>2. Len(ms) = 1 /\ ms[1] = m /\ 1 \in 0..1
    BY <2>1
  <2>3. ChannelMessages(ms) = <<>> \o kept(m)
    <3> HIDE DEF kept
    <3> QED BY <1>1, <1>2, <2>2
  <2>4. <<>> \o <<>> = <<>> /\ <<>> \o <<m>> = <<m>>
    OBVIOUS
  <2> QED BY <2>1, <2>3, <2>4
<1> QED BY <1>3, <1>4

-----------------------------------------------------------------------------
(* What the next unit makes of the bytes of a message, in order.           *)

\* Its parser in the middle of a message, the first bytes of which have come.
Waiting(a) == State(a[1], IF a[1] = 240 THEN <<>> ELSE Tail(a))

LEMMA PrefixFacts ==
    ASSUME NEW S, NEW m \in Seq(S), NEW i \in 1..Len(m)
    PROVE  /\ SubSeq(m, 1, i) \in Seq(S) /\ Len(SubSeq(m, 1, i)) = i
           /\ \A k \in 1..i : SubSeq(m, 1, i)[k] = m[k]
           /\ SubSeq(m, 1, i)[1] = m[1]
<1>1. 1 \in 1..(Len(m) + 1) /\ i \in (1 - 1)..Len(m) /\ i \in Nat
  OBVIOUS
<1>2. PICK s : s = SubSeq(m, 1, i)
  OBVIOUS
<1>3. s \in Seq(S) /\ Len(s) = i /\ \A k \in 1..i : s[k] = m[k]
  <2>1. \A k \in 1..i : m[k] \in S
    OBVIOUS
  <2>2. s = [k \in 1..i |-> m[k]]
    BY <1>1, <1>2
  <2> QED BY <1>1, <2>1, <2>2
<1> QED BY <1>1, <1>2, <1>3

LEMMA PrefixGrows ==
    ASSUME NEW S, NEW m \in Seq(S), NEW i \in 2..Len(m)
    PROVE  /\ Append(SubSeq(m, 1, i - 1), m[i]) = SubSeq(m, 1, i)
           /\ Append(Tail(SubSeq(m, 1, i - 1)), m[i]) = Tail(SubSeq(m, 1, i))
           /\ Tail(SubSeq(m, 1, i - 1)) \in Seq(S) /\ Len(Tail(SubSeq(m, 1, i - 1))) = i - 2
           /\ \A k \in 1..(i - 2) : Tail(SubSeq(m, 1, i - 1))[k] = m[k + 1]
<1>1. i - 1 \in 1..Len(m) /\ i \in 1..Len(m) /\ m[i] \in S
  OBVIOUS
<1>2. PICK a, b : a = SubSeq(m, 1, i - 1) /\ b = SubSeq(m, 1, i)
  OBVIOUS
<1>3. /\ a \in Seq(S) /\ Len(a) = i - 1 /\ \A k \in 1..(i - 1) : a[k] = m[k]
      /\ b \in Seq(S) /\ Len(b) = i /\ \A k \in 1..i : b[k] = m[k]
  BY <1>1, <1>2, PrefixFacts
<1>4. PICK c : c = Append(a, m[i])
  OBVIOUS
<1>5. c \in Seq(S) /\ Len(c) = i /\ \A k \in 1..i : c[k] = m[k]
  BY <1>1, <1>3, <1>4
<1>6. c = b
  <2>1. \A k \in 1..Len(c) : c[k] = b[k]
    BY <1>3, <1>5
  <2>2. Len(c) = Len(b)
    BY <1>3, <1>5
  <2> QED BY <1>3, <1>5, <2>1, <2>2, SeqEqual, Zenon
<1>7. PICK t, u : t = Tail(a) /\ u = Tail(b)
  OBVIOUS
<1>8. /\ t \in Seq(S) /\ Len(t) = i - 2 /\ \A k \in 1..(i - 2) : t[k] = m[k + 1]
      /\ u \in Seq(S) /\ Len(u) = i - 1 /\ \A k \in 1..(i - 1) : u[k] = m[k + 1]
  BY <1>3, <1>7
<1>9. PICK v : v = Append(t, m[i])
  OBVIOUS
<1>10. v \in Seq(S) /\ Len(v) = i - 1 /\ \A k \in 1..(i - 1) : v[k] = m[k + 1]
  BY <1>1, <1>8, <1>9
<1>11. v = u
  <2>1. \A k \in 1..Len(v) : v[k] = u[k]
    BY <1>8, <1>10
  <2>2. Len(v) = Len(u)
    BY <1>8, <1>10
  <2> QED BY <1>8, <1>10, <2>1, <2>2, SeqEqual, Zenon
<1> QED BY <1>2, <1>4, <1>6, <1>7, <1>8, <1>9, <1>11

\* A message is its first byte and the others.
LEMMA StatusAndData ==
    ASSUME NEW S, NEW m \in Seq(S), m # <<>>
    PROVE  <<m[1]>> \o Tail(SubSeq(m, 1, Len(m))) = m
<1>1. Len(m) \in 1..Len(m) /\ m[1] \in S
  OBVIOUS
<1>2. PICK a, t, s : a = SubSeq(m, 1, Len(m)) /\ t = Tail(a) /\ s = <<m[1]>>
  OBVIOUS
<1>3. a \in Seq(S) /\ Len(a) = Len(m) /\ \A k \in 1..Len(m) : a[k] = m[k]
  BY <1>1, <1>2, PrefixFacts
<1>4. t \in Seq(S) /\ Len(t) = Len(m) - 1 /\ \A k \in 1..(Len(m) - 1) : t[k] = m[k + 1]
  BY <1>1, <1>2, <1>3
<1>5. s \in Seq(S) /\ Len(s) = 1 /\ s[1] = m[1]
  BY <1>1, <1>2
<1>6. PICK w : w = s \o t
  OBVIOUS
<1>7. /\ w \in Seq(S) /\ Len(w) = Len(s) + Len(t)
      /\ \A i \in 1..(Len(s) + Len(t)) : w[i] = IF i <= Len(s) THEN s[i] ELSE t[i - Len(s)]
  <2>1. s \in Seq(S) /\ t \in Seq(S)
    BY <1>4, <1>5
  <2> QED BY <1>6, <2>1, ConcatProperties
<1>8. Len(w) = Len(m)
  BY <1>1, <1>4, <1>5, <1>7
<1>9. ASSUME NEW i \in 1..Len(w)
      PROVE  w[i] = m[i]
  <2>0. Len(m) \in Nat /\ i \in 1..Len(m) /\ Len(s) + Len(t) = Len(m)
    BY <1>4, <1>5, <1>8
  <2>1. CASE i = 1
    BY <1>5, <1>7, <2>0, <2>1
  <2>2. CASE i # 1
    <3>1. i - 1 \in 1..(Len(m) - 1) /\ ~(i <= Len(s)) /\ i - Len(s) = i - 1 /\ (i - 1) + 1 = i
      BY <1>5, <2>0, <2>2
    <3>2. w[i] = t[i - 1]
      BY <1>7, <2>0, <3>1
    <3> QED BY <1>4, <3>1, <3>2
  <2> QED BY <2>1, <2>2
<1> QED BY <1>2, <1>6, <1>7, <1>8, <1>9, SeqEqual, Zenon


\* After byte i of a message, what comes before it having been waited for.
GoesOnWith(m, i, r) ==
    /\ ChannelMessages(r.messages) = IF i = Len(m) /\ m[1] < 240 THEN <<m>> ELSE <<>>
    /\ i < Len(m) => r.parser = Waiting(SubSeq(m, 1, i))

LEMMA FirstByte ==
    ASSUME NEW m, IsMessage(m), NEW p
    PROVE  GoesOnWith(m, 1, Pushed(p, m[1]))
<1>1. m \in Seq(0..255) /\ Len(m) \in Nat
  BY DEF IsMessage
<1>2. PICK st, r : st = m[1] /\ r = Pushed(p, m[1])
  OBVIOUS
<1>3. CASE IsChannelMessage(m)
  <2>1. st \in ChannelStatus /\ Len(m) = 1 + ExpectedSize(st)
    BY <1>2, <1>3, SameParser DEF IsChannelMessage, ChannelStatus
  <2>2. Len(m) > 1
    BY <2>1, ChannelSizes
  <2>3. StatusByte(st) /\ st \in Begun /\ st # 240
    BY <2>1 DEF StatusByte, Begun, ChannelStatus
  <2>4. r = [parser |-> State(st, <<>>), messages |-> <<>>, out |-> <<>>]
    BY <1>2, <2>3, StatusPushed
  <2>5. r.parser = State(st, <<>>) /\ r.messages = <<>>
    BY <2>4
  <2>6. Waiting(SubSeq(m, 1, 1)) = State(st, <<>>)
    <3>1. PICK a : a = SubSeq(m, 1, 1)
      OBVIOUS
    <3>2. a \in Seq(0..255) /\ Len(a) = 1 /\ a[1] = st
      <4>1. 1 \in 1..Len(m)
        BY <1>1, <2>2
      <4> QED BY <1>1, <1>2, <3>1, <4>1, PrefixFacts
    <3>3. Tail(a) = <<>>
      <4>1. PICK t : t = Tail(a)
        OBVIOUS
      <4>2. t \in Seq(0..255) /\ Len(t) = 0
        BY <3>2, <4>1
      <4> QED BY <4>1, <4>2
    <3> QED BY <2>3, <3>1, <3>2, <3>3 DEF Waiting
  <2>7. ASSUME Len(m) = 1
        PROVE  FALSE
    BY <2>2, <2>7
  <2> QED BY <1>2, <2>5, <2>6, <2>7, ChannelOfFew DEF GoesOnWith
<1>4. CASE IsSysEx(m)
  <2>1. st = 240 /\ Len(m) > 1
    BY <1>2, <1>4 DEF IsSysEx
  <2>2. StatusByte(st)
    BY <2>1 DEF StatusByte
  <2>3. r = [parser |-> State(240, <<>>), messages |-> <<<<240>>>>, out |-> <<240>>]
    BY <1>2, <2>1, <2>2, StatusPushed
  <2>4. r.parser = State(240, <<>>) /\ r.messages = <<<<240>>>>
    BY <2>3
  <2>5. Waiting(SubSeq(m, 1, 1)) = State(240, <<>>)
    <3>1. 1 \in 1..Len(m)
      BY <1>1, <2>1
    <3>2. SubSeq(m, 1, 1)[1] = m[1]
      BY <1>1, <3>1, PrefixFacts
    <3> QED BY <1>2, <2>1, <3>2 DEF Waiting
  <2>6. ChannelMessages(r.messages) = <<>>
    <3>1. PICK x : x = <<240>>
      OBVIOUS
    <3>2. ~(x[1] < 240) /\ r.messages = <<x>>
      BY <2>4, <3>1
    <3> QED BY <3>2, ChannelOfFew
  <2> QED BY <1>2, <2>1, <2>4, <2>5, <2>6 DEF GoesOnWith
<1>5. CASE IsRealtimeMessage(m)
  <2>1. st \in 248..255 /\ Len(m) = 1
    BY <1>2, <1>5 DEF IsRealtimeMessage
  <2>2. r.messages = Handed(st, p.data)
    BY <1>2, <2>1 DEF Pushed, IsRealtime, IsStatus, AfterRealtime
  <2>3. r.messages = <<>> \/ r.messages = <<<<st>>>>
    <3>1. st >= 248 /\ st \notin 128..240
      BY <2>1
    <3> QED BY <2>2, <3>1 DEF Handed, IsRealtime
  <2>4. ChannelMessages(r.messages) = <<>>
    <3>1. PICK x : x = <<st>>
      OBVIOUS
    <3>2. ~(x[1] < 240) /\ (r.messages = <<>> \/ r.messages = <<x>>)
      BY <2>1, <2>3, <3>1
    <3> QED BY <3>2, ChannelOfFew
  <2> QED BY <1>2, <2>1, <2>4 DEF GoesOnWith
<1> QED BY <1>3, <1>4, <1>5 DEF IsMessage

LEMMA LaterByte ==
    ASSUME NEW m, IsMessage(m), NEW i \in 2..Len(m)
    PROVE  GoesOnWith(m, i, Pushed(Waiting(SubSeq(m, 1, i - 1)), m[i]))
<1>1. m \in Seq(0..255) /\ Len(m) \in Nat
  BY DEF IsMessage
<1>2. PICK st, b, a : st = m[1] /\ b = m[i] /\ a = SubSeq(m, 1, i - 1)
  OBVIOUS
<1>3. a[1] = st /\ i - 1 \in 1..Len(m)
  BY <1>1, <1>2, PrefixFacts
<1>4. PICK p : p = Waiting(a)
  OBVIOUS
<1>5. PICK r : r = Pushed(p, b)
  OBVIOUS
<1>6. CASE IsChannelMessage(m)
  <2>1. /\ st \in ChannelStatus /\ Len(m) = 1 + ExpectedSize(st)
        /\ \A k \in 2..Len(m) : m[k] \in DataBytes
    BY <1>2, <1>6, SameParser DEF IsChannelMessage, ChannelStatus, DataBytes
  <2>2. b \in DataBytes /\ st # 240 /\ ExpectedSize(st) \in {1, 2}
    <3>1. b \in DataBytes
      BY <1>2, <2>1
    <3>2. st # 240
      BY <2>1 DEF ChannelStatus
    <3> QED BY <2>1, <3>1, <3>2, ChannelSizes
  <2>3. PICK d, e : d = Tail(a) /\ e = Append(d, b)
    OBVIOUS
  <2>4. /\ d \in Seq(0..255) /\ Len(d) = i - 2 /\ \A k \in 1..(i - 2) : d[k] = m[k + 1]
        /\ e = Tail(SubSeq(m, 1, i))
    BY <1>1, <1>2, <2>3, PrefixGrows
  <2>5. d \in Seq(DataBytes)
    <3>1. \A k \in 1..Len(d) : k + 1 \in 2..Len(m)
      BY <1>1, <2>4
    <3>2. \A k \in 1..Len(d) : d[k] \in DataBytes
      BY <2>1, <2>4, <3>1
    <3> QED BY <2>4, <3>2
  <2>6. p = State(st, d)
    BY <1>3, <1>4, <2>2, <2>3 DEF Waiting
  <2>7. Unfinished(st, d)
    <3>1. st \in Begun
      BY <2>1 DEF Begun, ChannelStatus
    <3>2. Len(d) < ExpectedSize(st)
      BY <2>1, <2>2, <2>4
    <3> QED BY <2>5, <3>1, <3>2 DEF Unfinished
  <2>8. CASE i < Len(m)
    <3>1. ~MessageEnds(st, d)
      BY <1>1, <2>1, <2>2, <2>4, <2>8 DEF MessageEnds
    <3>2. r.parser = State(st, e) /\ r.messages = <<>>
      BY <1>5, <2>2, <2>3, <2>6, <2>7, <3>1, DataWaits
    <3>3. Waiting(SubSeq(m, 1, i)) = State(st, e)
      <4>1. i \in 1..Len(m)
        OBVIOUS
      <4>2. SubSeq(m, 1, i)[1] = st
        BY <1>1, <1>2, <4>1, PrefixFacts
      <4> QED BY <2>2, <2>4, <4>2 DEF Waiting
    <3> QED BY <1>2, <1>4, <1>5, <2>8, <3>2, <3>3, ChannelOfFew DEF GoesOnWith
  <2>9. CASE i = Len(m)
    <3>1. MessageEnds(st, d)
      BY <1>1, <2>1, <2>2, <2>4, <2>9 DEF MessageEnds
    <3>2. r.messages = Handed(st, e)
      BY <1>5, <2>2, <2>3, <2>6, <2>7, <3>1, DataCompletes
    <3>3. Handed(st, e) = <<<<st>> \o e>>
      BY <2>1 DEF Handed, IsRealtime, ChannelStatus
    <3>4. <<st>> \o e = m
      <4>1. m # <<>>
        BY <1>1, <2>9
      <4> QED BY <1>1, <1>2, <2>4, <2>9, <4>1, StatusAndData
    <3>5. ChannelMessages(<<m>>) = <<m>> /\ m[1] < 240
      <4>1. st < 240
        BY <2>1 DEF ChannelStatus
      <4> QED BY <1>2, <4>1, ChannelOfFew, Zenon
    <3>6. ChannelMessages(r.messages) = <<m>>
      BY <3>2, <3>3, <3>4, <3>5
    <3>7. ~(i < Len(m))
      BY <1>1, <2>9
    <3> QED BY <1>2, <1>4, <1>5, <2>9, <3>5, <3>6, <3>7 DEF GoesOnWith
  <2> QED BY <1>1, <2>8, <2>9
<1>7. CASE IsSysEx(m)
  <2>1. st = 240 /\ m[Len(m)] = 247 /\ \A k \in 2..(Len(m) - 1) : m[k] \in DataBytes
    BY <1>2, <1>7 DEF IsSysEx, DataBytes
  <2>2. p = State(240, <<>>) /\ p.running = 240
    BY <1>3, <1>4, <2>1 DEF Waiting, State
  <2>3. CASE i < Len(m)
    <3>1. b \in DataBytes
      BY <1>1, <1>2, <2>1, <2>3
    <3>2. PICK none : none = <<>>
      OBVIOUS
    <3>3. Unfinished(240, none) /\ MessageEnds(240, none)
      BY <3>2, SystemSizes DEF Unfinished, MessageEnds, Begun
    <3>4. r.parser = State(240, <<>>) /\ r.messages = Handed(240, Append(none, b))
      <4>1. PICK st2 : st2 = 240
        OBVIOUS
      <4>2. Unfinished(st2, none) /\ MessageEnds(st2, none)
        BY <3>3, <4>1
      <4>3. /\ Pushed(State(st2, none), b).parser = IF st2 > 240 THEN Fresh ELSE State(st2, <<>>)
            /\ Pushed(State(st2, none), b).messages = Handed(st2, Append(none, b))
        BY <3>1, <4>2, DataCompletes
      <4>4. p = State(st2, none) /\ ~(st2 > 240)
        BY <2>2, <3>2, <4>1
      <4> QED BY <1>5, <4>1, <4>3, <4>4
    <3>5. PICK x : x = <<240>> \o Append(none, b)
      OBVIOUS
    <3>6. Handed(240, Append(none, b)) = <<x>>
      BY <3>5 DEF Handed, IsRealtime
    <3>7. x[1] = 240
      <4>1. Append(none, b) = <<b>> /\ 240 \in Nat /\ b \in Nat
        BY <3>1, <3>2 DEF DataBytes
      <4>2. x = <<240, b>>
        BY <3>5, <4>1, TwoBytes
      <4> QED BY <4>2
    <3>8. ChannelMessages(r.messages) = <<>>
      BY <3>4, <3>6, <3>7, ChannelOfFew
    <3>9. Waiting(SubSeq(m, 1, i)) = State(240, <<>>)
      <4>1. i \in 1..Len(m)
        OBVIOUS
      <4>2. SubSeq(m, 1, i)[1] = m[1]
        BY <1>1, <4>1, PrefixFacts
      <4> QED BY <1>2, <2>1, <4>2 DEF Waiting
    <3> QED BY <1>2, <1>4, <1>5, <2>3, <3>4, <3>8, <3>9 DEF GoesOnWith
  <2>4. CASE i = Len(m)
    <3>1. b = 247 /\ StatusByte(b)
      BY <1>2, <2>1, <2>4 DEF StatusByte
    <3>2. r.messages = <<<<247>>>>
      BY <1>5, <2>2, <3>1, StatusPushed
    <3>3. ChannelMessages(r.messages) = <<>>
      <4>1. PICK x : x = <<247>>
        OBVIOUS
      <4>2. ~(x[1] < 240) /\ r.messages = <<x>>
        BY <3>2, <4>1
      <4> QED BY <4>2, ChannelOfFew
    <3> QED BY <1>2, <1>4, <1>5, <2>1, <2>4, <3>3 DEF GoesOnWith
  <2> QED BY <1>1, <2>3, <2>4
<1>8. ASSUME IsRealtimeMessage(m)
      PROVE  FALSE
  <2>1. 2 <= Len(m)
    BY <1>1
  <2>2. Len(m) = 1
    BY <1>8 DEF IsRealtimeMessage
  <2> QED BY <2>1, <2>2
<1> QED BY <1>6, <1>7, <1>8 DEF IsMessage


-----------------------------------------------------------------------------
(* The bytes that wait (MidiPorts).                                        *)

Sendable == {m \in Seq(0..255) : IsMessage(m)}
Entries ==
    {e \in [message : Sendable, at : Nat, cut : BOOLEAN, object : BOOLEAN] :
        e.at \in 1..Len(e.message)}
Buffers == Seq(Entries) \X BOOLEAN

\* After byte i of message m, this is its next one, the first one of another, or known to be cut.
Follows(e, m, i) == IsFirst(e) \/ e.cut \/ (e.message = m /\ e.at = i + 1)

\* The same of the byte that comes out next, after those that have come out.
GoesOn(e) ==
    IsFirst(e) \/ e.cut \/ flow = "broken" \/ arrived = SubSeq(e.message, 1, e.at - 1)

Linked(b) == \A k \in 2..Len(b) : Follows(b[k], b[k - 1].message, b[k - 1].at)

\* The buffer between two transfers.
Chained(b) ==
    /\ \A k \in 1..Len(b) : ~b[k].object
    /\ Linked(b)
    /\ b # <<>> => GoesOn(b[1])

\* Byte i of message m was the last one to be written, unless the end of the buffer is lost.
EndsWith(b, lost, m, i) ==
    lost \/ IF b = <<>> THEN flow = "broken" \/ arrived = SubSeq(m, 1, i)
            ELSE b[Len(b)].message = m /\ b[Len(b)].at = i

Kept(c) == c \in Buffers /\ Chained(c[1])

LEMMA TaggedFacts ==
    ASSUME NEW m \in Sendable, NEW i \in 1..Len(m), NEW cut \in BOOLEAN,
           NEW e, e = Tagged(m, i, cut)
    PROVE  /\ e \in Entries /\ e.message = m /\ e.at = i /\ e.cut = cut /\ ~e.object
           /\ \A x \in BOOLEAN : [e EXCEPT !.cut = x] = Tagged(m, i, x)
<1>1. i \in Nat
  BY DEF Sendable
<1>2. e.message = m /\ e.at = i /\ e.cut = cut /\ ~e.object
  BY DEF Tagged
<1>3. e \in [message : Sendable, at : Nat, cut : BOOLEAN, object : BOOLEAN]
  BY <1>1 DEF Tagged
<1>4. e \in Entries
  BY <1>2, <1>3 DEF Entries
<1>5. ASSUME NEW x \in BOOLEAN
      PROVE  [e EXCEPT !.cut = x] = Tagged(m, i, x)
  <2>1. PICK none \in BOOLEAN : none = FALSE
    OBVIOUS
  <2>2. e = [message |-> m, at |-> i, cut |-> cut, object |-> none]
    BY <2>1 DEF Tagged
  <2>3. [e EXCEPT !.cut = x] = [message |-> m, at |-> i, cut |-> x, object |-> none]
    BY <2>2
  <2> QED BY <2>1, <2>3 DEF Tagged
<1> QED BY <1>2, <1>4, <1>5

\* Whatever Overwrite loses: what it leaves is linked, and what it lost is known.
LEMMA EntryAdded ==
    ASSUME NEW c, Kept(c), NEW m \in Sendable, NEW i \in 1..Len(m), NEW cut \in BOOLEAN,
           i = 1 \/ cut \/ EndsWith(c[1], c[2], m, i - 1),
           NEW b \in Overwritten(c, Tagged(m, i, cut))
    PROVE  Kept(b) /\ EndsWith(b[1], b[2], m, i)
<1>1. PICK s, g : s = c[1] /\ g = c[2]
  OBVIOUS
<1>2. /\ s \in Seq(Entries) /\ g \in BOOLEAN /\ Chained(s) /\ c = <<s, g>>
      /\ i = 1 \/ cut \/ EndsWith(s, g, m, i - 1)
  BY <1>1 DEF Kept, Buffers
<1>0. Len(s) \in Nat /\ i \in Nat
  BY <1>2 DEF Sendable
<1>3. PICK x \in BOOLEAN : x = (cut \/ g)
  BY <1>2
<1>4. PICK f : f = Tagged(m, i, x)
  OBVIOUS
<1>5. PICK o : o = Tagged(m, i, TRUE)
  OBVIOUS
<1>6. /\ f \in Entries /\ f.message = m /\ f.at = i /\ f.cut = x /\ ~f.object
      /\ o \in Entries /\ o.message = m /\ o.at = i /\ o.cut = TRUE /\ ~o.object
  <2>1. PICK y \in BOOLEAN : y = TRUE
    OBVIOUS
  <2>2. f \in Entries /\ f.message = m /\ f.at = i /\ f.cut = x /\ ~f.object
    BY <1>4, TaggedFacts
  <2>3. o \in Entries /\ o.message = m /\ o.at = i /\ o.cut = TRUE /\ ~o.object
    <3>1. o = Tagged(m, i, y)
      BY <1>5, <2>1
    <3>2. o \in Entries /\ o.message = m /\ o.at = i /\ o.cut = y /\ ~o.object
      BY <3>1, TaggedFacts
    <3> QED BY <2>1, <3>2
  <2> QED BY <2>2, <2>3
<1>7. PICK w, v : w = Append(s, f) /\ v = <<o>>
  OBVIOUS
<1>8. b = <<w, FALSE>> \/ b = <<s, TRUE>> \/ b = <<v, FALSE>>
  <2>1. PICK e : e = Tagged(m, i, cut)
    OBVIOUS
  <2>2. [e EXCEPT !.cut = @ \/ g] = f /\ [e EXCEPT !.cut = TRUE] = o
    <3>1. e.cut = cut /\ \A y \in BOOLEAN : [e EXCEPT !.cut = y] = Tagged(m, i, y)
      BY <2>1, TaggedFacts
    <3>2. [e EXCEPT !.cut = @ \/ g] = [e EXCEPT !.cut = x]
      BY <1>3, <3>1
    <3> QED BY <1>4, <1>5, <3>1, <3>2
  <2>3. b \in Overwritten(c, e)
    BY <2>1
  <2>4. Overwritten(c, e) \subseteq {<<w, FALSE>>, <<s, TRUE>>, <<v, FALSE>>}
    BY <1>1, <1>7, <2>2 DEF Overwritten
  <2> QED BY <2>3, <2>4
<1>9. CASE b = <<w, FALSE>>
  <2>1. /\ w \in Seq(Entries) /\ Len(w) = Len(s) + 1 /\ w[Len(s) + 1] = f
        /\ \A k \in 1..Len(s) : w[k] = s[k]
    BY <1>2, <1>6, <1>7
  <2>2. \A k \in 1..Len(w) : ~w[k].object
    <3>1. \A k \in 1..Len(w) : k \in 1..Len(s) \/ k = Len(s) + 1
      BY <1>0, <2>1
    <3>2. \A k \in 1..Len(s) : ~s[k].object
      BY <1>2 DEF Chained
    <3> QED BY <1>6, <2>1, <3>1, <3>2
  <2>3. ASSUME NEW k \in 2..Len(w)
        PROVE  Follows(w[k], w[k - 1].message, w[k - 1].at)
    <3>1. CASE k = Len(s) + 1
      <4>1. k - 1 = Len(s) /\ k - 1 \in 1..Len(s) /\ w[k] = f /\ w[k - 1] = s[Len(s)] /\ s # <<>>
        BY <1>0, <1>2, <2>1, <3>1
      <4>2. CASE i = 1 \/ cut
        BY <1>3, <1>6, <4>1, <4>2 DEF Follows, IsFirst
      <4>3. CASE i # 1 /\ ~cut
        <5>1. EndsWith(s, g, m, i - 1)
          BY <1>2, <4>3
        <5>2. g \/ (s[Len(s)].message = m /\ s[Len(s)].at = i - 1)
          BY <4>1, <5>1 DEF EndsWith
        <5>3. (i - 1) + 1 = i
          BY <1>0
        <5> QED BY <1>3, <1>6, <4>1, <5>2, <5>3 DEF Follows
      <4> QED BY <4>2, <4>3
    <3>2. CASE k # Len(s) + 1
      <4>1. k \in 2..Len(s) /\ k \in 1..Len(s) /\ k - 1 \in 1..Len(s)
        BY <1>0, <2>1, <3>2
      <4>2. Follows(s[k], s[k - 1].message, s[k - 1].at)
        BY <1>2, <4>1 DEF Chained, Linked
      <4> QED BY <2>1, <4>1, <4>2
    <3> QED BY <3>1, <3>2
  <2>4. GoesOn(w[1])
    <3>1. CASE s = <<>>
      <4>1. w[1] = f
        BY <1>7, <3>1
      <4>2. CASE i = 1 \/ cut
        BY <1>3, <1>6, <4>1, <4>2 DEF GoesOn, IsFirst
      <4>3. CASE i # 1 /\ ~cut
        <5>1. g \/ flow = "broken" \/ arrived = SubSeq(m, 1, i - 1)
          BY <1>2, <3>1, <4>3 DEF EndsWith
        <5> QED BY <1>3, <1>6, <4>1, <5>1 DEF GoesOn
      <4> QED BY <4>2, <4>3
    <3>2. CASE s # <<>>
      <4>1. 1 \in 1..Len(s)
        BY <1>2, <3>2
      <4> QED BY <1>2, <2>1, <3>2, <4>1 DEF Chained
    <3> QED BY <3>1, <3>2
  <2>5. Chained(w)
    BY <2>2, <2>3, <2>4 DEF Chained, Linked
  <2>6. EndsWith(w, FALSE, m, i)
    <3>1. w # <<>> /\ w[Len(w)] = f
      BY <1>0, <2>1
    <3> QED BY <1>6, <3>1 DEF EndsWith
  <2>7. b[1] = w /\ b[2] = FALSE /\ b \in Buffers
    BY <1>9, <2>1 DEF Buffers
  <2> QED BY <2>5, <2>6, <2>7 DEF Kept
<1>10. CASE b = <<s, TRUE>>
  <2>1. b[1] = s /\ b[2] = TRUE /\ b \in Buffers
    BY <1>2, <1>10 DEF Buffers
  <2> QED BY <1>2, <2>1 DEF Kept, EndsWith
<1>11. CASE b = <<v, FALSE>>
  <2>1. v \in Seq(Entries) /\ Len(v) = 1 /\ v[1] = o /\ v # <<>>
    BY <1>6, <1>7
  <2>2. Chained(v)
    <3>1. \A k \in 1..Len(v) : v[k] = o
      BY <2>1
    <3>2. 2..Len(v) = {}
      BY <2>1
    <3>3. GoesOn(o)
      BY <1>6 DEF GoesOn
    <3> QED BY <1>6, <2>1, <3>1, <3>2, <3>3 DEF Chained, Linked
  <2>3. EndsWith(v, FALSE, m, i)
    BY <1>6, <2>1 DEF EndsWith
  <2>4. b[1] = v /\ b[2] = FALSE /\ b \in Buffers
    BY <1>11, <2>1 DEF Buffers
  <2> QED BY <2>2, <2>3, <2>4 DEF Kept
<1> QED BY <1>8, <1>9, <1>10, <1>11

LEMMA Pairs ==
    ASSUME NEW A, NEW a \in A
    PROVE  <<a, FALSE>> \in A \X BOOLEAN /\ <<a, TRUE>> \in A \X BOOLEAN
  OBVIOUS

LEMMA OverwrittenType ==
    ASSUME NEW c \in Buffers, NEW m \in Sendable, NEW i \in 1..Len(m), NEW cut \in BOOLEAN,
           NEW b \in Overwritten(c, Tagged(m, i, cut))
    PROVE  b \in Buffers
<1>1. PICK s, g : s = c[1] /\ g = c[2]
  OBVIOUS
<1>2. s \in Seq(Entries) /\ g \in BOOLEAN
  BY <1>1 DEF Buffers
<1>3. PICK x \in BOOLEAN : x = (cut \/ g)
  BY <1>2
<1>4. PICK y \in BOOLEAN : y = TRUE
  OBVIOUS
<1>5. PICK e, f, o : e = Tagged(m, i, cut) /\ f = Tagged(m, i, x) /\ o = Tagged(m, i, y)
  OBVIOUS
<1>6. f \in Entries /\ o \in Entries
  BY <1>5, TaggedFacts
<1>7. [e EXCEPT !.cut = @ \/ g] = f /\ [e EXCEPT !.cut = TRUE] = o
  <2>1. e.cut = cut /\ \A z \in BOOLEAN : [e EXCEPT !.cut = z] = Tagged(m, i, z)
    BY <1>5, TaggedFacts
  <2>2. [e EXCEPT !.cut = @ \/ g] = [e EXCEPT !.cut = x]
    BY <1>3, <2>1
  <2>3. [e EXCEPT !.cut = TRUE] = [e EXCEPT !.cut = y]
    BY <1>4
  <2> QED BY <1>5, <2>1, <2>2, <2>3
<1>8. PICK w, v : w = Append(s, f) /\ v = <<o>>
  OBVIOUS
<1>9. b = <<w, FALSE>> \/ b = <<s, TRUE>> \/ b = <<v, FALSE>>
  <2>1. b \in Overwritten(c, e)
    BY <1>5
  <2>2. Overwritten(c, e) \subseteq {<<w, FALSE>>, <<s, TRUE>>, <<v, FALSE>>}
    BY <1>1, <1>7, <1>8 DEF Overwritten
  <2> QED BY <2>1, <2>2
<1>10. w \in Seq(Entries) /\ v \in Seq(Entries)
  BY <1>2, <1>6, <1>8
<1>11. <<w, FALSE>> \in Buffers /\ <<s, TRUE>> \in Buffers /\ <<v, FALSE>> \in Buffers
  BY <1>2, <1>10, Pairs DEF Buffers
<1> QED BY <1>9, <1>11

\* What a message leaves of the buffer: its last byte is the last one written.
LEMMA WrittenFacts ==
    ASSUME NEW c, Kept(c), NEW m \in Sendable, NEW b \in Written(c, m)
    PROVE  Kept(b) /\ EndsWith(b[1], b[2], m, Len(m))
  <1> DEFINE n == Len(m)
             V == SUBSET Buffers
             byte(i) == Tagged(m, i, FALSE)
             more(y, i) == UNION {Overwritten(d, byte(i)) : d \in y}
             G == [i \in 1..n |-> [y \in V |-> more(y, i)]]
             first == {c}
             after == CHOOSE x : x = [i \in 0..n |-> IF i = 0 THEN first ELSE more(x[i - 1], i)]
  <1>1. Written(c, m) = after[n]
    BY DEF Written
  <1>2. n \in Nat /\ n > 0
    BY DEF Sendable, IsMessage, IsChannelMessage, IsSysEx, IsRealtimeMessage
  <1>15. \A i \in 1..n : i \in 1..Len(m)
    OBVIOUS
  <1> HIDE DEF n
  <1>16. PICK none \in BOOLEAN : none = FALSE
    OBVIOUS
  <1>3. \A y \in V : \A i \in 1..n : more(y, i) \in V
    <2>1. ASSUME NEW y \in V, NEW i \in 1..n, NEW d \in y, NEW a \in Overwritten(d, byte(i))
          PROVE  a \in Buffers
      <3>1. d \in Buffers /\ i \in 1..Len(m) /\ a \in Overwritten(d, Tagged(m, i, none))
        BY <1>15, <1>16, <2>1
      <3> QED BY <3>1, OverwrittenType
    <2> HIDE DEF byte
    <2> QED BY <2>1
  <1>4. first \in V
    BY DEF Kept
  <1> HIDE DEF more, first
  <1>5. G \in [1..n -> [V -> V]]
    BY <1>3
  <1> HIDE DEF G
  <1>6. PICK g \in [0..n -> V] : Recurs(g, n, first, G)
    <2> HIDE DEF V
    <2>1. n \in Nat /\ first \in V
      BY <1>2, <1>4
    <2>2. \E g \in [0..n -> V] : Recurs(g, n, first, G)
      BY <1>5, <2>1, RecursiveFunction
    <2> QED BY <2>2
  <1>7. ASSUME NEW i \in 0..n
        PROVE  g[i] = IF i = 0 THEN first ELSE more(g[i - 1], i)
    <2>1. CASE i = 0
      BY <1>6, <2>1 DEF Recurs
    <2>2. CASE i # 0
      <3>1. i \in 1..n /\ i - 1 \in 0..n /\ i \in Nat
        BY <1>2, <2>2
      <3>2. g[i - 1] \in V
        BY <3>1
      <3>3. g[i] = G[i][g[i - 1]]
        BY <1>6, <2>2 DEF Recurs
      <3> QED BY <2>2, <3>1, <3>2, <3>3 DEF G
    <2> QED BY <2>1, <2>2
  <1>8. g = [i \in 0..n |-> IF i = 0 THEN first ELSE more(g[i - 1], i)]
    <2>1. g = [i \in 0..n |-> g[i]]
      OBVIOUS
    <2> QED BY <1>7, <2>1
  <1>9. after = [i \in 0..n |-> IF i = 0 THEN first ELSE more(after[i - 1], i)]
    BY <1>8, Zenon
  <1> HIDE DEF after
  <1>10. after[0] = first /\ \A i \in 1..n : after[i] = more(after[i - 1], i)
    <2> DEFINE entry(i) == IF i = 0 THEN first ELSE more(after[i - 1], i)
    <2>1. after = [i \in 0..n |-> entry(i)]
      BY <1>9
    <2> HIDE DEF entry
    <2>2. \A i \in 0..n : after[i] = entry(i)
      BY <2>1
    <2>3. \A i \in 1..n : i \in 0..n /\ i # 0
      OBVIOUS
    <2> QED BY <1>2, <2>2, <2>3 DEF entry
  <1> DEFINE S == {i \in 0..n : \A d \in after[i] :
                      Kept(d) /\ (i # 0 => EndsWith(d[1], d[2], m, i))}
  <1>11. 0 \in S
    BY <1>2, <1>10 DEF first
  <1>12. ASSUME NEW i \in 1..n, i - 1 \in S
         PROVE  i \in S
    <2>1. i \in 0..n
      OBVIOUS
    <2>2. ASSUME NEW b2 \in after[i]
          PROVE  Kept(b2) /\ EndsWith(b2[1], b2[2], m, i)
      <3>1. PICK d \in after[i - 1] : b2 \in Overwritten(d, byte(i))
        <4>1. b2 \in more(after[i - 1], i)
          BY <1>10, <2>2
        <4> HIDE DEF byte
        <4> QED BY <4>1 DEF more
      <3>2. Kept(d) /\ (i - 1 # 0 => EndsWith(d[1], d[2], m, i - 1))
        BY <1>12, <3>1
      <3>3. b2 \in Overwritten(d, Tagged(m, i, none)) /\ i \in 1..Len(m)
        BY <1>15, <1>16, <3>1
      <3>4. i = 1 \/ i - 1 # 0
        BY <1>2
      <3>5. i = 1 \/ none \/ EndsWith(d[1], d[2], m, i - 1)
        BY <3>2, <3>4
      <3> QED BY <3>2, <3>3, <3>5, EntryAdded
    <2> QED BY <2>1, <2>2
  <1>13. n \in S
    <2> HIDE DEF S
    <2>1. \A i \in 0..n : i \in S
      BY <1>2, <1>11, <1>12, InductionUpTo
    <2> QED BY <1>2, <2>1
  <1>14. b \in after[n] /\ n # 0
    BY <1>1, <1>2
  <1> QED BY <1>13, <1>14 DEF n

\* What several messages leave of the buffer.
LEMMA SentFacts ==
    ASSUME Kept(<<low, gap>>), NEW messages \in Seq(Sendable), NEW b \in Sent(messages)
    PROVE  Kept(b)
  <1> DEFINE n == Len(messages)
             V == SUBSET {c \in Buffers : Kept(c)}
             more(y, i) == UNION {Written(d, messages[i]) : d \in y}
             G == [i \in 1..n |-> [y \in V |-> more(y, i)]]
             first == {<<low, gap>>}
             after == CHOOSE x : x = [i \in 0..n |-> IF i = 0 THEN first ELSE more(x[i - 1], i)]
  <1>1. Sent(messages) = after[n]
    BY DEF Sent
  <1>2. n \in Nat /\ \A i \in 1..n : messages[i] \in Sendable
    OBVIOUS
  <1> HIDE DEF n
  <1>3. \A y \in V : \A i \in 1..n : more(y, i) \in V
    <2>1. ASSUME NEW y \in V, NEW i \in 1..n, NEW d \in y, NEW a \in Written(d, messages[i])
          PROVE  Kept(a) /\ a \in Buffers
      <3>1. Kept(d) /\ messages[i] \in Sendable
        BY <1>2, <2>1
      <3>2. Kept(a)
        BY <2>1, <3>1, WrittenFacts
      <3> QED BY <3>2 DEF Kept
    <2> QED BY <2>1
  <1>4. first \in V
    BY DEF Kept
  <1> HIDE DEF more, first
  <1>5. G \in [1..n -> [V -> V]]
    <2> HIDE DEF V
    <2> QED BY <1>3
  <1> HIDE DEF G
  <1>6. PICK g \in [0..n -> V] : Recurs(g, n, first, G)
    <2> HIDE DEF V
    <2>1. n \in Nat /\ first \in V
      BY <1>2, <1>4
    <2>2. \E g \in [0..n -> V] : Recurs(g, n, first, G)
      BY <1>5, <2>1, RecursiveFunction
    <2> QED BY <2>2
  <1>7. ASSUME NEW i \in 0..n
        PROVE  g[i] = IF i = 0 THEN first ELSE more(g[i - 1], i)
    <2> HIDE DEF V
    <2>1. CASE i = 0
      BY <1>6, <2>1 DEF Recurs
    <2>2. CASE i # 0
      <3>1. i \in 1..n /\ i - 1 \in 0..n /\ i \in Nat
        BY <1>2, <2>2
      <3>2. g[i - 1] \in V
        BY <3>1
      <3>3. g[i] = G[i][g[i - 1]]
        BY <1>6, <2>2 DEF Recurs
      <3> QED BY <2>2, <3>1, <3>2, <3>3 DEF G
    <2> QED BY <2>1, <2>2
  <1>8. g = [i \in 0..n |-> IF i = 0 THEN first ELSE more(g[i - 1], i)]
    <2>1. g = [i \in 0..n |-> g[i]]
      OBVIOUS
    <2> QED BY <1>7, <2>1
  <1>9. after = [i \in 0..n |-> IF i = 0 THEN first ELSE more(after[i - 1], i)]
    BY <1>8, Zenon
  <1>10. after[n] \in V
    <2> DEFINE f == after
    <2>1. f = [i \in 0..n |-> IF i = 0 THEN first ELSE more(f[i - 1], i)]
      BY <1>9
    <2> HIDE DEF f, V
    <2> DEFINE entry(i) == IF i = 0 THEN first ELSE more(f[i - 1], i)
    <2>2. f = [i \in 0..n |-> entry(i)]
      BY <2>1
    <2> HIDE DEF entry
    <2>3. \A i \in 0..n : f[i] = entry(i)
      BY <2>2
    <2> DEFINE S == {i \in 0..n : f[i] \in V}
    <2>4. 0 \in S
      BY <1>2, <1>4, <2>3 DEF entry
    <2>5. ASSUME NEW i \in 1..n, i - 1 \in S
          PROVE  i \in S
      <3>1. i \in 0..n /\ i # 0
        OBVIOUS
      <3>2. f[i] = more(f[i - 1], i)
        BY <2>3, <3>1 DEF entry
      <3> QED BY <1>3, <2>5, <3>1, <3>2
    <2>6. n \in S
      <3> HIDE DEF S
      <3>1. \A i \in 0..n : i \in S
        BY <1>2, <2>4, <2>5, InductionUpTo
      <3> QED BY <1>2, <3>1
    <2> QED BY <2>6 DEF f
  <1>11. b \in after[n]
    BY <1>1
  <1> HIDE DEF after
  <1> QED BY <1>10, <1>11

-----------------------------------------------------------------------------
(* The invariant of MidiPorts.                                             *)

Arriving == {c \in [bytes : plan.device, pos : Nat, passed : BOOLEAN] :
                c.pos \in 1..(Len(c.bytes) - 1)}

PortsTypeOK ==
    /\ plan \in Plans
    /\ <<low, gap>> \in Buffers /\ high \in Seq(248..255) /\ bulk \in Seq(Entries)
    /\ sending \in BOOLEAN /\ flow \in {"broken", "whole", "object"}
    /\ incoming = NoMessage \/ incoming \in Arriving

\* The next unit waits for what comes next of a message that is whole so far.
NextWaits == flow # "broken" => receiver = Waiting(arrived)

\* Between two transfers: nothing is in the buffer of which it is not known what it follows.
Passing ==
    /\ bulk = <<>> /\ flow # "object" /\ Chained(low)
    /\ incoming # NoMessage /\ incoming.passed => EndsWith(low, gap, incoming.bytes, incoming.pos)

\* In a transfer: the buffer and what is still to be written are what is left of the object.
ObjectEntry(o, k) == [message |-> o, at |-> k, cut |-> FALSE, object |-> TRUE]
Transfer(o, j) ==
    /\ o \in plan.objects /\ j \in 0..Len(o) /\ Len(o) = j + Len(low) + Len(bulk)
    /\ \A k \in 1..Len(low) : low[k] = ObjectEntry(o, j + k)
    /\ \A k \in 1..Len(bulk) : bulk[k] = ObjectEntry(o, j + Len(low) + k)
    /\ flow = "object" <=> j \in 1..(Len(o) - 1)
    /\ flow = "object" => arrived = SubSeq(o, 1, j)
    /\ j = Len(o) => flow = "broken"
Transferring ==
    /\ ~gap /\ (incoming = NoMessage \/ ~incoming.passed)
    /\ \E o, j : Transfer(o, j)

PortsInv ==
    /\ PortsTypeOK /\ NextWaits
    /\ sending => Transferring
    /\ ~sending => Passing

\* What a use sends are messages.
LEMMA PlanFacts ==
    ASSUME PortsTypeOK
    PROVE  /\ plan.notes \subseteq DataBytes /\ plan.edits \subseteq DataBytes
           /\ plan.programs \subseteq DataBytes /\ plan.clocks \subseteq 248..255
           /\ plan.device \subseteq Sendable
           /\ plan.objects \subseteq {o \in Sendable : IsSysEx(o)}
<1>1. \A p \in Plans :
           /\ p.notes \subseteq 0..127 /\ p.edits \subseteq 0..127 /\ p.programs \subseteq 0..127
           /\ p.clocks \subseteq 248..255
           /\ \A m \in p.device : IsMessage(m)
           /\ \A m \in p.objects : IsMessage(m) /\ IsSysEx(m)
  BY PortsAssumption
<1>2. \A m : IsMessage(m) => m \in Sendable
  BY DEF IsMessage, Sendable
<1>3. plan \in Plans
  BY DEF PortsTypeOK
<1> QED BY <1>1, <1>2, <1>3 DEF DataBytes

LEMMA ThreeByteMessages ==
    ASSUME NEW st \in {144, 176}, NEW a \in DataBytes, NEW b \in DataBytes
    PROVE  <<st, a, b>> \in Sendable
<1>1. PICK m : m = <<st, a, b>>
  OBVIOUS
<1>2. m \in Seq(0..255) /\ Len(m) = 3 /\ m[1] = st /\ m[2] = a /\ m[3] = b
  BY <1>1 DEF DataBytes
<1>3. Parser!ExpectedSize(st) = 2
  <2>1. Hi(st) = st
    BY DEF Hi
  <2> QED BY <2>1, SameParser DEF ExpectedSize
<1>4. \A i \in 2..Len(m) : m[i] \in DataBytes
  <2>1. \A i \in 2..3 : i = 2 \/ i = 3
    OBVIOUS
  <2> QED BY <1>2, <2>1
<1>5. IsChannelMessage(m)
  <2>1. Len(m) > 0 /\ st \in 128..239
    BY <1>2
  <2>2. Len(m) = 1 + Parser!ExpectedSize(st)
    BY <1>2, <1>3
  <2> QED BY <1>2, <1>4, <2>1, <2>2 DEF IsChannelMessage, DataBytes
<1> QED BY <1>1, <1>2, <1>5 DEF IsMessage, Sendable

LEMMA OtherMessages ==
    ASSUME NEW a \in DataBytes
    PROVE  <<192, a>> \in Sendable /\ <<254>> \in Sendable
<1>1. PICK m, r : m = <<192, a>> /\ r = <<254>>
  OBVIOUS
<1>2. /\ m \in Seq(0..255) /\ Len(m) = 2 /\ m[1] = 192 /\ m[2] = a
      /\ r \in Seq(0..255) /\ Len(r) = 1 /\ r[1] = 254
  BY <1>1 DEF DataBytes
<1>3. Parser!ExpectedSize(192) = 1
  <2>1. Hi(192) = 192
    BY DEF Hi
  <2> QED BY <2>1, SameParser DEF ExpectedSize
<1>4. \A i \in 2..Len(m) : m[i] \in DataBytes
  <2>1. \A i \in 2..2 : i = 2
    OBVIOUS
  <2> QED BY <1>2, <2>1
<1>5. IsChannelMessage(m)
  <2>1. PICK st : st = 192
    OBVIOUS
  <2>2. Len(m) > 0 /\ st \in 128..239 /\ m[1] = st
    BY <1>2, <2>1
  <2>3. Len(m) = 1 + Parser!ExpectedSize(st)
    BY <1>2, <1>3, <2>1
  <2> QED BY <1>4, <2>2, <2>3 DEF IsChannelMessage, DataBytes
<1>6. IsRealtimeMessage(r)
  BY <1>2 DEF IsRealtimeMessage
<1> QED BY <1>1, <1>2, <1>5, <1>6 DEF IsMessage, Sendable

LEMMA ChainPrimed ==
    ASSUME NEW s, s = low', Chained(s), flow' = flow, arrived' = arrived
    PROVE  Chained(low)'
<1>1. /\ \A k \in 1..Len(low') : ~low'[k].object
      /\ low' # <<>> => GoesOn(low'[1])
  BY DEF Chained
<1>2. Linked(low)'
  BY DEF Chained, Linked
<1>3. GoesOn(low'[1]) => GoesOn(low[1])'
  BY DEF GoesOn
<1> QED BY <1>1, <1>2, <1>3 DEF Chained

\* What the unit sends in the middle of a message ends it.
LEMMA CutFacts ==
    ASSUME incoming \in Arriving
    PROVE  /\ [incoming EXCEPT !.passed = FALSE] \in Arriving
           /\ ~[incoming EXCEPT !.passed = FALSE].passed
<1>1. PICK none \in BOOLEAN : none = FALSE
  OBVIOUS
<1>2. PICK c : c = [incoming EXCEPT !.passed = none]
  OBVIOUS
<1>3. /\ c \in [bytes : plan.device, pos : Nat, passed : BOOLEAN]
      /\ c.pos = incoming.pos /\ c.bytes = incoming.bytes /\ c.passed = none
  BY <1>2 DEF Arriving
<1>4. c \in Arriving
  BY <1>3 DEF Arriving
<1> QED BY <1>1, <1>2, <1>3, <1>4

\* Send, whatever it does to the message that is coming in.
LEMMA MessagesSent ==
    ASSUME PortsInv, ~sending, NEW messages \in Seq(Sendable), Send(messages),
           incoming' \in {Interrupted, NoMessage},
           UNCHANGED <<plan, high, sending, bulk, receiver, arrived, flow>>
    PROVE  PortsInv'
<1>1. PICK b \in Sent(messages) : low' = b[1] /\ gap' = b[2]
  BY DEF Send
<1>2. Kept(<<low, gap>>)
  BY DEF PortsInv, PortsTypeOK, Passing, Kept
<1>3. Kept(b)
  BY <1>1, <1>2, SentFacts
<1>4. <<low', gap'>> \in Buffers /\ Chained(b[1])
  BY <1>1, <1>3 DEF Kept, Buffers
<1>5. Chained(low)'
  BY <1>1, <1>4, ChainPrimed
<1>6. incoming' = NoMessage \/ (incoming' \in Arriving /\ ~incoming'.passed)
  <2>1. incoming = NoMessage \/ incoming \in Arriving
    BY DEF PortsInv, PortsTypeOK
  <2> QED BY <2>1, CutFacts DEF Interrupted
<1>7. Arriving' = Arriving
  BY DEF Arriving
<1>8. PortsTypeOK'
  BY <1>4, <1>6, <1>7 DEF PortsInv, PortsTypeOK
<1>9. NextWaits'
  BY DEF PortsInv, NextWaits, Waiting, State
<1>10. Passing'
  BY <1>5, <1>6 DEF PortsInv, Passing
<1> QED BY <1>8, <1>9, <1>10 DEF PortsInv

\* OnNote, OnEdit and OnProgramLoaded.
LEMMA SendsKeep ==
    ASSUME PortsInv, OnNote \/ OnEdit \/ OnProgramLoaded
    PROVE  PortsInv'
<1>1. PortsTypeOK
  BY DEF PortsInv
<1>2. CASE OnNote
  <2>1. PICK note \in plan.notes : Send(<< <<144, note, 100>> >>)
    BY <1>2 DEF OnNote
  <2>2. PICK m, ms : m = <<144, note, 100>> /\ ms = <<m>>
    OBVIOUS
  <2>3. m \in Sendable
    <3>1. note \in DataBytes /\ 100 \in DataBytes /\ 144 \in {144, 176}
      BY <1>1, PlanFacts DEF DataBytes
    <3> QED BY <2>2, <3>1, ThreeByteMessages
  <2>4. ms \in Seq(Sendable) /\ Send(ms)
    BY <2>1, <2>2, <2>3
  <2> QED BY <1>2, <2>4, MessagesSent DEF OnNote
<1>3. CASE OnEdit
  <2>1. PICK value \in plan.edits : Send(<< <<176, 6, 0>>, <<176, 38, value>> >>)
    BY <1>3 DEF OnEdit
  <2>2. PICK m, n, ms : m = <<176, 6, 0>> /\ n = <<176, 38, value>> /\ ms = <<m, n>>
    OBVIOUS
  <2>3. m \in Sendable /\ n \in Sendable
    <3>1. value \in DataBytes /\ 6 \in DataBytes /\ 0 \in DataBytes /\ 38 \in DataBytes
      BY <1>1, PlanFacts DEF DataBytes
    <3>2. 176 \in {144, 176}
      OBVIOUS
    <3> QED BY <2>2, <3>1, <3>2, ThreeByteMessages
  <2>4. ms \in Seq(Sendable) /\ Send(ms)
    BY <2>1, <2>2, <2>3
  <2> QED BY <1>3, <2>4, MessagesSent DEF OnEdit
<1>4. CASE OnProgramLoaded
  <2>1. PICK program \in plan.programs : Send(ProgramMessages(program))
    BY <1>4 DEF OnProgramLoaded
  <2>2. PICK m, n, r, ms : /\ m = <<176, 32, 0>> /\ n = <<192, program>> /\ r = <<254>>
                           /\ ms = <<m, n, r>>
    OBVIOUS
  <2>3. m \in Sendable /\ n \in Sendable /\ r \in Sendable
    <3>1. program \in DataBytes /\ 32 \in DataBytes /\ 0 \in DataBytes
      BY <1>1, PlanFacts DEF DataBytes
    <3>2. 176 \in {144, 176}
      OBVIOUS
    <3> QED BY <2>2, <3>1, <3>2, ThreeByteMessages, OtherMessages
  <2>4. ms \in Seq(Sendable) /\ Send(ms)
    BY <2>1, <2>2, <2>3 DEF ProgramMessages
  <2> QED BY <1>4, <2>4, MessagesSent DEF OnProgramLoaded
<1> QED BY <1>2, <1>3, <1>4

\* A byte that a device sends.
LEMMA PassedOnKeeps ==
    ASSUME PortsInv, ~sending, NEW m \in plan.device, NEW i \in 1..Len(m), PassOn(m, i),
           IF incoming = NoMessage THEN i = 1 ELSE m = incoming.bytes /\ i = incoming.pos + 1,
           UNCHANGED <<plan, mode, high, sending, bulk, receiver, arrived, flow>>
    PROVE  PortsInv'
<1>1. PortsTypeOK /\ NextWaits /\ Passing /\ m \in Sendable
  BY PlanFacts DEF PortsInv
<1>0. Len(m) \in Nat /\ i \in Nat
  BY <1>1 DEF Sendable
<1>2. incoming.passed \in BOOLEAN /\ (incoming = NoMessage => incoming.passed)
  <2>1. PICK yes \in BOOLEAN : yes = TRUE
    OBVIOUS
  <2>2. incoming = NoMessage => incoming.passed = yes
    BY <2>1 DEF NoMessage
  <2>3. incoming = NoMessage \/ incoming.passed \in BOOLEAN
    BY <1>1 DEF PortsTypeOK, Arriving
  <2> QED BY <2>1, <2>2, <2>3
<1>3. PICK cut \in BOOLEAN : cut = ~incoming.passed
  BY <1>2
<1>4. Kept(<<low, gap>>)
  BY <1>1 DEF PortsTypeOK, Passing, Kept
<1>5. i = 1 \/ cut \/ EndsWith(low, gap, m, i - 1)
  <2>1. ASSUME i # 1, incoming.passed
        PROVE  EndsWith(low, gap, m, i - 1)
    <3>1. incoming # NoMessage /\ m = incoming.bytes /\ i = incoming.pos + 1
      BY <2>1
    <3>2. incoming.pos \in Nat
      BY <1>1, <3>1 DEF PortsTypeOK, Arriving
    <3>3. i - 1 = incoming.pos
      BY <3>1, <3>2
    <3> QED BY <1>1, <2>1, <3>1, <3>3 DEF Passing
  <2> QED BY <1>3, <2>1
<1>6. PICK more \in BOOLEAN : more = (PassesByte(m) /\ (i = 1 \/ incoming.passed))
  BY DEF PassesByte
<1>7. incoming' = IF i = Len(m) THEN NoMessage ELSE [bytes |-> m, pos |-> i, passed |-> more]
  BY <1>6 DEF PassOn
<1>8. incoming' = NoMessage \/ incoming' \in Arriving
  <2>1. ASSUME i # Len(m)
        PROVE  [bytes |-> m, pos |-> i, passed |-> more] \in Arriving
    <3>1. PICK c : c = [bytes |-> m, pos |-> i, passed |-> more]
      OBVIOUS
    <3>2. c \in [bytes : plan.device, pos : Nat, passed : BOOLEAN] /\ c.bytes = m /\ c.pos = i
      BY <1>0, <3>1
    <3>3. i \in 1..(Len(m) - 1)
      BY <1>0, <2>1
    <3> QED BY <3>1, <3>2, <3>3 DEF Arriving
  <2> QED BY <1>7, <2>1
<1>9. Arriving' = Arriving
  BY DEF Arriving
<1>10. NextWaits'
  BY <1>1 DEF NextWaits, Waiting, State
<1>11. CASE PassesByte(m)
  <2>1. PICK b \in Overwritten(<<low, gap>>, Tagged(m, i, cut)) : low' = b[1] /\ gap' = b[2]
    BY <1>3, <1>11 DEF PassOn
  <2>2. PICK c : c = <<low, gap>>
    OBVIOUS
  <2>3. Kept(b) /\ EndsWith(b[1], b[2], m, i)
    <3>1. Kept(c) /\ b \in Overwritten(c, Tagged(m, i, cut)) /\ c[1] = low /\ c[2] = gap
      BY <1>4, <2>1, <2>2
    <3>2. i = 1 \/ cut \/ EndsWith(c[1], c[2], m, i - 1)
      BY <1>5, <3>1
    <3> QED BY <1>1, <3>1, <3>2, EntryAdded
  <2>4. <<low', gap'>> \in Buffers /\ Chained(b[1])
    BY <2>1, <2>3 DEF Kept, Buffers
  <2>5. Chained(low)'
    BY <2>1, <2>4, ChainPrimed
  <2>6. PortsTypeOK'
    BY <1>1, <1>8, <1>9, <2>4 DEF PortsTypeOK
  <2>7. ASSUME incoming' # NoMessage
        PROVE  EndsWith(low, gap, incoming.bytes, incoming.pos)'
    <3>1. incoming'.bytes = m /\ incoming'.pos = i
      BY <1>7, <2>7
    <3>2. EndsWith(low, gap, m, i)'
      BY <2>1, <2>3 DEF EndsWith
    <3> QED BY <3>1, <3>2 DEF EndsWith
  <2>8. Passing'
    BY <1>1, <2>5, <2>7 DEF Passing
  <2> QED BY <1>10, <2>6, <2>8 DEF PortsInv
<1>12. CASE ~PassesByte(m) /\ m[1] # 240 /\ i = Len(m) /\ Passes(m)
  <2>1. PICK ms : ms = <<m>>
    OBVIOUS
  <2>2. ms \in Seq(Sendable) /\ Send(ms)
    BY <1>1, <1>12, <2>1 DEF PassOn
  <2>3. incoming' = NoMessage
    BY <1>7, <1>12
  <2> QED BY <2>2, <2>3, MessagesSent
<1>13. CASE ~PassesByte(m) /\ ~(m[1] # 240 /\ i = Len(m) /\ Passes(m))
  <2>1. UNCHANGED <<low, gap>>
    BY <1>13 DEF PassOn
  <2>2. ASSUME incoming' # NoMessage
        PROVE  ~incoming'.passed
    BY <1>6, <1>7, <1>13, <2>2
  <2>3. Chained(low)'
    <3>1. PICK s : s = low'
      OBVIOUS
    <3>2. Chained(s)
      BY <1>1, <2>1, <3>1 DEF Passing
    <3> QED BY <3>1, <3>2, ChainPrimed
  <2>4. PortsTypeOK'
    BY <1>1, <1>8, <1>9, <2>1 DEF PortsTypeOK
  <2>5. Passing'
    BY <1>1, <2>2, <2>3 DEF Passing
  <2> QED BY <1>10, <2>4, <2>5 DEF PortsInv
<1> QED BY <1>11, <1>12, <1>13

LEMMA DeviceKeeps ==
    ASSUME PortsInv, DeviceByte
    PROVE  PortsInv'
<1>1. CASE incoming = NoMessage
  <2>1. PICK m \in plan.device : PassOn(m, 1)
    BY <1>1 DEF DeviceByte
  <2>2. 1 \in 1..Len(m)
    <3>1. m \in Sendable
      BY PlanFacts DEF PortsInv
    <3>2. Len(m) \in Nat /\ Len(m) > 0
      BY <3>1 DEF Sendable, IsMessage, IsChannelMessage, IsSysEx, IsRealtimeMessage
    <3> QED BY <3>2
  <2> QED BY <1>1, <2>1, <2>2, PassedOnKeeps DEF DeviceByte
<1>2. CASE incoming # NoMessage
  <2>1. PICK m, i : m = incoming.bytes /\ i = incoming.pos + 1
    OBVIOUS
  <2>2. incoming \in Arriving
    BY <1>2 DEF PortsInv, PortsTypeOK
  <2>3. m \in plan.device /\ incoming.pos \in 1..(Len(m) - 1)
    BY <2>1, <2>2 DEF Arriving
  <2>4. Len(m) \in Nat
    BY <2>3, PlanFacts DEF PortsInv, Sendable
  <2>5. i \in 1..Len(m)
    BY <2>1, <2>3, <2>4
  <2>6. PassOn(m, i)
    BY <1>2, <2>1 DEF DeviceByte
  <2> QED BY <1>2, <2>1, <2>3, <2>5, <2>6, PassedOnKeeps DEF DeviceByte
<1> QED BY <1>1, <1>2

\* SysExSendRaw.
LEMMA ObjectTags ==
    \A o, k : [Tagged(o, k, FALSE) EXCEPT !.object = TRUE] = ObjectEntry(o, k)
<1> TAKE o, k
<1>1. PICK yes \in BOOLEAN, no \in BOOLEAN : yes = TRUE /\ no = FALSE
  OBVIOUS
<1>2. PICK t : t = Tagged(o, k, FALSE)
  OBVIOUS
<1>3. t = [message |-> o, at |-> k, cut |-> no, object |-> no]
  BY <1>1, <1>2 DEF Tagged
<1>4. [t EXCEPT !.object = yes] = [message |-> o, at |-> k, cut |-> no, object |-> yes]
  BY <1>3
<1> QED BY <1>1, <1>2, <1>4 DEF ObjectEntry

\* An entry of a transfer is a byte of the object, and none is lost before it.
LEMMA ObjectFields ==
    \A o, k : /\ ObjectEntry(o, k).message = o /\ ObjectEntry(o, k).at = k
              /\ ~ObjectEntry(o, k).cut /\ ObjectEntry(o, k).object
<1> TAKE o, k
<1>1. PICK yes \in BOOLEAN, no \in BOOLEAN : yes = TRUE /\ no = FALSE
  OBVIOUS
<1>2. PICK e : e = ObjectEntry(o, k)
  OBVIOUS
<1>3. e = [message |-> o, at |-> k, cut |-> no, object |-> yes]
  BY <1>1, <1>2 DEF ObjectEntry
<1>4. e.message = o /\ e.at = k /\ e.cut = no /\ e.object = yes
  BY <1>3
<1> QED BY <1>1, <1>2, <1>4

LEMMA ObjectEntries ==
    ASSUME NEW o \in Sendable, NEW i \in 1..Len(o)
    PROVE  ObjectEntry(o, i) \in Entries
<1>1. PICK yes \in BOOLEAN, no \in BOOLEAN : yes = TRUE /\ no = FALSE
  OBVIOUS
<1>2. ObjectEntry(o, i) = [message |-> o, at |-> i, cut |-> no, object |-> yes]
  BY <1>1 DEF ObjectEntry
<1>3. i \in Nat
  BY DEF Sendable
<1> HIDE DEF ObjectEntry
<1> QED BY <1>2, <1>3 DEF Entries

LEMMA TransferStarts ==
    ASSUME PortsInv, StartSending
    PROVE  PortsInv'
<1>1. PICK o \in plan.objects :
          bulk' = [i \in DOMAIN o |-> [Tagged(o, i, FALSE) EXCEPT !.object = TRUE]]
  BY DEF StartSending
<1>2. o \in Sendable /\ Len(o) > 1 /\ Len(o) \in Nat /\ DOMAIN o = 1..Len(o)
  <2>1. o \in Sendable /\ IsSysEx(o)
    BY PlanFacts DEF PortsInv
  <2> QED BY <2>1 DEF Sendable, IsSysEx
<1>3. bulk' = [i \in 1..Len(o) |-> ObjectEntry(o, i)]
  <2>1. \A i \in 1..Len(o) :
            [Tagged(o, i, FALSE) EXCEPT !.object = TRUE] = ObjectEntry(o, i)
    BY ObjectTags, Zenon
  <2> QED BY <1>1, <1>2, <2>1
<1>4. /\ bulk' \in Seq(Entries) /\ Len(bulk') = Len(o)
      /\ \A k \in 1..Len(o) : bulk'[k] = ObjectEntry(o, k)
  <2>1. \A i \in 1..Len(o) : ObjectEntry(o, i) \in Entries
    BY <1>2, ObjectEntries
  <2> HIDE DEF ObjectEntry
  <2>2. bulk' \in Seq(Entries) /\ Len(bulk') = Len(o)
    BY <1>2, <1>3, <2>1
  <2> QED BY <1>3, <2>2
<1>5. low' = <<>> /\ Len(low') = 0 /\ gap' = FALSE /\ <<low', gap'>> \in Buffers
  <2>1. low' = <<>> /\ gap' = FALSE
    BY DEF StartSending
  <2>2. low' \in Seq(Entries) /\ Len(low') = 0
    BY <2>1
  <2> QED BY <2>1, <2>2, Pairs DEF Buffers
<1>6. flow' = flow /\ flow # "object" /\ plan' = plan
  BY DEF StartSending, PortsInv, Passing
<1>7. Transfer(o, 0)'
  <2>1. 0 \in 0..Len(o) /\ 0 \notin 1..(Len(o) - 1) /\ 0 # Len(o) /\ Len(o) = 0 + 0 + Len(o)
    BY <1>2
  <2>2. \A k \in 1..Len(low') : low'[k] = ObjectEntry(o, 0 + k)
    BY <1>5
  <2>3. \A k \in 1..Len(bulk') : bulk'[k] = ObjectEntry(o, 0 + Len(low') + k)
    <3>1. \A k \in 1..Len(o) : 0 + Len(low') + k = k
      BY <1>2, <1>5
    <3> QED BY <1>4, <3>1
  <2>4. Len(o) = 0 + Len(low') + Len(bulk')
    BY <1>2, <1>4, <1>5
  <2> QED BY <1>1, <1>6, <2>1, <2>2, <2>3, <2>4 DEF Transfer
<1>8. incoming' = NoMessage \/ (incoming' \in Arriving /\ ~incoming'.passed)
  <2>1. incoming = NoMessage \/ incoming \in Arriving
    BY DEF PortsInv, PortsTypeOK
  <2> QED BY <2>1, CutFacts DEF Interrupted, StartSending
<1>9. Arriving' = Arriving
  BY <1>6 DEF Arriving
<1>10. PortsTypeOK'
  BY <1>4, <1>5, <1>8, <1>9 DEF PortsInv, PortsTypeOK, StartSending
<1>11. NextWaits'
  BY DEF PortsInv, StartSending, NextWaits, Waiting, State
<1>12. Transferring'
  BY <1>5, <1>7, <1>8 DEF Transferring
<1>13. sending'
  BY DEF StartSending
<1> QED BY <1>10, <1>11, <1>12, <1>13 DEF PortsInv

LEMMA BlockingKeeps ==
    ASSUME PortsInv, SendBlocking
    PROVE  PortsInv'
<1>1. bulk # <<>> /\ low' = Append(low, Head(bulk)) /\ bulk' = Tail(bulk)
  BY DEF SendBlocking
<1>2. sending /\ Transferring
  BY <1>1 DEF PortsInv, Passing
<1>3. PICK o, j : Transfer(o, j)
  BY <1>2 DEF Transferring
<1>4. low \in Seq(Entries) /\ bulk \in Seq(Entries) /\ gap \in BOOLEAN
  BY DEF PortsInv, PortsTypeOK, Buffers
<1>5. Len(low) \in Nat /\ Len(bulk) \in Nat /\ Len(bulk) > 0 /\ j \in Nat
  <2>1. Len(o) \in Nat
    BY <1>3, PlanFacts DEF PortsInv, Transfer, Sendable
  <2> QED BY <1>1, <1>3, <1>4, <2>1 DEF Transfer
<1>6. PICK n, l : n = Len(low) /\ l = Len(bulk)
  OBVIOUS
<1>7. Head(bulk) = ObjectEntry(o, j + n + 1)
  <2>1. 1 \in 1..Len(bulk) /\ Head(bulk) = bulk[1]
    BY <1>1, <1>4, <1>5
  <2> QED BY <1>3, <1>6, <2>1 DEF Transfer
<1>8. /\ low' \in Seq(Entries) /\ Len(low') = n + 1 /\ low'[n + 1] = Head(bulk)
      /\ \A k \in 1..n : low'[k] = low[k]
      /\ bulk' \in Seq(Entries) /\ Len(bulk') = l - 1
      /\ \A k \in 1..(l - 1) : bulk'[k] = bulk[k + 1]
  <2>1. Head(bulk) \in Entries
    BY <1>1, <1>4
  <2> QED BY <1>1, <1>4, <1>6, <2>1
<1>9. \A k \in 1..Len(low') : low'[k] = ObjectEntry(o, j + k)
  <2>1. \A k \in 1..n : low[k] = ObjectEntry(o, j + k)
    BY <1>3, <1>6 DEF Transfer
  <2>2. \A k \in 1..(n + 1) : k \in 1..n \/ k = n + 1
    BY <1>5, <1>6
  <2>3. j + (n + 1) = j + n + 1
    BY <1>5, <1>6
  <2> HIDE DEF ObjectEntry
  <2> QED BY <1>7, <1>8, <2>1, <2>2, <2>3
<1>10. \A k \in 1..Len(bulk') : bulk'[k] = ObjectEntry(o, j + Len(low') + k)
  <2>1. \A k \in 1..l : bulk[k] = ObjectEntry(o, j + n + k)
    BY <1>3, <1>6 DEF Transfer
  <2>2. \A k \in 1..(l - 1) : k + 1 \in 1..l /\ j + n + (k + 1) = j + (n + 1) + k
    BY <1>5, <1>6
  <2> HIDE DEF ObjectEntry
  <2> QED BY <1>8, <2>1, <2>2
<1>11. Len(o) = j + Len(low') + Len(bulk')
  BY <1>3, <1>5, <1>6, <1>8 DEF Transfer
<1>12. UNCHANGED <<plan, high, gap, incoming, sending, receiver, arrived, flow>>
  BY DEF SendBlocking
<1>13. Transfer(o, j)'
  BY <1>3, <1>9, <1>10, <1>11, <1>12 DEF Transfer
<1>14. <<low', gap'>> \in Buffers
  BY <1>4, <1>8, <1>12 DEF Buffers
<1>15. PortsTypeOK'
  BY <1>8, <1>12, <1>14 DEF PortsInv, PortsTypeOK, Arriving
<1>16. NextWaits' /\ Transferring'
  BY <1>2, <1>12, <1>13 DEF PortsInv, NextWaits, Waiting, State, Transferring
<1> QED BY <1>2, <1>12, <1>15, <1>16 DEF PortsInv

LEMMA TransferEnds ==
    ASSUME PortsInv, Flush
    PROVE  PortsInv'
<1>1. sending /\ bulk = <<>> /\ low = <<>> /\ ~sending'
  BY DEF Flush
<1>2. UNCHANGED <<plan, low, high, gap, incoming, bulk, receiver, arrived, flow>>
  BY DEF Flush
<1>3. Transferring
  BY <1>1 DEF PortsInv
<1>4. PICK o, j : Transfer(o, j)
  BY <1>3 DEF Transferring
<1>5. j = Len(o)
  <2>1. Len(low) = 0 /\ Len(bulk) = 0
    BY <1>1
  <2>2. Len(o) \in Nat
    BY <1>4, PlanFacts DEF PortsInv, Transfer, Sendable
  <2> QED BY <1>4, <2>1, <2>2 DEF Transfer
<1>6. flow = "broken"
  BY <1>4, <1>5 DEF Transfer
<1>7. Passing'
  <2>1. Chained(low)'
    <3>1. low' = <<>> /\ 1..Len(low') = {} /\ 2..Len(low') = {}
      BY <1>1, <1>2
    <3> QED BY <3>1 DEF Chained, Linked
  <2> QED BY <1>1, <1>2, <1>3, <1>6, <2>1 DEF Passing, Transferring
<1>8. sending' \in BOOLEAN
  BY DEF Flush
<1>9. PortsTypeOK'
  BY <1>2, <1>8 DEF PortsInv, PortsTypeOK, Arriving
<1>10. NextWaits'
  BY <1>2 DEF PortsInv, NextWaits, Waiting, State
<1> QED BY <1>1, <1>7, <1>9, <1>10 DEF PortsInv

-----------------------------------------------------------------------------
(* What comes out.                                                         *)

LEMMA HeadOfTransfer ==
    ASSUME PortsInv, low # <<>>, NEW o, NEW j, Transfer(o, j)
    PROVE  /\ o \in Sendable /\ Len(o) > 1 /\ Len(o) \in Nat /\ j \in 0..(Len(o) - 1)
           /\ low[1] = ObjectEntry(o, j + 1) /\ j + 1 \in 1..Len(o)
<1>1. o \in Sendable /\ Len(o) > 1 /\ Len(o) \in Nat
  <2>1. o \in Sendable /\ IsSysEx(o)
    BY PlanFacts DEF PortsInv, Transfer
  <2> QED BY <2>1 DEF Sendable, IsSysEx
<1>2. Len(low) \in Nat /\ Len(low) > 0 /\ Len(bulk) \in Nat
  BY DEF PortsInv, PortsTypeOK, Buffers
<1>3. j \in 0..Len(o) /\ Len(o) = j + Len(low) + Len(bulk)
  BY DEF Transfer
<1>4. j \in 0..(Len(o) - 1) /\ j + 1 \in 1..Len(o)
  BY <1>1, <1>2, <1>3
<1>5. low[1] = ObjectEntry(o, j + 1)
  <2>1. 1 \in 1..Len(low)
    BY <1>2
  <2> QED BY <2>1 DEF Transfer
<1> QED BY <1>1, <1>4, <1>5

\* The byte that comes out next is one of a message, and goes on with what has come out.
LEMMA HeadGoesOn ==
    ASSUME PortsInv, low # <<>>
    PROVE  low[1] \in Entries /\ GoesOn(low[1]) /\ Head(low) = low[1]
<1>1. low \in Seq(Entries)
  BY DEF PortsInv, PortsTypeOK, Buffers
<1>2. low[1] \in Entries /\ Head(low) = low[1]
  BY <1>1
<1>3. CASE ~sending
  BY <1>2, <1>3 DEF PortsInv, Passing, Chained
<1>4. CASE sending
  <2>1. PICK o, j : Transfer(o, j)
    BY <1>4 DEF PortsInv, Transferring
  <2>2. /\ o \in Sendable /\ j \in 0..(Len(o) - 1) /\ Len(o) \in Nat
        /\ low[1] = ObjectEntry(o, j + 1) /\ j + 1 \in 1..Len(o)
    BY <2>1, HeadOfTransfer
  <2>3. low[1].message = o /\ low[1].at = j + 1
    <3>1. PICK k \in 1..Len(o) : k = j + 1
      BY <2>2
    <3>2. low[1] = ObjectEntry(o, k)
      BY <2>2, <3>1
    <3>3. low[1].message = o /\ low[1].at = k
      BY <3>2, ObjectFields
    <3> QED BY <3>1, <3>3
  <2>4. ASSUME j = 0
        PROVE  GoesOn(low[1])
    BY <2>3, <2>4 DEF GoesOn, IsFirst
  <2>5. ASSUME j # 0
        PROVE  GoesOn(low[1])
    <3>1. j \in 1..(Len(o) - 1) /\ (j + 1) - 1 = j
      BY <2>2, <2>5
    <3>2. arrived = SubSeq(o, 1, j)
      BY <2>1, <3>1 DEF Transfer
    <3> QED BY <2>3, <3>1, <3>2 DEF GoesOn
  <2> QED BY <1>2, <2>4, <2>5
<1> QED BY <1>2, <1>3, <1>4

\* The next unit takes it for that byte of its message.
LEMMA TakenOn ==
    ASSUME PortsInv, low # <<>>, NEW e, e = Head(low), Intact(e)
    PROVE  /\ e.message \in Sendable /\ e.at \in 1..Len(e.message)
           /\ GoesOnWith(e.message, e.at, Pushed(receiver, ByteOf(e)))
           /\ Arrived(e) = SubSeq(e.message, 1, e.at)
<1>1. e \in Entries /\ GoesOn(e)
  BY HeadGoesOn
<1>2. e.message \in Sendable /\ e.at \in 1..Len(e.message)
  BY <1>1 DEF Entries
<1>3. PICK m, i : m = e.message /\ i = e.at
  OBVIOUS
<1>4. IsMessage(m) /\ m \in Seq(0..255) /\ Len(m) \in Nat /\ i \in 1..Len(m)
  BY <1>2, <1>3 DEF Sendable
<1>5. ByteOf(e) = m[i]
  BY <1>3 DEF ByteOf
<1>6. CASE i = 1
  <2>1. GoesOnWith(m, 1, Pushed(receiver, m[1]))
    BY <1>4, FirstByte
  <2>2. Arrived(e) = <<m[1]>>
    BY <1>3, <1>5, <1>6 DEF Arrived, IsFirst
  <2>3. SubSeq(m, 1, 1) = <<m[1]>>
    <3>1. PICK s, t : s = SubSeq(m, 1, 1) /\ t = <<m[1]>>
      OBVIOUS
    <3>2. 1 \in 1..Len(m) /\ m[1] \in 0..255
      <4>1. 1 \in 1..Len(m)
        BY <1>4, <1>6
      <4>2. m \in Seq(0..255)
        BY <1>4
      <4> QED BY <4>1, <4>2, SeqFacts
    <3>3. s \in Seq(0..255) /\ Len(s) = 1 /\ s[1] = m[1]
      BY <1>4, <3>1, <3>2, PrefixFacts
    <3>4. t \in Seq(0..255) /\ Len(t) = 1 /\ t[1] = m[1]
      BY <3>1, <3>2
    <3>5. \A k \in 1..Len(s) : s[k] = t[k]
      BY <3>3, <3>4
    <3>6. Len(s) = Len(t)
      BY <3>3, <3>4
    <3> QED BY <3>1, <3>3, <3>4, <3>5, <3>6, SeqEqual, Zenon
  <2> QED BY <1>2, <1>3, <1>5, <1>6, <2>1, <2>2, <2>3
<1>7. CASE i # 1
  <2>1. flow # "broken" /\ ~e.cut
    BY <1>3, <1>7 DEF Intact, IsFirst
  <2>2. arrived = SubSeq(m, 1, i - 1)
    BY <1>1, <1>3, <1>7, <2>1 DEF GoesOn, IsFirst
  <2>3. receiver = Waiting(SubSeq(m, 1, i - 1))
    BY <2>1, <2>2 DEF PortsInv, NextWaits
  <2>4. i \in 2..Len(m)
    BY <1>4, <1>7
  <2>5. GoesOnWith(m, i, Pushed(receiver, m[i]))
    BY <1>4, <2>3, <2>4, LaterByte
  <2>6. Arrived(e) = Append(arrived, m[i])
    BY <1>3, <1>5, <1>7 DEF Arrived, IsFirst
  <2>7. Append(SubSeq(m, 1, i - 1), m[i]) = SubSeq(m, 1, i)
    BY <1>4, <2>4, PrefixGrows
  <2> QED BY <1>2, <1>3, <1>5, <2>2, <2>5, <2>6, <2>7
<1> QED BY <1>6, <1>7

LEMMA HeadIsWhole == PortsInv => OutputIsWhole
<1> SUFFICES ASSUME PortsInv, low # <<>>, NEW e, e = Head(low)
             PROVE  /\ Intact(e) => HandedOver(e) = IF IsLast(e) /\ Arrived(e)[1] < 240
                                                    THEN <<Arrived(e)>> ELSE <<>>
                    /\ flow = "object" <=> e.object /\ ~IsFirst(e)
  BY DEF OutputIsWhole
<1>1. ASSUME Intact(e)
      PROVE  HandedOver(e) = IF IsLast(e) /\ Arrived(e)[1] < 240 THEN <<Arrived(e)>> ELSE <<>>
  <2>1. PICK m, i : m = e.message /\ i = e.at
    OBVIOUS
  <2>2. /\ m \in Sendable /\ i \in 1..Len(m) /\ GoesOnWith(m, i, Pushed(receiver, ByteOf(e)))
        /\ Arrived(e) = SubSeq(m, 1, i)
    BY <1>1, <2>1, TakenOn
  <2>3. HandedOver(e) = ChannelMessages(Pushed(receiver, ByteOf(e)).messages)
    BY SameParser DEF HandedOver
  <2>4. HandedOver(e) = IF i = Len(m) /\ m[1] < 240 THEN <<m>> ELSE <<>>
    BY <2>2, <2>3 DEF GoesOnWith
  <2>5. IsLast(e) <=> i = Len(m)
    BY <2>1 DEF IsLast
  <2>6. m \in Seq(0..255) /\ Len(m) \in Nat
    BY <2>2 DEF Sendable
  <2>7. Arrived(e)[1] = m[1]
    BY <2>2, <2>6, PrefixFacts
  <2>8. ASSUME i = Len(m)
        PROVE  Arrived(e) = m
    <3>1. PICK s : s = SubSeq(m, 1, i)
      OBVIOUS
    <3>2. s \in Seq(0..255) /\ Len(s) = i /\ \A k \in 1..i : s[k] = m[k]
      BY <2>2, <2>6, <3>1, PrefixFacts
    <3>3. \A k \in 1..Len(s) : s[k] = m[k]
      BY <3>2
    <3>4. Len(s) = Len(m)
      BY <2>8, <3>2
    <3> QED BY <2>2, <2>6, <3>1, <3>2, <3>3, <3>4, SeqEqual, Zenon
  <2> QED BY <2>4, <2>5, <2>7, <2>8
<1>2. flow = "object" <=> e.object /\ ~IsFirst(e)
  <2>0. e = low[1]
    BY HeadGoesOn
  <2>1. CASE ~sending
    <3>1. 1 \in 1..Len(low)
      BY DEF PortsInv, PortsTypeOK, Buffers
    <3>2. ~e.object /\ flow # "object"
      BY <2>0, <2>1, <3>1 DEF PortsInv, Passing, Chained
    <3> QED BY <3>2
  <2>2. CASE sending
    <3>1. PICK o, j : Transfer(o, j)
      BY <2>2 DEF PortsInv, Transferring
    <3>2. /\ o \in Sendable /\ Len(o) \in Nat /\ j \in 0..(Len(o) - 1)
          /\ low[1] = ObjectEntry(o, j + 1) /\ j + 1 \in 1..Len(o)
      BY <3>1, HeadOfTransfer
    <3>3. e.object /\ e.at = j + 1
      <4>1. PICK k \in 1..Len(o) : k = j + 1
        BY <3>2
      <4>2. e = ObjectEntry(o, k)
        BY <2>0, <3>2, <4>1
      <4>3. e.object /\ e.at = k
        BY <4>2, ObjectFields
      <4> QED BY <4>1, <4>3
    <3>4. flow = "object" <=> j \in 1..(Len(o) - 1)
      BY <3>1 DEF Transfer
    <3>5. j + 1 = 1 <=> ~(j \in 1..(Len(o) - 1))
      BY <3>2
    <3> QED BY <3>3, <3>4, <3>5 DEF IsFirst
  <2> QED BY <2>1, <2>2
<1> QED BY <1>1, <1>2

LEMMA OutputKeeps ==
    ASSUME PortsInv, FlushLow
    PROVE  PortsInv'
<1>1. low # <<>> /\ low' = Tail(low)
  BY DEF FlushLow
<1>2. PICK e : e = Head(low)
  OBVIOUS
<1>3. /\ receiver' = Parser!Pushed(receiver, ByteOf(e)).parser
      /\ arrived' = Arrived(e) /\ flow' = FlowAfter(e)
      /\ UNCHANGED <<plan, high, gap, incoming, sending, bulk>>
  BY <1>2 DEF FlushLow
<1>4. e = low[1] /\ e \in Entries
  BY <1>1, <1>2, HeadGoesOn
<1>5. low \in Seq(Entries) /\ Len(low) \in Nat /\ gap \in BOOLEAN
  BY DEF PortsInv, PortsTypeOK, Buffers
<1>6. /\ low' \in Seq(Entries) /\ Len(low') = Len(low) - 1
      /\ \A k \in 1..Len(low') : low'[k] = low[k + 1]
  BY <1>1, <1>5
<1>7. PICK m, i : m = e.message /\ i = e.at
  OBVIOUS
<1>8. m \in Sendable /\ i \in 1..Len(m) /\ Len(m) \in Nat /\ m \in Seq(0..255)
  BY <1>4, <1>7 DEF Entries, Sendable
<1>9. /\ flow' \in {"broken", "whole", "object"}
      /\ flow' # "broken" <=> Intact(e) /\ ~IsLast(e)
      /\ flow' = "object" <=> Intact(e) /\ ~IsLast(e) /\ e.object
  BY <1>3 DEF FlowAfter
<1>10. flow' # "broken" => arrived' = SubSeq(m, 1, i) /\ receiver' = Waiting(SubSeq(m, 1, i))
  <2>1. SUFFICES ASSUME Intact(e), ~IsLast(e)
                 PROVE  arrived' = SubSeq(m, 1, i) /\ receiver' = Waiting(SubSeq(m, 1, i))
    BY <1>9
  <2>2. GoesOnWith(m, i, Pushed(receiver, ByteOf(e))) /\ Arrived(e) = SubSeq(m, 1, i)
    BY <1>1, <1>2, <1>7, <2>1, TakenOn
  <2>3. i < Len(m)
    BY <1>7, <1>8, <2>1 DEF IsLast
  <2>4. receiver' = Pushed(receiver, ByteOf(e)).parser
    BY <1>3, SameParser
  <2> QED BY <1>3, <2>2, <2>3, <2>4 DEF GoesOnWith
<1>11. NextWaits'
  <2>1. Waiting(arrived)' = Waiting(arrived')
    BY DEF Waiting, State
  <2> QED BY <1>10, <2>1 DEF NextWaits
<1>12. PortsTypeOK'
  <2>1. <<low', gap'>> \in Buffers
    BY <1>3, <1>5, <1>6 DEF Buffers
  <2> QED BY <1>3, <1>9, <2>1 DEF PortsInv, PortsTypeOK, Arriving
<1>13. ASSUME ~sending
       PROVE  Passing'
  <2>1. Passing /\ Chained(low)
    BY <1>13 DEF PortsInv, Passing
  <2>2. \A k \in 1..Len(low) : ~low[k].object
    BY <2>1 DEF Chained
  <2>3. \A k \in 1..Len(low') : k + 1 \in 1..Len(low) /\ (k # 1 => k \in 2..Len(low'))
    BY <1>5, <1>6
  <2>4. \A k \in 1..Len(low') : ~low'[k].object
    BY <1>6, <2>2, <2>3
  <2>5. ASSUME NEW k \in 2..Len(low')
        PROVE  Follows(low'[k], low'[k - 1].message, low'[k - 1].at)
    <3>1. k + 1 \in 2..Len(low) /\ k \in 1..Len(low') /\ k - 1 \in 1..Len(low')
      BY <1>5, <1>6
    <3>2. (k - 1) + 1 = k /\ (k + 1) - 1 = k
      BY <1>5, <1>6
    <3>3. low'[k] = low[k + 1] /\ low'[k - 1] = low[k]
      BY <1>6, <3>1, <3>2
    <3>4. Follows(low[k + 1], low[k].message, low[k].at)
      BY <2>1, <3>1, <3>2 DEF Chained, Linked
    <3> QED BY <3>3, <3>4
  <2>6. ASSUME low' # <<>>
        PROVE  GoesOn(low[1])'
    <3>1. 1 \in 1..Len(low') /\ 2 \in 2..Len(low)
      BY <1>5, <1>6, <2>6
    <3>2. PICK f : f = low'[1]
      OBVIOUS
    <3>3. f = low[2]
      BY <1>6, <3>1, <3>2
    <3>4. Follows(f, m, i)
      BY <1>4, <1>7, <2>1, <3>1, <3>3 DEF Chained, Linked
    <3>5. f \in Entries
      BY <1>6, <3>1, <3>2
    <3>6. CASE IsFirst(f) \/ f.cut
      BY <3>2, <3>6 DEF GoesOn
    <3>7. CASE f.message = m /\ f.at = i + 1
      <4>1. f.at - 1 = i
        BY <1>8, <3>7
      <4>2. flow' = "broken" \/ arrived' = SubSeq(f.message, 1, f.at - 1)
        BY <1>10, <3>7, <4>1
      <4> QED BY <3>2, <4>2 DEF GoesOn
    <3> QED BY <3>4, <3>6, <3>7 DEF Follows
  <2>7. Chained(low)'
    <3>1. Linked(low)'
      BY <2>5 DEF Linked
    <3> QED BY <2>4, <2>6, <3>1 DEF Chained
  <2>8. ASSUME incoming # NoMessage, incoming.passed
        PROVE  EndsWith(low, gap, incoming.bytes, incoming.pos)'
    <3>1. PICK n, p : n = incoming.bytes /\ p = incoming.pos
      OBVIOUS
    <3>2. gap \/ (low[Len(low)].message = n /\ low[Len(low)].at = p)
      BY <1>1, <2>1, <2>8, <3>1 DEF Passing, EndsWith
    <3>3. CASE gap
      BY <1>3, <3>3 DEF EndsWith
    <3>4. CASE low[Len(low)].message = n /\ low[Len(low)].at = p /\ low' = <<>>
      <4>1. Len(low) = 1
        <5>1. Len(low') = 0
          BY <3>4
        <5> QED BY <1>5, <1>6, <5>1
      <4>2. m = n /\ i = p
        BY <1>4, <1>7, <3>4, <4>1
      <4>3. flow' = "broken" \/ arrived' = SubSeq(n, 1, p)
        BY <1>10, <4>2
      <4> QED BY <1>3, <3>1, <3>4, <4>3 DEF EndsWith
    <3>5. CASE low[Len(low)].message = n /\ low[Len(low)].at = p /\ low' # <<>>
      <4>1. Len(low') \in 1..Len(low') /\ Len(low') + 1 = Len(low)
        BY <1>5, <1>6, <3>5
      <4>2. low'[Len(low')] = low[Len(low)]
        BY <1>6, <4>1
      <4> QED BY <1>3, <3>1, <3>5, <4>2 DEF EndsWith
    <3> QED BY <3>2, <3>3, <3>4, <3>5
  <2>9. bulk' = <<>> /\ flow' # "object"
    <3>1. 1 \in 1..Len(low)
      BY <1>1, <1>5
    <3>2. ~e.object
      BY <1>4, <2>2, <3>1
    <3> QED BY <1>3, <1>9, <2>1, <3>2 DEF Passing
  <2> QED BY <1>3, <2>7, <2>8, <2>9 DEF Passing
<1>14. ASSUME sending
       PROVE  Transferring'
  <2>1. Transferring
    BY <1>14 DEF PortsInv
  <2>2. PICK o, j : Transfer(o, j)
    BY <2>1 DEF Transferring
  <2>3. /\ o \in Sendable /\ Len(o) > 1 /\ Len(o) \in Nat /\ j \in 0..(Len(o) - 1)
        /\ e = ObjectEntry(o, j + 1) /\ j + 1 \in 1..Len(o)
    BY <1>1, <1>4, <2>2, HeadOfTransfer
  <2>4. PICK k \in 1..Len(o) : k = j + 1
    BY <2>3
  <2>5. m = o /\ i = k /\ ~e.cut /\ e.object
    <3>1. e = ObjectEntry(o, k)
      BY <2>3, <2>4
    <3>2. e.message = o /\ e.at = k /\ ~e.cut /\ e.object
      BY <3>1, ObjectFields
    <3> QED BY <1>7, <3>2
  <2>6. Intact(e)
    <3>1. CASE j = 0
      BY <1>7, <2>4, <2>5, <3>1 DEF Intact, IsFirst
    <3>2. CASE j # 0
      <4>1. j \in 1..(Len(o) - 1)
        BY <2>3, <3>2
      <4>2. flow = "object"
        BY <2>2, <4>1 DEF Transfer
      <4> QED BY <2>5, <4>2 DEF Intact
    <3> QED BY <3>1, <3>2
  <2>7. IsLast(e) <=> k = Len(o)
    BY <1>7, <2>5 DEF IsLast
  <2>8. flow' = "object" <=> k \in 1..(Len(o) - 1)
    BY <1>9, <2>3, <2>5, <2>6, <2>7
  <2>9. flow' = "object" => arrived' = SubSeq(o, 1, k)
    BY <1>9, <1>10, <2>5
  <2>10. k = Len(o) => flow' = "broken"
    BY <1>9, <2>7
  <2>11. o \in plan'.objects /\ k \in 0..Len(o) /\ Len(bulk) \in Nat /\ j \in Nat
    BY <1>3, <2>2, <2>3, <2>4 DEF Transfer, PortsInv, PortsTypeOK
  <2>12. Len(o) = k + Len(low') + Len(bulk')
    BY <1>3, <1>5, <1>6, <2>2, <2>4, <2>11 DEF Transfer
  <2>13. \A x \in 1..Len(low') : low'[x] = ObjectEntry(o, k + x)
    <3>1. \A x \in 1..Len(low) : low[x] = ObjectEntry(o, j + x)
      BY <2>2 DEF Transfer
    <3>2. \A x \in 1..Len(low') : x + 1 \in 1..Len(low) /\ j + (x + 1) = k + x
      BY <1>5, <1>6, <2>4, <2>11
    <3> HIDE DEF ObjectEntry
    <3> QED BY <1>6, <3>1, <3>2
  <2>14. \A x \in 1..Len(bulk') : bulk'[x] = ObjectEntry(o, k + Len(low') + x)
    <3>1. \A x \in 1..Len(bulk) : bulk[x] = ObjectEntry(o, j + Len(low) + x)
      BY <2>2 DEF Transfer
    <3>2. \A x \in 1..Len(bulk) : j + Len(low) + x = k + Len(low') + x
      BY <1>5, <1>6, <2>4, <2>11
    <3> HIDE DEF ObjectEntry
    <3> QED BY <1>3, <3>1, <3>2
  <2>15. Transfer(o, k)'
    BY <2>8, <2>9, <2>10, <2>11, <2>12, <2>13, <2>14 DEF Transfer
  <2> QED BY <1>3, <2>1, <2>15 DEF Transferring
<1> QED BY <1>3, <1>11, <1>12, <1>13, <1>14 DEF PortsInv

\* Neither the buffer of realtime bytes nor the mode says anything about the other buffer.
LEMMA HighKeeps ==
    ASSUME PortsInv, high' \in Seq(248..255), receiver' = receiver,
           UNCHANGED <<plan, low, gap, incoming, sending, bulk, arrived, flow>>
    PROVE  PortsInv'
<1>1. PortsTypeOK' /\ NextWaits'
  BY DEF PortsInv, PortsTypeOK, Arriving, NextWaits, Waiting, State
<1>2. sending => Transferring'
  BY DEF PortsInv, Transferring, Transfer
<1>3. ~sending => Passing'
  <2>1. Chained(low) => Chained(low)'
    BY ChainPrimed
  <2> QED BY <2>1 DEF PortsInv, Passing, EndsWith
<1> QED BY <1>1, <1>2, <1>3 DEF PortsInv

LEMMA RealtimeKeeps ==
    ASSUME PortsInv, OnClock \/ FlushHigh \/ SetMode \/ UNCHANGED portsvars
    PROVE  PortsInv'
<1>1. high \in Seq(248..255) /\ plan.clocks \subseteq 248..255
  BY PlanFacts DEF PortsInv, PortsTypeOK
<1>2. CASE OnClock
  <2>1. PICK b \in 248..255 : SendNow(b)
    BY <1>1, <1>2 DEF OnClock
  <2>2. Append(high, b) \in Seq(248..255) /\ <<b>> \in Seq(248..255)
    BY <1>1
  <2>3. high' \in Seq(248..255)
    BY <1>1, <2>1, <2>2 DEF SendNow
  <2> QED BY <1>2, <2>3, HighKeeps DEF OnClock
<1>3. CASE FlushHigh
  <2>1. PICK b : b = Head(high)
    OBVIOUS
  <2>2. b \in 248..255 /\ high' \in Seq(248..255)
    BY <1>1, <1>3, <2>1 DEF FlushHigh
  <2>3. Pushed(receiver, b).parser = receiver
    BY <2>2 DEF Pushed, IsRealtime, IsStatus, AfterRealtime
  <2>4. receiver' = receiver
    BY <1>3, <2>1, <2>3, SameParser DEF FlushHigh
  <2> QED BY <1>3, <2>2, <2>4, HighKeeps DEF FlushHigh
<1>4. CASE SetMode
  BY <1>1, <1>4, HighKeeps DEF SetMode
<1>5. CASE UNCHANGED portsvars
  BY <1>1, <1>5, HighKeeps DEF portsvars
<1> QED BY <1>2, <1>3, <1>4, <1>5

LEMMA PortsStart == PortsInit => PortsInv
<1> SUFFICES ASSUME PortsInit
             PROVE  PortsInv
  OBVIOUS
<1>1. <<low, gap>> \in Buffers /\ high \in Seq(248..255) /\ bulk \in Seq(Entries)
  <2>1. low \in Seq(Entries) /\ gap = FALSE /\ high \in Seq(248..255) /\ bulk \in Seq(Entries)
    BY DEF PortsInit
  <2> QED BY <2>1, Pairs DEF Buffers
<1>2. PortsTypeOK
  BY <1>1 DEF PortsInit, PortsTypeOK
<1>3. Chained(low)
  <2>1. low = <<>> /\ 1..Len(low) = {} /\ 2..Len(low) = {}
    BY DEF PortsInit
  <2> QED BY <2>1 DEF Chained, Linked
<1>4. Passing
  BY <1>3 DEF PortsInit, Passing
<1> QED BY <1>2, <1>4 DEF PortsInit, PortsInv, NextWaits

\* OutputIsWhole holds of any use of the ports: however small the buffers are and whatever they
\* lose, whatever a unit sends between two bytes of a message it passes on, and whatever
\* realtime bytes come in between.
THEOREM OutputStaysWhole == PortsSpec => []OutputIsWhole
<1>1. PortsInv /\ [PortsNext]_portsvars => PortsInv'
  BY SendsKeep, DeviceKeeps, TransferStarts, BlockingKeeps, TransferEnds, OutputKeeps,
     RealtimeKeeps DEF PortsNext
<1> QED BY <1>1, PortsStart, HeadIsWhole, PTL DEF PortsSpec

=============================================================================
