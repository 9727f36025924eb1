------------------------------- MODULE MCMulti -------------------------------
(* Two or three parts for TLC, one session for each question. *)
EXTENDS Multi

M(channel, low, high, voices) ==
    [midi_channel |-> channel, low |-> low, high |-> high, voices |-> voices]

MCVoices == 0..5
MCDefault == <<M(1, 0, 127, {0, 2, 4}), M(2, 0, 127, {1, 3, 5})>>
ZeroBased(s) == [p \in 0..(Len(s) - 1) |-> s[p + 1]]
MCDefaultMap == ZeroBased(MCDefault)

\* Voices claimed twice, in both orders.
MCMappings ==
    { ZeroBased(<<M(1, 0, 127, {0, 1, 2}), M(0, 60, 127, {2, 3})>>),
      ZeroBased(<<M(2, 61, 59, {}), M(2, 0, 60, {0, 3})>>) }

None == [map |-> MCDefaultMap, mode |-> "controller", edits |-> {}, backlog |-> 4, keys |-> {}, remaps |-> {},
         voices |-> {}, blocks |-> {}, others |-> {}, inits |-> {}, meddling |-> 0]
EditOf(part, address, values) == [part |-> part, address |-> address, values |-> values]

MCSessions ==
    { [None EXCEPT !.edits = {EditOf(1, 130, {5, 200})},
                   !.mode = "chain"],
      [None EXCEPT !.edits = {EditOf(0, 127, {1, 4}), EditOf(0, 0, {1, 2}), EditOf(1, 130, {5})},
                   !.mode = "chain", !.backlog = 0],
      \* The same parameter of two parts.
      [None EXCEPT !.edits = {EditOf(0, 16, {90, 100}), EditOf(1, 16, {80})}, !.backlog = 0],
      \* Every controller that stands for a parameter, at its ends and in the middle.
      [None EXCEPT !.others = ((0..119) \ {0, 1, 2, 4, 64}) \X {0, 63, 64, 127}, !.meddling = 1],
      \* Increments at the ends of a range, and a device that moves the address meanwhile.
      [None EXCEPT !.others = {<<99, 1>>, <<98, 2>>, <<98, 36>>, <<6, 1>>, <<38, 36>>, <<96, 0>>, <<97, 0>>},
                   !.edits = {EditOf(0, 130, {5, 200})}, !.backlog = 0, !.meddling = 3],
      [None EXCEPT !.others = {<<98, 2>>, <<96, 0>>, <<97, 0>>, <<38, 64>>},
                   !.inits = {"patch", "sequence", "part"}, !.meddling = 4],
      [None EXCEPT !.keys = {59, 61},
                   !.remaps = {<<"low", 61>>, <<"high", 59>>, <<"midi_channel", 2>>}],
      [None EXCEPT !.keys = {60}, !.voices = {1, 2, 3}],
      [None EXCEPT !.blocks = {1, 4, 5, 6}] }

MCVersions == {"default", "edited"}
MCChannels == {0, 1}
MCDraws == {0, 127, 128, 255}

=============================================================================
