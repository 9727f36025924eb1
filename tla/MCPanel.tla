------------------------------- MODULE MCPanel -------------------------------
(* The front panel for TLC: what the player does in each session. *)
EXTENDS Panel

Session(page, pages, parts, objects, room, turns, clicks, switches, pots, notes, changes, snap) ==
    [ page |-> page, pages |-> pages, parts |-> parts, objects |-> objects, room |-> room,
      turns |-> turns, clicks |-> clicks, switches |-> switches, pots |-> pots,
      notes |-> notes, changes |-> changes, snap |-> snap ]

\* Pots are numbered as they are wired: 3 is the first of the page.
MCSessions ==
    { Session(5, {3, 5, 6}, {0}, {"program"}, 1, {-1, 1}, TRUE, {3}, {<<3, 127>>}, {}, {}, TRUE),
      Session(9, {8, 9, 10}, {0, 5}, {"program"}, 1, {-1, 1}, TRUE, {3}, {<<3, 127>>, <<0, 64>>, <<5, 64>>}, {40}, {}, FALSE),
      Session(8, {7, 8, 9}, {0, 1}, {"program"}, 2, {-1, 1}, TRUE, {7}, {<<1, 64>>, <<4, 64>>}, {40}, {}, FALSE),
      Session(12, {11, 12}, {0}, {"program"}, 1, {1}, TRUE, {1}, {<<1, 127>>, <<1, 60>>}, {61}, {}, FALSE),
      Session(12, {11, 12}, {0}, {"program"}, 1, {}, TRUE, {1}, {<<3, 127>>, <<1, 127>>, <<1, 60>>, <<2, 127>>}, {}, {}, FALSE),
      Session(13, {2, 13, 14}, {0, 1}, {"program", "multi"}, 1, {1}, FALSE, {3, 6, 7}, {},  {},
              {[parts |-> <<0, 1>>, bank |-> TRUE, place |-> <<0, 1>>],
               [parts |-> <<>>, bank |-> FALSE, place |-> <<0, 1>>]}, FALSE),
      Session(13, {2, 13}, {0}, {"program"}, 2, {1}, TRUE, {0, 4, 6}, {},  {},
              {}, FALSE),
      Session(13, {2, 13, 15, 16}, {0}, {"program"}, 1, {1}, TRUE, {0, 1, 6, 7}, {}, {}, {}, FALSE) }

MCLengths == [p \in 0..5 |-> [i \in 0..2 |-> IF (p % 3) = i THEN 3 ELSE 2]]

=============================================================================
