--------------------------- MODULE MCObjectTransfer ---------------------------
(* Instance for TLC: the header of the source, two parts, and small objects. *)
EXTENDS ObjectTransfer

MCHeader == <<240, 0, 33, 2, 0, 4>>
MCObjectSize == [object \in Objects |-> CASE object = STORAGE_OBJECT_PROGRAM -> 3
                                          [] object = STORAGE_OBJECT_PART -> 2
                                          [] OTHER -> 1]
\* The array read as it is, or as zeros.
MCHeaderReads == {MCHeader, [i \in 1..6 |-> 0]}
\* Vectors of jumps to address 512, then zeros.
MCProgramMemory ==
    [a \in 0..255 |-> IF a >= 124 THEN 0 ELSE CASE a % 4 = 0 -> 12
                                                [] a % 4 = 1 -> 148
                                                [] a % 4 = 2 -> 0
                                                [] OTHER -> 1]
Filled(x) ==
    [patch |-> [p \in Parts |-> <<x + p>>],
     part |-> [p \in Parts |-> <<x + 2 + 2 * p, x + 3 + 2 * p>>],
     multi |-> <<x + 6>>]
MCMemories == {Filled(16), Filled(248)}
=============================================================================
