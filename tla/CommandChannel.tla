---------------------------- MODULE CommandChannel ----------------------------
(***************************************************************************)
(* What the link between the controller and the voicecards promises: each  *)
(* voicecard executes the commands addressed to it, whole, once, in the    *)
(* order in which they were issued.                                        *)
(***************************************************************************)
EXTENDS Integers, Sequences

CONSTANTS ChannelCards, ChannelMessages

VARIABLES
    pending,    \* for each card, the commands issued and not yet executed
    executed    \* for each card, the last command executed, and its parity

vars == <<pending, executed>>

Init ==
    /\ pending = [c \in ChannelCards |-> <<>>]
    /\ executed = [c \in ChannelCards |-> [command |-> <<>>, parity |-> 0]]

\* A command for one card, or the same one for all of them.
Issue(cards, m) ==
    /\ pending' = [c \in ChannelCards |->
                      IF c \in cards THEN Append(pending[c], m) ELSE pending[c]]
    /\ UNCHANGED executed

Execute(c) ==
    /\ pending[c] # <<>>
    /\ pending' = [pending EXCEPT ![c] = Tail(@)]
    /\ executed' = [executed EXCEPT ![c] = [command |-> Head(pending[c]),
                                            parity |-> 1 - executed[c].parity]]

Next ==
    \/ \E cards \in SUBSET ChannelCards, m \in ChannelMessages : Issue(cards, m)
    \/ \E c \in ChannelCards : Execute(c)

Spec == Init /\ [][Next]_vars /\ \A c \in ChannelCards : WF_vars(Execute(c))
=============================================================================
