----------------------------- MODULE MCTurnClose -----------------------------
(* Sessions for TurnClose.  nr tells repeated Stops of a turn apart.       *)
EXTENDS TurnClose, MCAggregation

Prompt(turn, at) == [kind |-> "prompt", turn |-> turn, at |-> at]
Tool(turn, at) == [kind |-> "tool", turn |-> turn, at |-> at]
Message(turn, at) == [turn |-> turn, at |-> at]
StopOf(turn, at, nr) == [turn |-> turn, at |-> at, nr |-> nr]

(* Two turns overlap: b's prompt comes before a's Stop.                    *)
Overlap ==
    [records |-> {Prompt("a", 1), Prompt("b", 4)},
     messages |-> {Message("b", 5)},
     stops |-> {StopOf("a", 6, 1), StopOf("b", 7, 1)}]

(* An agent that names no turns: two Stops of what it calls one turn.      *)
Plain ==
    [records |-> {Prompt(NoTurn, 1), Tool(NoTurn, 4)},
     messages |-> {Message(NoTurn, 5)},
     stops |-> {StopOf(NoTurn, 6, 1), StopOf(NoTurn, 7, 2)}]

(* A turn with two Stops that race, around another one (for ClaimsStand).  *)
Raced ==
    [records |-> {Prompt("a", 1), Prompt("b", 2)},
     messages |-> {Message("b", 3), Message("a", 4)},
     stops |-> {StopOf("a", 6, 1), StopOf("a", 6, 2), StopOf("b", 7, 1)}]

MCSessions == {Overlap, Plain}
=============================================================================
