---------------------------- MODULE MCAggregation ----------------------------
(* Aggregation against a reference definition, over every set of three     *)
(* summaries of a session and every call, and over every ledger of up to   *)
(* two rows, delivered once and twice, for two turns.                      *)
EXTENDS Aggregation
LOCAL INSTANCE Sequences
LOCAL INSTANCE FiniteSets
LOCAL INSTANCE FiniteSetsExt

SummaryOf(id, turn, start, end) ==
    [id |-> id, session |-> "s", turn |-> turn, start |-> start, end |-> end,
     tokens |-> 7, status |-> "pending", calls |-> Absent, agents |-> <<>>]
CallOf(callId, turn, at, agent, tokens) ==
    [provider |-> "p", callId |-> callId, session |-> "s", turn |-> turn, at |-> at,
     agent |-> agent, role |-> Unnamed, tokens |-> tokens]

TurnIds == {"a", "b", Unnamed}
SummariesWith(id) ==
    {SummaryOf(id, turn, start, end) : turn \in TurnIds, start \in {Absent, 1, 2}, end \in {Absent, 2, 3}}

(* Summaries of one session: their ids differ, and their turns' names.     *)
SummarySets ==
    {sums \in {{s1, s2, s3} : s1 \in SummariesWith(1), s2 \in SummariesWith(2), s3 \in SummariesWith(3)} :
        \A s, o \in sums : s.turn = o.turn /\ s.turn # Unnamed => s = o}
Calls == {CallOf(1, turn, at, Unnamed, 1) : turn \in TurnIds \union {"c"}, at \in {Absent, 1, 2, 3}}

Owners(c, sums) == {s \in sums : BelongsToTurn(s, c, sums)}

(* The reference: the turn the call names; else, of the windows around it, *)
(* those that start last, of these those that stop first, and of these the *)
(* first id, unless it names a turn and the call another.                  *)
ReferenceOwners(c, sums) ==
    LET exact == {s \in sums : c.turn # Unnamed /\ s.turn = c.turn}
        around == {s \in sums : c.at # Absent /\ s.end # Absent /\ c.at \in s.start .. s.end}
        latest == {s \in around : s.start = Max({o.start : o \in around})}
        first == {s \in latest : s.end = Min({o.end : o \in latest})}
        best == {s \in first : s.id = Min({o.id : o \in first})}
    IN IF exact # {} THEN exact
       ELSE {s \in best : s.turn = Unnamed \/ c.turn = Unnamed}

(* Every call is joined as the comments of belongsToTurn and               *)
(* ownsWindowJoin say, and to one turn at the most.                        *)
ASSUME OwnersAreTheReference ==
    \A sums \in SummarySets : \A c \in Calls :
        /\ Owners(c, sums) = ReferenceOwners(c, sums)
        /\ Cardinality(Owners(c, sums)) <= 1

-----------------------------------------------------------------------------
TwoTurns == {SummaryOf(1, "a", 1, 3), SummaryOf(2, Unnamed, 2, 3)}
Rows == {CallOf(callId, turn, 2, agent, tokens) :
            callId \in {1, 2}, turn \in {"a", Unnamed}, agent \in {"x", Unnamed}, tokens \in {Absent, 0, 3}}
Ledgers == UNION {[1 .. n -> Rows] : n \in 0 .. 2}

(* A ledger the transport delivers twice says what it says once.           *)
ASSUME RetriesDoNotInflate ==
    \A s \in TwoTurns : \A calls \in Ledgers : \A complete \in {"yes", "no", "unsaid"} :
        AggregateTurnUsage(s, calls \o calls, TwoTurns, complete) = AggregateTurnUsage(s, calls, TwoTurns, complete)

(* The breakdown by agent adds up to the summary's totals, and a summary   *)
(* is complete only on the caller's word and with usage behind it.         *)
ASSUME BreakdownAddsUp ==
    \A s \in TwoTurns : \A calls \in Ledgers : \A complete \in {"yes", "no", "unsaid"} :
        LET turn == AggregateTurnUsage(s, calls, TwoTurns, complete)
            keys == DOMAIN turn.agents
            present == {k \in keys : turn.agents[k].tokens # Absent}
        IN turn # s =>
            /\ turn.calls = MapThenSumSet(LAMBDA k : turn.agents[k].calls, keys)
            /\ present # {} => turn.tokens = MapThenSumSet(LAMBDA k : turn.agents[k].tokens, present)
            /\ present = {} => turn.tokens = s.tokens
            /\ turn.status = "complete" => complete = "yes" /\ present # {}

(* Rows are joined before they are merged: a call of which one observation *)
(* names a turn and the other none is counted by two turns.                *)
ASSUME SplitCallIsCountedTwice ==
    \E calls \in Ledgers : \A s \in TwoTurns :
        /\ \A i, j \in DOMAIN calls : Key(calls[i]) = Key(calls[j])
        /\ AcceptCalls(s, calls, TwoTurns) # {}

(* The best window may be of a turn that the call cannot belong to: then   *)
(* it belongs to none, although another window contains it.                *)
ASSUME OverlapOrphansACall ==
    \E c \in Calls, s, o \in SummariesWith(1) \union SummariesWith(2) :
        /\ s.id # o.id /\ s.turn = Unnamed
        /\ c.at # Absent /\ ContainsCall(s, c.at)
        /\ Owners(c, {s}) = {s} /\ Owners(c, {s, o}) = {} /\ o.turn # c.turn
=============================================================================
