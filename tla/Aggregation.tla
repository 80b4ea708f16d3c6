---------------------------- MODULE Aggregation ------------------------------
(* Which calls of a session's ledger a turn's summary counts, and what it  *)
(* says of them (turns/aggregate-usage.ts), as pure operators: a consumer  *)
(* of the events runs them, no hook does.                                  *)
(* A summary is [id, session, turn, start, end, tokens, status, calls,     *)
(* agents], a call [provider, callId, session, turn, at, agent, role,      *)
(* tokens].  Times and counts are naturals; tokens stands for any one      *)
(* class of usage.  A start that is given parses (summaries are AgentWatch *)
(* events, which write it themselves).                                     *)
EXTENDS Integers
LOCAL INSTANCE Sequences
LOCAL INSTANCE FiniteSetsExt
LOCAL INSTANCE SequencesExt
LOCAL INSTANCE FiniteSets

Absent == -1            \* no time or count, or one that cannot be used
Unnamed == "unnamed"    \* no session, turn, agent or role

-----------------------------------------------------------------------------
(* An absent start is before every call, an absent end before none.        *)
ContainsCall(s, at) == /\ s.end # Absent /\ at <= s.end
                       /\ s.start <= at

(* compareOwnership: the latest start, then the earliest stop, then the id.*)
Precedes(s, o) ==
    \/ s.start > o.start
    \/ s.start = o.start /\ s.end < o.end
    \/ s.start = o.start /\ s.end = o.end /\ s.id < o.id

Pool(s, sums) == IF \E o \in sums : o.id = s.id THEN sums ELSE sums \union {s}

(* s is the best owner among the summaries whose window contains the call; *)
(* which of them could count it is not asked.                              *)
OwnsWindowJoin(s, c, sums) ==
    /\ sums # {}
    /\ c.at # Absent
    /\ ContainsCall(s, c.at)
    /\ c.turn # Unnamed => \A o \in Pool(s, sums) : o.turn # c.turn
    /\ \A o \in Pool(s, sums) :
          ContainsCall(o, c.at) /\ o.id # s.id => Precedes(s, o)

(* By turn when both name one, by time window when not.                    *)
BelongsToTurn(s, c, sums) ==
    /\ s.session # Unnamed => c.session = s.session
    /\ \/ s.turn # Unnamed /\ c.turn = s.turn
       \/ /\ s.turn = Unnamed \/ c.turn = Unnamed
          /\ OwnsWindowJoin(s, c, sums)

-----------------------------------------------------------------------------
(* Two observations of a request: the later one wins where it says         *)
(* anything.                                                               *)
Named(latest, first) == IF latest # Unnamed THEN latest ELSE first

MergeCallObservations(first, latest) ==
    [latest EXCEPT !.session = Named(@, first.session),
                   !.turn = Named(@, first.turn),
                   !.agent = Named(@, first.agent),
                   !.role = Named(@, first.role),
                   !.tokens = IF @ # Absent THEN @ ELSE first.tokens]

Key(c) == <<c.provider, c.callId>>

(* One row per call, whatever the transport repeated.                      *)
AcceptCalls(s, calls, sums) ==
    LET mine == SelectSeq(calls, LAMBDA c : BelongsToTurn(s, c, sums))
        Seen(k) == SelectSeq(mine, LAMBDA c : Key(c) = k)
    IN {FoldLeft(MergeCallObservations, Head(Seen(k)), Tail(Seen(k))) :
            k \in {Key(c) : c \in ToSet(mine)}}

SumCalls(calls) ==
    LET present == {c \in calls : c.tokens # Absent}
    IN IF present = {} THEN Absent ELSE MapThenSumSet(LAMBDA c : c.tokens, present)

ReportsAnyUsage(total) == total # Absent

(* An agent's name, or else its role, or else nobody's.                    *)
AgentKey(c) == IF c.agent # Unnamed THEN <<"id", c.agent>> ELSE <<"type", c.role>>

PerAgentUsage(calls) ==
    [k \in {AgentKey(c) : c \in calls} |->
        LET group == {c \in calls : AgentKey(c) = k}
        IN [calls |-> Cardinality(group), tokens |-> SumCalls(group)]]

(* complete needs the caller's word: a batch says nothing of the next one. *)
ResolveUsageStatus(current, hasUsage, complete) ==
    CASE hasUsage -> IF complete = "yes" THEN "complete" ELSE "partial"
      [] ~hasUsage /\ complete = "no" -> "partial"
      [] OTHER -> current

AggregateTurnUsage(s, calls, sums, complete) ==
    LET accepted == AcceptCalls(s, calls, sums)
        total == SumCalls(accepted)
    IN IF accepted = {} THEN s
       ELSE [s EXCEPT !.tokens = IF ReportsAnyUsage(total) THEN total ELSE @,
                      !.calls = Cardinality(accepted),
                      !.agents = PerAgentUsage(accepted),
                      !.status = ResolveUsageStatus(@, ReportsAnyUsage(total), complete)]
=============================================================================
