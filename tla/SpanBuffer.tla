----------------------------- MODULE SpanBuffer ------------------------------
(***************************************************************************)
(* The span processor of the Python package (agent-watch-otel, processor): *)
(* on_end, on whatever thread of the host finished a call, puts it on a    *)
(* bounded queue; one daemon thread takes batches from it and posts them;  *)
(* shutdown stops both; a fork leaves the child a new queue and sender.    *)
(*                                                                         *)
(* The queue is first in, first out: of its order only the place of the    *)
(* shutdown sentinel is kept (queued: before it, behind: after it), and    *)
(* task_done's counter is the set of the items it has yet to be told of.   *)
(***************************************************************************)
EXTENDS Integers, FiniteSets

CONSTANTS
    Calls,      \* LLM spans the host will finish
    MaxQueue,   \* max_queue
    BatchMax,   \* BATCH_MAX_CALLS
    Sentinel,   \* _SHUTDOWN
    Sender,     \* the daemon thread
    Nobody

(* Python's objects: the sentinel is no call, and no two holders are one. *)
NamesDiffer == Sentinel \notin Calls /\ Sender \notin Calls /\ Nobody \notin Calls \union {Sender}

VARIABLES
    at,         \* how far each call is
    owed,       \* items put on the queue and not yet task_done
    sentinel,   \* "no", "in" the queue, or taken "out" of it
    stopped,    \* the event shutdown sets
    closer,     \* how far the thread in shutdown is
    sender,     \* how far the sender is
    batch,      \* the calls it has in hand
    done,       \* it is to stop after them
    counter,    \* who holds _counter_lock
    forked      \* this is a child

queue == <<owed, sentinel, stopped, closer>>
sending == <<sender, batch, done>>
vars == <<at, queue, sending, counter, forked>>

Init ==
    /\ at = [c \in Calls |-> "open"]
    /\ owed = {} /\ sentinel = "no"
    /\ stopped = FALSE /\ closer = "idle"
    /\ sender = "get" /\ batch = {} /\ done = FALSE
    /\ counter = Nobody
    /\ forked = FALSE

Queued == {c \in Calls : at[c] \in {"queued", "behind"}}
Full == Cardinality(Queued) + (IF sentinel = "in" THEN 1 ELSE 0) >= MaxQueue
Reach(c, state) == at' = [at EXCEPT ![c] = state]

-----------------------------------------------------------------------------
(* on_end.  The event is read once, before the digests are computed.       *)
Enter(c) ==
    /\ at[c] = "open"
    /\ Reach(c, IF stopped THEN "ignored" ELSE "read")
    /\ UNCHANGED <<queue, sending, counter, forked>>

(* A span without a model, or a bug of the package: counted as dropped.    *)
Fails(c) ==
    /\ at[c] = "read"
    /\ Reach(c, "dropping")
    /\ UNCHANGED <<queue, sending, counter, forked>>

PutNowait(c) ==
    /\ at[c] = "read"
    /\ \/ Full /\ Reach(c, "dropping") /\ UNCHANGED owed
       \/ /\ ~Full
          /\ Reach(c, IF sentinel = "no" THEN "queued" ELSE "behind")
          /\ owed' = owed \union {c}
    /\ UNCHANGED <<sentinel, stopped, closer, sending, counter, forked>>

(* _count, on the host's thread.                                           *)
LockCounter(c) ==
    /\ at[c] = "dropping" /\ counter = Nobody
    /\ counter' = c
    /\ UNCHANGED <<at, queue, sending, forked>>

CountDrop(c) ==
    /\ at[c] = "dropping" /\ counter = c
    /\ counter' = Nobody
    /\ Reach(c, "dropped")
    /\ UNCHANGED <<queue, sending, forked>>

-----------------------------------------------------------------------------
(* shutdown: the event, the sentinel if there is room, a bounded join; a   *)
(* second call returns at once.                                            *)
Shutdown ==
    /\ closer = "idle" /\ ~stopped
    /\ stopped' = TRUE
    /\ closer' = "put"
    /\ UNCHANGED <<at, owed, sentinel, sending, counter, forked>>

PutSentinel ==
    /\ closer = "put"
    /\ closer' = "join"
    /\ \/ Full /\ UNCHANGED <<owed, sentinel>>
       \/ ~Full /\ sentinel' = "in" /\ owed' = owed \union {Sentinel}
    /\ UNCHANGED <<at, stopped, sending, counter, forked>>

-----------------------------------------------------------------------------
(* _next_batch.  An item is there, or flush_seconds pass without one: then *)
(* the event decides, read later.                                          *)
Take(c) ==
    /\ sender \in {"get", "more"} /\ Cardinality(batch) < BatchMax
    /\ at[c] = "queued"
    /\ Reach(c, "batched")
    /\ batch' = batch \union {c}
    /\ sender' = "more"
    /\ UNCHANGED <<queue, done, counter, forked>>

TakeSentinel ==
    /\ sender \in {"get", "more"} /\ Cardinality(batch) < BatchMax
    /\ sentinel = "in" /\ \A c \in Calls : at[c] # "queued"
    /\ sentinel' = "out"
    /\ done' = TRUE
    /\ sender' = "send"
    /\ UNCHANGED <<at, owed, stopped, closer, batch, counter, forked>>

Empty ==
    /\ sender \in {"get", "more"}
    /\ \/ sender = "more" /\ Cardinality(batch) >= BatchMax
       \/ sentinel # "in" /\ Queued = {}
    /\ sender' = IF sender = "get" THEN "empty" ELSE "send"
    /\ UNCHANGED <<at, queue, batch, done, counter, forked>>

ReadStopped ==
    /\ sender = "empty"
    /\ done' = stopped
    /\ sender' = "settle"
    /\ UNCHANGED <<at, queue, batch, counter, forked>>

(* _send: one request, never repeated.                                     *)
Send ==
    /\ sender = "send"
    /\ \E outcome \in {"sent", "failed"} :
          at' = [c \in Calls |-> IF c \in batch THEN outcome ELSE at[c]]
    /\ sender' = IF batch = {} THEN "settle" ELSE "count"
    /\ UNCHANGED <<queue, batch, done, counter, forked>>

LockBatchCounter ==
    /\ sender = "count" /\ counter = Nobody
    /\ counter' = Sender
    /\ UNCHANGED <<at, queue, sending, forked>>

CountBatch ==
    /\ sender = "count" /\ counter = Sender
    /\ counter' = Nobody
    /\ sender' = "settle"
    /\ UNCHANGED <<at, queue, batch, done, forked>>

(* task_done for every item taken, the sentinel included.                  *)
Settle ==
    /\ sender = "settle"
    /\ owed' = owed \ (batch \union IF sentinel = "out" THEN {Sentinel} ELSE {})
    /\ batch' = {}
    /\ sender' = IF done THEN "ended" ELSE "get"
    /\ UNCHANGED <<at, sentinel, stopped, closer, done, counter, forked>>

-----------------------------------------------------------------------------
(* _restart_after_fork, seen from the child: no thread but the forking one *)
(* is in it, what was under way is the parent's, the lock is as it was.    *)
Fork ==
    /\ ~forked
    /\ forked' = TRUE
    /\ at' = [c \in Calls |-> IF at[c] \in {"read", "dropping", "queued", "behind", "batched"} THEN "parents" ELSE at[c]]
    /\ owed' = {} /\ sentinel' = "no" /\ closer' = "idle"
    /\ sender' = "get" /\ batch' = {} /\ done' = FALSE
    /\ UNCHANGED <<stopped, counter>>

OnEnd(c) == Enter(c) \/ Fails(c) \/ PutNowait(c) \/ LockCounter(c) \/ CountDrop(c)
Run == TakeSentinel \/ Empty \/ ReadStopped \/ Send \/ LockBatchCounter \/ CountBatch \/ Settle

Next ==
    \/ \E c \in Calls : OnEnd(c) \/ Take(c)
    \/ Run
    \/ Shutdown \/ PutSentinel
    \/ Fork

Spec == Init /\ [][Next]_vars

-----------------------------------------------------------------------------
(* force_flush: when Queue.join returns, every call that was put has been  *)
(* sent or dropped, whatever shutdown, the sentinel and a fork did in      *)
(* between; and a sender that has stopped owes nothing for the sentinel.   *)
FlushMeansSettled ==
    /\ owed \ {Sentinel} = Queued \union batch
    /\ Sentinel \in owed => sentinel = "in" \/ sender # "ended"

(* "Calls this processor read but never delivered, for any reason": a      *)
(* sender that has stopped leaves no call behind that nobody counts.       *)
NothingLeftUncounted == sender = "ended" => \A c \in Calls : at[c] \notin {"queued", "behind"}

(* on_end never waits for what cannot come: whoever holds the lock of the  *)
(* counters is still there to release it.                                  *)
HolderIsThere ==
    \/ counter = Nobody
    \/ counter = Sender /\ sender = "count"
    \/ counter \in Calls /\ at[counter] = "dropping"
=============================================================================
