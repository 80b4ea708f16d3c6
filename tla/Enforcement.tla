----------------------------- MODULE Enforcement -----------------------------
(***************************************************************************)
(* The budget gate, src/src/enforcement: the hook of a submitted prompt    *)
(* looks for a decision in the machine's cache file, asks the platform     *)
(* unless the breaker is open, and allows the turn whenever nobody answers.*)
(* Every hook is a process; cache and breaker are files they read and      *)
(* rewrite whole, without a lock.                                          *)
(*                                                                         *)
(* Time is kept relative: what is left until an entry or the breaker ends, *)
(* what has passed since the platform decided.  Tick moves all of them.    *)
(***************************************************************************)
EXTENDS Naturals, FiniteSets, Sequences

CONSTANTS
    Hooks,
    Questions,      \* what is asked about, one URL, token and developer
    NoCheckout,     \* the working copy could not say
    Bar, Escape,    \* "|" and "%7C" in a name
    Decisions,      \* allow and block, which nothing below tells apart
    Window,         \* ENFORCEMENT_WINDOW_MS, in ticks
    CacheTtl,       \* config.enforcement.cacheTtlMs
    NoAdvice,       \* the answer has no usable cache_ttl_ms
    Advice,         \* and the ones it may have
    Cooldown,       \* ENFORCEMENT_COOLDOWN_MS
    MaxEntries,     \* MAX_CACHE_ENTRIES
    HookLife,       \* the timeout hooks are registered with
    MaxFaults       \* bound: killed hooks, failed writes, damaged files

(* A name is a sequence of pieces, so that a bar in it can be seen.        *)
ASSUME EnforcementAssumption ==
    /\ \A q \in Questions : q.checkout = NoCheckout \/ DOMAIN q.checkout = {"repository", "branch"}
    /\ Window \in Nat \ {0} /\ CacheTtl \in Nat \ {0} /\ Cooldown \in Nat /\ HookLife \in Nat
    /\ Advice \ {NoAdvice} \subseteq Nat
    /\ MaxEntries \in Nat \ {0} /\ MaxFaults \in Nat

VARIABLES
    cache,      \* the decision cache: at most one entry per key
    breaker,    \* ticks until the breaker's file ends, 0 when there is none
    pc,         \* per hook: where it is in resolveEnforcement
    question,   \* per hook: what it asks about
    spent,      \* per hook: ticks since it started
    answer,     \* per hook: the platform's answer, or the decision to act on
    held,       \* per hook: the entries it will write
    faults      \* history: faults so far

vars == <<cache, breaker, pc, question, spent, answer, held, faults>>

Unchecked == [decision |-> "allow", failOpen |-> TRUE]
None == [decision |-> "none"]
NoQuestion == [checkout |-> NoCheckout, model |-> <<>>]

(* age, about and decision are the platform's: when it decided, and what.  *)
Answer(q) == [decision : Decisions, about : {q}, age : {0}, advice : Advice]

-----------------------------------------------------------------------------
SeparableRaw(name) == name      \* a mutant
Separable(name) == [i \in DOMAIN name |-> IF name[i] = Bar THEN Escape ELSE name[i]]

(* The hash is over the joined parts; it adds no collision of its own.     *)
DecisionKey(q) ==
    (IF q.checkout = NoCheckout THEN <<>>
     ELSE Separable(q.checkout.repository) \o <<Bar>> \o Separable(q.checkout.branch))
    \o (IF q.model = <<>> THEN <<>> ELSE <<Bar>> \o Separable(q.model))

Least(m, n) == IF m < n THEN m ELSE n

EffectiveTtlAsked(advice) == IF advice = NoAdvice THEN CacheTtl ELSE advice     \* a mutant
EffectiveTtl(advice) ==
    IF advice = NoAdvice THEN Least(CacheTtl, Window) ELSE Least(advice, Least(CacheTtl, Window))

LiveEntries(entries) == {e \in entries : e.left > 0}

(* bounded: the longest-lived stay; which of equals is the file's order.   *)
Bounded(entries) ==
    {kept \in SUBSET entries :
        /\ Cardinality(kept) = Least(MaxEntries, Cardinality(entries))
        /\ \A e \in kept, d \in entries \ kept : d.left <= e.left}

Init ==
    /\ cache = {}
    /\ breaker = 0
    /\ pc = [h \in Hooks |-> "idle"]
    /\ question = [h \in Hooks |-> NoQuestion]
    /\ spent = [h \in Hooks |-> 0]
    /\ answer = [h \in Hooks |-> None]
    /\ held = [h \in Hooks |-> {}]
    /\ faults = 0

Goto(h, label) == pc' = [pc EXCEPT ![h] = label]

-----------------------------------------------------------------------------
(* A prompt is submitted; its hook has a developer and something to ask.   *)
Prompt(h, q) ==
    /\ pc[h] = "idle"
    /\ Goto(h, "lookup")
    /\ question' = [question EXCEPT ![h] = q]
    /\ UNCHANGED <<cache, breaker, spent, answer, held, faults>>

Hits(h) == {e \in LiveEntries(cache) : e.key = DecisionKey(question[h])}

Lookup(h) ==
    /\ pc[h] = "lookup"
    /\ \/ \E e \in Hits(h) :
            /\ answer' = [answer EXCEPT ![h] = [decision |-> e.decision, about |-> e.about, age |-> e.age]]
            /\ Goto(h, "reply")
       \/ Hits(h) = {} /\ Goto(h, "breaker") /\ UNCHANGED answer
    /\ UNCHANGED <<cache, breaker, question, spent, held, faults>>

(* cooldown.active(): circuit_open, or on to the request.                  *)
CheckBreaker(h) ==
    /\ pc[h] = "breaker"
    /\ \/ /\ breaker > 0
          /\ answer' = [answer EXCEPT ![h] = Unchecked]
          /\ Goto(h, "reply")
       \/ breaker = 0 /\ Goto(h, "ask") /\ UNCHANGED answer
    /\ UNCHANGED <<cache, breaker, question, spent, held, faults>>

(* The platform decides; the answer is on its way.                         *)
Decide(h) ==
    /\ pc[h] = "ask"
    /\ \E a \in Answer(question[h]) : answer' = [answer EXCEPT ![h] = a]
    /\ Goto(h, "answered")
    /\ UNCHANGED <<cache, breaker, question, spent, held, faults>>

(* The breaker's file is written, or is not.                               *)
SetBreaker(ticks) ==
    \/ breaker' = ticks /\ UNCHANGED faults
    \/ UNCHANGED breaker /\ faults < MaxFaults /\ faults' = faults + 1

(* A timeout, an error status, an unreadable body, before or after the     *)
(* platform decided: the breaker trips and the turn is allowed.            *)
Fail(h) ==
    /\ pc[h] \in {"ask", "answered"}
    /\ SetBreaker(Cooldown)
    /\ answer' = [answer EXCEPT ![h] = Unchecked]
    /\ Goto(h, "reply")
    /\ UNCHANGED <<cache, question, spent, held>>

ReceiveForgets(h) ==        \* a mutant: an answer not to be kept prunes nothing
    /\ pc[h] = "answered"
    /\ SetBreaker(0)
    /\ Goto(h, IF EffectiveTtl(answer[h].advice) > 0 THEN "store" ELSE "reply")
    /\ UNCHANGED <<cache, question, spent, answer, held>>

(* The answer arrives: the breaker's file goes, then the answer is stored, *)
(* or the file only pruned.                                                *)
Receive(h) ==
    /\ pc[h] = "answered"
    /\ SetBreaker(0)
    /\ Goto(h, "store")
    /\ UNCHANGED <<cache, question, spent, answer, held>>

Fresh(h) ==
    LET ttl == EffectiveTtl(answer[h].advice) IN
    IF ttl = 0 THEN {}
    ELSE {[key |-> DecisionKey(question[h]), left |-> ttl, decision |-> answer[h].decision,
           about |-> answer[h].about, age |-> answer[h].age]}

(* write and prune read the file and drop what has expired ...             *)
ReadEntries(h) ==
    LET others == {e \in LiveEntries(cache) : Fresh(h) = {} \/ e.key # DecisionKey(question[h])} IN
    /\ pc[h] = "store"
    /\ \E kept \in Bounded(others \union Fresh(h)) : held' = [held EXCEPT ![h] = kept]
    /\ Goto(h, "write")
    /\ UNCHANGED <<cache, breaker, question, spent, answer, faults>>

(* ... and put the rest in its place; a write that fails is ignored.       *)
WriteEntries(h) ==
    /\ pc[h] = "write"
    /\ \/ cache' = held[h] /\ UNCHANGED faults
       \/ UNCHANGED cache /\ faults < MaxFaults /\ faults' = faults + 1
    /\ held' = [held EXCEPT ![h] = {}]
    /\ Goto(h, "reply")
    /\ UNCHANGED <<breaker, question, spent, answer>>

Gone(h) ==
    /\ Goto(h, "idle")
    /\ question' = [question EXCEPT ![h] = NoQuestion]
    /\ spent' = [spent EXCEPT ![h] = 0]
    /\ answer' = [answer EXCEPT ![h] = None]
    /\ held' = [held EXCEPT ![h] = {}]

(* The agent is told, and the gate is done.                                *)
Reply(h) ==
    /\ pc[h] = "reply"
    /\ Gone(h)
    /\ UNCHANGED <<cache, breaker, faults>>

-----------------------------------------------------------------------------
(* The agent, or the machine, ends a hook.                                 *)
Kill(h) ==
    /\ pc[h] # "idle"
    /\ faults < MaxFaults
    /\ faults' = faults + 1
    /\ Gone(h)
    /\ UNCHANGED <<cache, breaker>>

(* A cache file that is gone or cannot be read is empty.                   *)
LoseCache ==
    /\ cache # {}
    /\ faults < MaxFaults
    /\ faults' = faults + 1
    /\ cache' = {}
    /\ UNCHANGED <<breaker, pc, question, spent, answer, held>>

Older(e) == [e EXCEPT !.left = IF @ = 0 THEN 0 ELSE @ - 1,
                      !.age = Least(@ + 1, Window + HookLife)]

(* No hook outlives its timeout.  The age of what a hook replies is left   *)
(* as it was when the hook took it.                                        *)
Tick ==
    /\ \A h \in Hooks : pc[h] = "idle" \/ spent[h] < HookLife
    /\ spent' = [h \in Hooks |-> IF pc[h] = "idle" THEN spent[h] ELSE spent[h] + 1]
    /\ cache' = {Older(e) : e \in cache}
    /\ held' = [h \in Hooks |-> {Older(e) : e \in held[h]}]
    /\ breaker' = IF breaker = 0 THEN 0 ELSE breaker - 1
    /\ answer' = [h \in Hooks |-> IF pc[h] \in {"answered", "store"}
                                 THEN [answer[h] EXCEPT !.age = Least(@ + 1, Window + HookLife)]
                                 ELSE answer[h]]
    /\ UNCHANGED <<pc, question, faults>>

Run(h) ==
    \/ Lookup(h) \/ CheckBreaker(h) \/ Decide(h) \/ Fail(h) \/ Receive(h)
    \/ ReadEntries(h) \/ WriteEntries(h) \/ Reply(h)

Next ==
    \/ \E h \in Hooks : Run(h) \/ Kill(h) \/ \E q \in Questions : Prompt(h, q)
    \/ LoseCache \/ Tick

Spec == Init /\ [][Next]_vars

(* Hooks run and time passes; prompts keep coming, and while they do the   *)
(* platform answers now and then.                                          *)
FairSpec ==
    /\ Spec /\ WF_vars(Tick)
    /\ \A h \in Hooks : WF_vars(Run(h))
    /\ SF_vars(\E h \in Hooks, q \in Questions : Prompt(h, q))
    /\ SF_vars(\E h \in Hooks : Decide(h))
    /\ SF_vars(\E h \in Hooks : Receive(h))

-----------------------------------------------------------------------------
Entries ==
    [key : {DecisionKey(q) : q \in Questions}, left : 0..Window, decision : Decisions,
     about : Questions, age : 0..(Window + HookLife)]

(* The state has its type, the file one entry a key and no more than 16.   *)
TypeOK ==
    /\ \A file \in {cache} \union {held[h] : h \in Hooks} :
        /\ file \subseteq Entries /\ Cardinality(file) <= MaxEntries
        /\ \A e, f \in file : e.key = f.key => e = f
    /\ breaker \in 0..Cooldown
    /\ pc \in [Hooks -> {"idle", "lookup", "breaker", "ask", "answered", "store", "write", "reply"}]
    /\ question \in [Hooks -> Questions \union {NoQuestion}]
    /\ spent \in [Hooks -> 0..HookLife]
    /\ \A h \in Hooks : answer[h].decision \in Decisions \union {"allow", "none"}
    /\ faults \in 0..MaxFaults

(* A turn is allowed or refused by a decision on its own repository,       *)
(* branch and model, whoever put it in the cache (decisionKey, separable), *)
(* as long as no name holds the escape itself (README, divergences).       *)
AnswersTheQuestion ==
    \A h \in Hooks :
        pc[h] = "reply" /\ "about" \in DOMAIN answer[h] => answer[h].about = question[h]

(* No decision is served once the window and one hook's life have passed   *)
(* since the platform made it, however often hooks that read the file      *)
(* before write it back (ENFORCEMENT_WINDOW_MS, effectiveTtlMs).           *)
ServedWhileFresh ==
    /\ \A e \in cache : e.left > 0 => e.age + e.left <= Window + HookLife
    /\ \A h \in Hooks :
        pc[h] = "reply" /\ "age" \in DOMAIN answer[h] => answer[h].age < Window + HookLife

(* An entry that expired, a sentence about a person and what they spent,   *)
(* leaves the disk as long as answers arrive, also when none is to be kept *)
(* (decision-cache.ts, prune).                                             *)
ExpiredLeave ==
    \A q \in Questions : []<>(\A e \in cache : e.key = DecisionKey(q) => e.left > 0)
=============================================================================
