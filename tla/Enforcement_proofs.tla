-------------------------- MODULE Enforcement_proofs --------------------------
(***************************************************************************)
(* That the budget gate serves no decision past its window and none for    *)
(* another question, for any hooks, questions and bounds.                  *)
(*                                                                         *)
(* Freshness.  An entry's age and what is left of it add up to at most the *)
(* window and one hook's life (Sound), and time leaves that sum alone; an  *)
(* answer is no older than the hook that asked (SoundAnswer).              *)
(*                                                                         *)
(* Questions.  An entry is kept under the key of the question it answers,  *)
(* so all that matters is that decisionKey tells questions apart: a key is *)
(* cut at its first bar (SplitAtBar), which no escaped part contains.      *)
(***************************************************************************)
EXTENDS Enforcement, FiniteSetTheorems, SequenceTheorems, TLAPS

Asking == {"lookup", "breaker", "ask", "answered", "store", "write", "reply"}

(* Hooks have their types, and a hook that runs has a question.            *)
HooksOK ==
    /\ pc \in [Hooks -> {"idle"} \union Asking]
    /\ question \in [Hooks -> Questions \union {NoQuestion}]
    /\ spent \in [Hooks -> 0..HookLife]
    /\ DOMAIN answer = Hooks /\ DOMAIN held = Hooks
    /\ \A h \in Hooks : pc[h] # "idle" => question[h] \in Questions

(* An entry is kept under its question's key, and it ends before the       *)
(* decision is a window and a hook's life old.                             *)
Sound(e) ==
    /\ e \in [key : {DecisionKey(q) : q \in Questions}, left : Nat, decision : Decisions, about : Questions, age : Nat]
    /\ e.key = DecisionKey(e.about)
    /\ e.left > 0 => e.age + e.left <= Window + HookLife

SoundFiles == (\A e \in cache : Sound(e)) /\ \A h \in Hooks : \A e \in held[h] : Sound(e)

(* An answer on its way is no older than the hook that asked for it.       *)
SoundAnswer(h) ==
    pc[h] \in {"answered", "store", "write"} =>
        /\ answer[h] \in [decision : Decisions, about : Questions, age : Nat, advice : Advice]
        /\ answer[h].about = question[h]
        /\ answer[h].age <= spent[h]

SoundReply(h) ==
    pc[h] = "reply" /\ "age" \in DOMAIN answer[h] => answer[h].age < Window + HookLife

FreshInv == HooksOK /\ SoundFiles /\ \A h \in Hooks : SoundAnswer(h) /\ SoundReply(h)

-----------------------------------------------------------------------------
(* What is stored lives at most for the window.                            *)
LEMMA TtlInWindow ==
    ASSUME NEW advice \in Advice
    PROVE  EffectiveTtl(advice) \in 0..Window
BY EnforcementAssumption DEF EffectiveTtl, Least

(* The types are kept.                                                     *)
LEMMA HooksNext ==
    ASSUME HooksOK, [Next]_vars
    PROVE  HooksOK'
<1> USE EnforcementAssumption DEF HooksOK, Asking, Goto
<1>1. ASSUME NEW h \in Hooks, NEW q \in Questions, Prompt(h, q) PROVE HooksOK'
  BY <1>1 DEF Prompt
<1>2. ASSUME NEW h \in Hooks, Run(h) PROVE HooksOK'
  <2>1. CASE Lookup(h) \/ CheckBreaker(h)
    BY <2>1 DEF Lookup, CheckBreaker
  <2>2. CASE Decide(h)
    BY <2>2 DEF Decide
  <2>3. CASE Fail(h) \/ Receive(h)
    BY <2>3 DEF Fail, Receive
  <2>4. CASE ReadEntries(h)
    BY <2>4 DEF ReadEntries
  <2>5. CASE WriteEntries(h)
    BY <2>5 DEF WriteEntries
  <2>6. CASE Reply(h)
    BY <2>6 DEF Reply, Gone
  <2> QED BY <1>2, <2>1, <2>2, <2>3, <2>4, <2>5, <2>6 DEF Run
<1>3. ASSUME NEW h \in Hooks, Kill(h) PROVE HooksOK'
  BY <1>3 DEF Kill, Gone
<1>4. CASE Tick
  BY <1>4 DEF Tick
<1>5. CASE LoseCache \/ UNCHANGED vars
  BY <1>5 DEF LoseCache, vars
<1> QED BY <1>1, <1>2, <1>3, <1>4, <1>5 DEF Next

(* Time does no harm to an entry.                                          *)
LEMMA OlderSound ==
    ASSUME NEW e, Sound(e)
    PROVE  Sound(Older(e))
<1> DEFINE left == IF e.left = 0 THEN 0 ELSE e.left - 1
           age == Least(e.age + 1, Window + HookLife)
           Keys == {DecisionKey(q) : q \in Questions}
<1>1. e \in [key : Keys, left : Nat, decision : Decisions, about : Questions, age : Nat]
  BY DEF Sound
<1>2. left \in Nat /\ age \in Nat /\ age <= e.age + 1
  BY <1>1, EnforcementAssumption DEF Least
<1>3. Older(e) = [e EXCEPT !.left = left, !.age = age]
  BY DEF Older
<1> HIDE DEF left, age, Keys
<1>4. /\ Older(e) \in [key : Keys, left : Nat, decision : Decisions, about : Questions, age : Nat]
      /\ Older(e).key = e.key /\ Older(e).about = e.about
      /\ Older(e).left = left /\ Older(e).age = age
  BY <1>1, <1>2, <1>3
<1>5. left > 0 => left + age <= Window + HookLife
  BY <1>1, <1>2, EnforcementAssumption DEF Sound, left
<1> QED BY <1>2, <1>4, <1>5, EnforcementAssumption DEF Sound, Keys

(* The files stay sound: what a hook stores came from the file or is fresh.*)
LEMMA FilesNext ==
    ASSUME FreshInv, [Next]_vars
    PROVE  SoundFiles'
<1> USE DEF FreshInv, HooksOK, SoundFiles
<1>1. ASSUME NEW h \in Hooks, ReadEntries(h) PROVE SoundFiles'
  <2>1. \A e \in Fresh(h) : Sound(e)
    <3>1. answer[h] \in [decision : Decisions, about : Questions, age : Nat, advice : Advice]
          /\ answer[h].about = question[h] /\ answer[h].age <= HookLife
      BY <1>1, EnforcementAssumption DEF ReadEntries, SoundAnswer
    <3> QED BY <3>1, TtlInWindow, EnforcementAssumption DEF Fresh, Sound
  <2>2. \A e \in held'[h] : e \in LiveEntries(cache) \union Fresh(h)
    BY <1>1 DEF ReadEntries, Bounded
  <2>3. UNCHANGED cache /\ \A g \in Hooks \ {h} : held'[g] = held[g]
    BY <1>1 DEF ReadEntries
  <2> QED BY <2>1, <2>2, <2>3 DEF LiveEntries, Sound
<1>2. ASSUME NEW h \in Hooks, WriteEntries(h) PROVE SoundFiles'
  BY <1>2 DEF WriteEntries, Sound
<1>3. ASSUME NEW h \in Hooks, Reply(h) \/ Kill(h) PROVE SoundFiles'
  BY <1>3 DEF Reply, Kill, Gone, Sound
<1>4. ASSUME NEW h \in Hooks, NEW q \in Questions,
             Prompt(h, q) \/ Lookup(h) \/ CheckBreaker(h) \/ Decide(h) \/ Fail(h) \/ Receive(h)
      PROVE  SoundFiles'
  BY <1>4 DEF Prompt, Lookup, CheckBreaker, Decide, Fail, Receive, Sound
<1>5. CASE Tick
  BY <1>5, OlderSound DEF Tick, Sound
<1>6. CASE LoseCache \/ UNCHANGED vars
  BY <1>6 DEF LoseCache, vars, Sound
<1>7. \A h \in Hooks : Lookup(h) \/ CheckBreaker(h) \/ Decide(h) \/ Fail(h) \/ Receive(h) => SoundFiles'
  BY DEF Lookup, CheckBreaker, Decide, Fail, Receive, Sound
<1> QED BY <1>1, <1>2, <1>3, <1>4, <1>5, <1>6, <1>7 DEF Next, Run

(* So do the answers: the platform decides anew, and ages with its hook.   *)
LEMMA AnswersNext ==
    ASSUME FreshInv, [Next]_vars, NEW g \in Hooks
    PROVE  SoundAnswer(g)'
<1> USE DEF FreshInv, HooksOK, SoundAnswer, Goto
<1>1. ASSUME NEW h \in Hooks, NEW q \in Questions, Prompt(h, q) PROVE SoundAnswer(g)'
  BY <1>1 DEF Prompt
<1>2. ASSUME NEW h \in Hooks, Decide(h) PROVE SoundAnswer(g)'
  BY <1>2, EnforcementAssumption DEF Decide, Answer
<1>3. ASSUME NEW h \in Hooks, Lookup(h) \/ CheckBreaker(h) \/ Fail(h) PROVE SoundAnswer(g)'
  BY <1>3 DEF Lookup, CheckBreaker, Fail
<1>4. ASSUME NEW h \in Hooks, Receive(h) \/ ReadEntries(h) \/ WriteEntries(h) PROVE SoundAnswer(g)'
  BY <1>4 DEF Receive, ReadEntries, WriteEntries
<1>5. ASSUME NEW h \in Hooks, Reply(h) \/ Kill(h) PROVE SoundAnswer(g)'
  BY <1>5 DEF Reply, Kill, Gone
<1>6. CASE Tick
  BY <1>6, EnforcementAssumption DEF Tick, Least
<1>7. CASE LoseCache \/ UNCHANGED vars
  BY <1>7 DEF LoseCache, vars
<1> QED BY <1>1, <1>2, <1>3, <1>4, <1>5, <1>6, <1>7 DEF Next, Run

(* And the replies: a live entry, an answer or no decision at all.         *)
LEMMA RepliesNext ==
    ASSUME FreshInv, [Next]_vars, NEW g \in Hooks
    PROVE  SoundReply(g)'
<1> USE DEF FreshInv, HooksOK, SoundReply, Goto
<1>1. ASSUME NEW h \in Hooks, NEW q \in Questions, Prompt(h, q) PROVE SoundReply(g)'
  BY <1>1 DEF Prompt
<1>2. ASSUME NEW h \in Hooks, Lookup(h) PROVE SoundReply(g)'
  BY <1>2, EnforcementAssumption DEF Lookup, Hits, LiveEntries, SoundFiles, Sound
<1>3. ASSUME NEW h \in Hooks, CheckBreaker(h) \/ Fail(h) PROVE SoundReply(g)'
  BY <1>3 DEF CheckBreaker, Fail, Unchecked
<1>4. ASSUME NEW h \in Hooks, Decide(h) \/ Receive(h) \/ ReadEntries(h) PROVE SoundReply(g)'
  BY <1>4 DEF Decide, Receive, ReadEntries
<1>5. ASSUME NEW h \in Hooks, WriteEntries(h) PROVE SoundReply(g)'
  BY <1>5, EnforcementAssumption DEF WriteEntries, SoundAnswer
<1>6. ASSUME NEW h \in Hooks, Reply(h) \/ Kill(h) PROVE SoundReply(g)'
  BY <1>6 DEF Reply, Kill, Gone
<1>7. CASE Tick
  BY <1>7 DEF Tick
<1>8. CASE LoseCache \/ UNCHANGED vars
  BY <1>8 DEF LoseCache, vars
<1> QED BY <1>1, <1>2, <1>3, <1>4, <1>5, <1>6, <1>7, <1>8 DEF Next, Run

(* So freshness is an invariant.                                           *)
LEMMA FreshInvariance == Spec => []FreshInv
<1>1. Init => FreshInv
  BY EnforcementAssumption DEF Init, FreshInv, HooksOK, SoundFiles, SoundAnswer, SoundReply
<1>2. FreshInv /\ [Next]_vars => FreshInv'
  BY HooksNext, FilesNext, AnswersNext, RepliesNext DEF FreshInv
<1> QED BY <1>1, <1>2, PTL DEF Spec

(* No decision is served once the window and one hook's life have passed   *)
(* since the platform made it (ENFORCEMENT_WINDOW_MS, effectiveTtlMs).     *)
THEOREM ServesFresh == Spec => []ServedWhileFresh
<1>1. FreshInv => ServedWhileFresh
  BY DEF FreshInv, SoundFiles, Sound, SoundReply, ServedWhileFresh
<1> QED BY <1>1, FreshInvariance, PTL

-----------------------------------------------------------------------------
(* The names the gate asks about: a repository is never empty (gateCheckout*)
(* has none, or a whole pair), and no name holds the escape itself.        *)
CleanNames(Pieces) ==
    /\ Bar # Escape /\ Escape \notin Pieces
    /\ \A q \in Questions :
        q \in [checkout : {NoCheckout} \union [repository : Seq(Pieces) \ {<<>>}, branch : Seq(Pieces)], model : Seq(Pieces)]

Barless(s) == \A i \in 1..Len(s) : s[i] # Bar

(* Escaping goes piece by piece.                                           *)
LEMMA SeparableName ==
    ASSUME NEW P, NEW name \in Seq(P)
    PROVE  /\ Separable(name) \in Seq(P \union {Escape, Bar})
           /\ Len(Separable(name)) = Len(name)
           /\ \A i \in 1..Len(name) : Separable(name)[i] = IF name[i] = Bar THEN Escape ELSE name[i]
<1> DEFINE T == P \union {Escape, Bar}
<1>1. name \in [1..Len(name) -> P] /\ DOMAIN name = 1..Len(name) /\ Len(name) \in Nat
  BY LenProperties
<1>2. Separable(name) \in [1..Len(name) -> T]
  BY <1>1 DEF Separable
<1>3. Separable(name) \in Seq(T)
  BY <1>1, <1>2, SeqDef
<1>4. DOMAIN Separable(name) = 1..Len(Separable(name)) /\ Len(Separable(name)) \in Nat
  BY <1>3, LenProperties
<1>5. Len(Separable(name)) = Len(name)
  BY <1>1, <1>2, <1>4
<1> QED BY <1>1, <1>3, <1>5 DEF Separable

(* An escaped name has no bar.                                             *)
LEMMA SeparableBarless ==
    ASSUME NEW P, NEW name \in Seq(P), Bar # Escape
    PROVE  Barless(Separable(name))
BY SeparableName DEF Barless

(* Two names that are escaped to the same are the same.                    *)
LEMMA SeparableInjective ==
    ASSUME NEW P, NEW a \in Seq(P), NEW b \in Seq(P), Bar # Escape, Escape \notin P, Separable(a) = Separable(b)
    PROVE  a = b
<1>1. Len(a) = Len(b)
  BY SeparableName
<1>2. ASSUME NEW i \in 1..Len(a) PROVE a[i] = b[i]
  <2>1. a[i] \in P /\ b[i] \in P
    BY <1>1, ElementOfSeq
  <2>2. (IF a[i] = Bar THEN Escape ELSE a[i]) = (IF b[i] = Bar THEN Escape ELSE b[i])
    BY <1>1, SeparableName
  <2> QED BY <2>1, <2>2
<1> QED BY <1>1, <1>2, SeqEqual

(* Two parts of a key and the bar between them.                            *)
Join(x, y) == x \o (<<Bar>> \o y)

(* A bar behind x, and what it leaves of x.                                *)
LEMMA BarBehind ==
    ASSUME NEW T, Bar \in T, NEW x \in Seq(T), NEW y \in Seq(T), NEW w, w = x \o (<<Bar>> \o y)
    PROVE  /\ Len(x) \in Nat /\ Len(y) \in Nat
           /\ w \in Seq(T) /\ Len(w) = Len(x) + 1 + Len(y)
           /\ w[Len(x) + 1] = Bar
           /\ \A i \in 1..Len(x) : w[i] = x[i]
<1>1. PICK b \in Seq(T) : b = <<Bar>> /\ Len(b) = 1 /\ b[1] = Bar
  <2>1. <<Bar>> \in Seq(T) /\ Len(<<Bar>>) = 1 /\ <<Bar>>[1] = Bar
    OBVIOUS
  <2> QED BY <2>1
<1>2. PICK t \in Seq(T) : t = b \o y
  BY ConcatProperties
<1>3. Len(x) \in Nat /\ Len(y) \in Nat /\ Len(t) \in Nat
  BY LenProperties
<1>4. Len(t) = 1 + Len(y)
  BY <1>1, <1>2, ConcatProperties
<1>5. \A i \in 1..(Len(b) + Len(y)) : (b \o y)[i] = IF i <= Len(b) THEN b[i] ELSE y[i - Len(b)]
  BY ConcatProperties
<1>6. t[1] = Bar
  <2>1. 1 \in 1..(Len(b) + Len(y)) /\ 1 <= Len(b)
    BY <1>1, <1>3
  <2> QED BY <2>1, <1>1, <1>2, <1>5
<1>7. w = x \o t
  BY <1>1, <1>2
<1>8. w \in Seq(T) /\ Len(w) = Len(x) + Len(t)
  BY <1>7, ConcatProperties
<1>9. \A i \in 1..(Len(x) + Len(t)) : w[i] = IF i <= Len(x) THEN x[i] ELSE t[i - Len(x)]
  BY <1>7, ConcatProperties
<1>10. w[Len(x) + 1] = Bar
  <2>1. Len(x) + 1 \in 1..(Len(x) + Len(t)) /\ ~(Len(x) + 1 <= Len(x)) /\ Len(x) + 1 - Len(x) = 1
    BY <1>3, <1>4
  <2> QED BY <2>1, <1>6, <1>9
<1>11. \A i \in 1..Len(x) : w[i] = x[i]
  <2> TAKE i \in 1..Len(x)
  <2>1. i \in 1..(Len(x) + Len(t)) /\ i <= Len(x)
    BY <1>3
  <2> QED BY <2>1, <1>9
<1> QED BY <1>3, <1>4, <1>8, <1>10, <1>11

(* What stands before the first bar, and behind it.                        *)
LEMMA SplitAtBar ==
    ASSUME NEW T, Bar \in T, NEW x1 \in Seq(T), NEW x2 \in Seq(T), NEW y1 \in Seq(T), NEW y2 \in Seq(T),
           Barless(x1), Barless(x2), Join(x1, y1) = Join(x2, y2)
    PROVE  x1 = x2 /\ y1 = y2
<1> DEFINE w1 == x1 \o (<<Bar>> \o y1)
           w2 == x2 \o (<<Bar>> \o y2)
<1>1. w1 = w2
  BY DEF Join
<1>2. Len(x1) \in Nat /\ w1[Len(x1) + 1] = Bar /\ \A i \in 1..Len(x1) : w1[i] = x1[i]
  <2> HIDE DEF w2
  <2> QED BY BarBehind
<1>3. Len(x2) \in Nat /\ w2[Len(x2) + 1] = Bar /\ \A i \in 1..Len(x2) : w2[i] = x2[i]
  <2> HIDE DEF w1
  <2> QED BY BarBehind
<1> HIDE DEF w1, w2
<1>4. ~(Len(x1) < Len(x2))
  <2> SUFFICES ASSUME Len(x1) < Len(x2) PROVE FALSE
    OBVIOUS
  <2>1. Len(x1) + 1 \in 1..Len(x2)
    BY <1>2, <1>3
  <2> QED BY <1>1, <1>2, <1>3, <2>1 DEF Barless
<1>5. ~(Len(x2) < Len(x1))
  <2> SUFFICES ASSUME Len(x2) < Len(x1) PROVE FALSE
    OBVIOUS
  <2>1. Len(x2) + 1 \in 1..Len(x1)
    BY <1>2, <1>3
  <2> QED BY <1>1, <1>2, <1>3, <2>1 DEF Barless
<1>6. Len(x1) = Len(x2)
  BY <1>2, <1>3, <1>4, <1>5
<1>7. x1 = x2
  <2>1. \A i \in 1..Len(x1) : x1[i] = x2[i]
    BY <1>1, <1>2, <1>3, <1>6
  <2> QED BY <1>6, <2>1, SeqEqual
<1>8. y1 = y2
  <2>1. PICK b \in Seq(T) : b = <<Bar>>
    <3>1. <<Bar>> \in Seq(T)
      OBVIOUS
    <3> QED BY <3>1
  <2>2. b \o y1 \in Seq(T) /\ b \o y2 \in Seq(T) /\ x1 \o (b \o y1) = x1 \o (b \o y2)
    BY <1>7, <2>1, ConcatProperties DEF Join
  <2>3. b \o y1 = b \o y2
    BY <2>2, ConcatSimplifications
  <2> QED BY <2>3, ConcatSimplifications
<1> QED BY <1>7, <1>8

(* What has no bar differs from what has one.                              *)
LEMMA HasBar ==
    ASSUME NEW T, Bar \in T, NEW x \in Seq(T), NEW y \in Seq(T), NEW z \in Seq(T), Barless(x)
    PROVE  x # Join(y, z)
<1> SUFFICES ASSUME x = y \o (<<Bar>> \o z) PROVE FALSE
  BY DEF Join
<1>1. Len(y) \in Nat /\ Len(z) \in Nat /\ Len(x) = Len(y) + 1 + Len(z) /\ x[Len(y) + 1] = Bar
  BY BarBehind
<1>2. Len(y) + 1 \in 1..Len(x)
  BY <1>1
<1> QED BY <1>1, <1>2 DEF Barless

(* The model behind the rest of a key, if one is stated.                   *)
Stated(model) == IF model = <<>> THEN <<>> ELSE <<Bar>> \o Separable(model)
Modelled(x, model) == x \o Stated(model)
Joined(P) == P \union {Escape, Bar}

(* The types of the parts of a key.                                        *)
LEMMA Parts ==
    ASSUME NEW P, NEW name \in Seq(P)
    PROVE  /\ Separable(name) \in Seq(Joined(P)) /\ Stated(name) \in Seq(Joined(P))
           /\ Bar \in Joined(P) /\ <<>> \in Seq(Joined(P)) /\ <<Bar>> \in Seq(Joined(P))
<1>1. Separable(name) \in Seq(Joined(P))
  BY SeparableName DEF Joined
<1>2. Bar \in Joined(P) /\ <<>> \in Seq(Joined(P))
  BY EmptySeq DEF Joined
<1>3. <<Bar>> \in Seq(Joined(P))
  BY <1>2
<1>4. <<Bar>> \o Separable(name) \in Seq(Joined(P))
  BY <1>1, <1>3, ConcatProperties
<1> QED BY <1>1, <1>2, <1>3, <1>4 DEF Stated

(* A model is told from what comes before it, also when none is stated.    *)
LEMMA ModelTells ==
    ASSUME NEW P, Bar # Escape, Escape \notin P, NEW x1 \in Seq(Joined(P)), NEW x2 \in Seq(Joined(P)),
           Barless(x1), Barless(x2), NEW m1 \in Seq(P), NEW m2 \in Seq(P), Modelled(x1, m1) = Modelled(x2, m2)
    PROVE  x1 = x2 /\ m1 = m2
<1>1. /\ Separable(m1) \in Seq(Joined(P)) /\ Separable(m2) \in Seq(Joined(P)) /\ Bar \in Joined(P)
  BY Parts
<1>2. x1 \o <<>> = x1 /\ x2 \o <<>> = x2
  BY ConcatEmptySeq
<1>3. CASE m1 = <<>> /\ m2 = <<>>
  BY <1>2, <1>3 DEF Stated, Modelled
<1>4. CASE m1 = <<>> /\ m2 # <<>>
  <2>1. x1 = Join(x2, Separable(m2))
    BY <1>2, <1>4 DEF Stated, Join, Modelled
  <2> QED BY <1>1, <2>1, HasBar
<1>5. CASE m1 # <<>> /\ m2 = <<>>
  <2>1. x2 = Join(x1, Separable(m1))
    BY <1>2, <1>5 DEF Stated, Join, Modelled
  <2> QED BY <1>1, <2>1, HasBar
<1>6. CASE m1 # <<>> /\ m2 # <<>>
  <2>1. Join(x1, Separable(m1)) = Join(x2, Separable(m2))
    BY <1>6 DEF Stated, Join, Modelled
  <2>2. x1 = x2 /\ Separable(m1) = Separable(m2)
    BY <1>1, <2>1, SplitAtBar
  <2> QED BY <2>2, SeparableInjective
<1> QED BY <1>3, <1>4, <1>5, <1>6

Cat(s, t) == s \o t

(* Concatenation as an operator of its own, for the provers.               *)
LEMMA CatType ==
    ASSUME NEW S, NEW s \in Seq(S), NEW t \in Seq(S)
    PROVE  Cat(s, t) \in Seq(S)
BY ConcatProperties DEF Cat

(* It is associative.                                                      *)
LEMMA CatAssociative ==
    ASSUME NEW S, NEW s \in Seq(S), NEW t \in Seq(S), NEW u \in Seq(S)
    PROVE  Cat(Cat(s, t), u) = Cat(s, Cat(t, u))
BY ConcatAssociative DEF Cat

(* How the parts of a key are joined does not matter.                      *)
LEMMA Regroup ==
    ASSUME NEW S, NEW r \in Seq(S), NEW b \in Seq(S), NEW c \in Seq(S), NEW m \in Seq(S)
    PROVE  Cat(Cat(Cat(r, b), c), m) = Cat(r, Cat(b, Cat(c, m)))
<1>1. PICK rb \in Seq(S) : rb = Cat(r, b)
  BY CatType
<1>2. PICK cm \in Seq(S) : cm = Cat(c, m)
  BY CatType
<1>3. Cat(Cat(rb, c), m) = Cat(rb, Cat(c, m))
  BY CatAssociative
<1>4. Cat(Cat(r, b), cm) = Cat(r, Cat(b, cm))
  BY CatAssociative
<1> QED BY <1>1, <1>2, <1>3, <1>4

(* The key of a question with a checkout begins with its repository, a bar.*)
LEMMA KeyOfCheckout ==
    ASSUME NEW P, NEW q \in Questions, q.checkout # NoCheckout, q.checkout.repository \in Seq(P),
           q.checkout.branch \in Seq(P), q.model \in Seq(P)
    PROVE  /\ Modelled(Separable(q.checkout.branch), q.model) \in Seq(Joined(P))
           /\ DecisionKey(q) =
                Join(Separable(q.checkout.repository), Modelled(Separable(q.checkout.branch), q.model))
<1> DEFINE R == Separable(q.checkout.repository)
           B == Separable(q.checkout.branch)
           M == Stated(q.model)
<1>1. DecisionKey(q) = ((R \o <<Bar>>) \o B) \o M
  BY DEF DecisionKey, Stated
<1>2. R \in Seq(Joined(P)) /\ B \in Seq(Joined(P)) /\ M \in Seq(Joined(P)) /\ <<Bar>> \in Seq(Joined(P))
  BY Parts
<1> HIDE DEF R, B, M
<1>3. PICK bar \in Seq(Joined(P)) : bar = <<Bar>>
  BY <1>2
<1>4. Cat(B, M) \in Seq(Joined(P))
  BY <1>2, CatType
<1>5. Cat(Cat(Cat(R, bar), B), M) = Cat(R, Cat(bar, Cat(B, M)))
  BY <1>2, Regroup
<1> QED BY <1>1, <1>3, <1>4, <1>5 DEF R, B, M, Join, Modelled, Cat

(* And without one with nothing but the model.                             *)
LEMMA KeyOfNoCheckout ==
    ASSUME NEW P, NEW q \in Questions, q.checkout = NoCheckout
    PROVE  DecisionKey(q) = Modelled(<<>>, q.model)
BY DEF DecisionKey, Stated, Modelled

(* A question with a checkout has another key than one without.            *)
LEMMA CheckoutTells ==
    ASSUME NEW P, CleanNames(P), NEW p \in Questions, NEW q \in Questions,
           p.checkout = NoCheckout, q.checkout # NoCheckout
    PROVE  DecisionKey(p) # DecisionKey(q)
<1> SUFFICES ASSUME DecisionKey(p) = DecisionKey(q) PROVE FALSE
  OBVIOUS
<1> DEFINE R == Separable(q.checkout.repository)
           X == Modelled(Separable(q.checkout.branch), q.model)
<1>1. /\ p.model \in Seq(P) /\ q.model \in Seq(P) /\ Bar # Escape
      /\ q.checkout.repository \in Seq(P) /\ q.checkout.repository # <<>> /\ q.checkout.branch \in Seq(P)
  BY DEF CleanNames
<1>2. DecisionKey(q) = Join(R, X) /\ X \in Seq(Joined(P))
  BY <1>1, KeyOfCheckout
<1>3. R \in Seq(Joined(P)) /\ Barless(R) /\ Bar \in Joined(P) /\ <<>> \in Seq(Joined(P))
  BY <1>1, Parts, SeparableBarless
<1>4. Len(R) # 0
  BY <1>1, SeparableName, EmptySeq
<1>5. DecisionKey(p) = Modelled(<<>>, p.model)
  BY KeyOfNoCheckout
<1>6. Barless(<<>>)
  BY EmptySeq DEF Barless
<1> HIDE DEF R, X
<1>7. CASE p.model = <<>>
  <2>1. <<>> = Join(R, X)
    BY <1>2, <1>3, <1>5, <1>7, ConcatEmptySeq DEF Stated, Modelled
  <2> QED BY <1>2, <1>3, <1>6, <2>1, HasBar
<1>8. CASE p.model # <<>>
  <2>1. Join(<<>>, Separable(p.model)) = Join(R, X)
    BY <1>2, <1>5, <1>8 DEF Stated, Join, Modelled
  <2>2. Separable(p.model) \in Seq(Joined(P))
    BY <1>1, Parts
  <2>3. <<>> = R
    BY <1>2, <1>3, <1>6, <2>1, <2>2, SplitAtBar
  <2> QED BY <1>4, <2>3, EmptySeq
<1> QED BY <1>7, <1>8

(* decisionKey tells the questions apart.                                  *)
THEOREM KeyTells ==
    ASSUME NEW P, CleanNames(P), NEW p \in Questions, NEW q \in Questions, DecisionKey(p) = DecisionKey(q)
    PROVE  p = q
<1>1. /\ Bar # Escape /\ Escape \notin P
      /\ \A x \in {p, q} :
            /\ x \in [checkout : {NoCheckout} \union [repository : Seq(P) \ {<<>>}, branch : Seq(P)], model : Seq(P)]
            /\ x.model \in Seq(P)
            /\ x.checkout # NoCheckout => x.checkout \in [repository : Seq(P) \ {<<>>}, branch : Seq(P)]
  BY DEF CleanNames
<1>2. p.checkout = NoCheckout <=> q.checkout = NoCheckout
  BY CheckoutTells
<1>3. p.checkout = q.checkout /\ p.model = q.model
  <2>1. CASE p.checkout = NoCheckout
    <3> DEFINE none == <<>>
    <3>1. Modelled(none, p.model) = Modelled(none, q.model)
      BY <1>2, <2>1, KeyOfNoCheckout
    <3>2. none \in Seq(Joined(P)) /\ Barless(none)
      BY EmptySeq DEF Barless
    <3> HIDE DEF none
    <3>3. p.model \in Seq(P) /\ q.model \in Seq(P) /\ Bar # Escape /\ Escape \notin P
      BY <1>1
    <3>4. p.model = q.model
      BY <3>1, <3>2, <3>3, ModelTells
    <3> QED BY <1>2, <2>1, <3>4
  <2>2. CASE p.checkout # NoCheckout
    <3> DEFINE R(x) == Separable(x.checkout.repository)
               B(x) == Separable(x.checkout.branch)
    <3>1. ASSUME NEW x \in {p, q}
          PROVE  /\ x.checkout.repository \in Seq(P) /\ x.checkout.branch \in Seq(P) /\ x.model \in Seq(P)
                 /\ Modelled(B(x), x.model) \in Seq(Joined(P))
                 /\ DecisionKey(x) = Join(R(x), Modelled(B(x), x.model))
                 /\ R(x) \in Seq(Joined(P)) /\ B(x) \in Seq(Joined(P)) /\ Barless(R(x)) /\ Barless(B(x))
      <4>1. x.checkout.repository \in Seq(P) /\ x.checkout.branch \in Seq(P) /\ x.model \in Seq(P) /\ x.checkout # NoCheckout
        BY <1>1, <1>2, <2>2
      <4>2. R(x) \in Seq(Joined(P)) /\ B(x) \in Seq(Joined(P))
        BY <4>1, Parts
      <4>3. Barless(R(x)) /\ Barless(B(x))
        BY <1>1, <4>1, SeparableBarless
      <4> QED BY <4>1, <4>2, <4>3, KeyOfCheckout
    <3> DEFINE X(x) == Modelled(B(x), x.model)
    <3> HIDE DEF R, B
    <3>2. /\ Bar \in Joined(P) /\ Bar # Escape /\ Escape \notin P /\ p.model \in Seq(P) /\ q.model \in Seq(P)
          /\ R(p) \in Seq(Joined(P)) /\ Barless(R(p)) /\ R(q) \in Seq(Joined(P)) /\ Barless(R(q))
          /\ B(p) \in Seq(Joined(P)) /\ Barless(B(p)) /\ B(q) \in Seq(Joined(P)) /\ Barless(B(q))
          /\ X(p) \in Seq(Joined(P)) /\ X(q) \in Seq(Joined(P))
          /\ Join(R(p), X(p)) = Join(R(q), X(q))
      BY <1>1, <3>1 DEF Joined
    <3>3. R(p) = R(q) /\ X(p) = X(q)
      <4> HIDE DEF X
      <4> QED BY <3>2, SplitAtBar
    <3>4. B(p) = B(q) /\ p.model = q.model
      BY <3>2, <3>3, ModelTells
    <3>5. p.checkout.repository = q.checkout.repository /\ p.checkout.branch = q.checkout.branch
      BY <1>1, <3>1, <3>3, <3>4, SeparableInjective DEF R, B
    <3>6. p.checkout = q.checkout
      BY <1>1, <1>2, <2>2, <3>5
    <3> QED BY <3>4, <3>6
  <2> QED BY <2>1, <2>2
<1> QED BY <1>1, <1>3

Asked(h) == pc[h] = "reply" /\ "about" \in DOMAIN answer[h] => answer[h].about = question[h]

(* A reply is about the question: a hit has its key, an answer was its own.*)
LEMMA AskedNext ==
    ASSUME NEW P, CleanNames(P), FreshInv, [Next]_vars, NEW g \in Hooks, Asked(g)
    PROVE  Asked(g)'
<1> USE DEF FreshInv, HooksOK, Asked, Goto
<1>1. ASSUME NEW h \in Hooks, NEW q \in Questions, Prompt(h, q) PROVE Asked(g)'
  BY <1>1 DEF Prompt
<1>2. ASSUME NEW h \in Hooks, Lookup(h) PROVE Asked(g)'
  <2>1. ASSUME NEW e \in Hits(h) PROVE e.about = question[h]
    <3>1. e \in cache /\ e.key = DecisionKey(question[h])
      BY DEF Hits, LiveEntries
    <3>2. e.about \in Questions /\ e.key = DecisionKey(e.about)
      BY <3>1 DEF SoundFiles, Sound
    <3>3. question[h] \in Questions
      BY <1>2 DEF Lookup
    <3> QED BY <3>1, <3>2, <3>3, KeyTells
  <2> QED BY <1>2, <2>1 DEF Lookup
<1>3. ASSUME NEW h \in Hooks, CheckBreaker(h) \/ Fail(h) PROVE Asked(g)'
  BY <1>3 DEF CheckBreaker, Fail, Unchecked
<1>4. ASSUME NEW h \in Hooks, Decide(h) \/ Receive(h) \/ ReadEntries(h) PROVE Asked(g)'
  BY <1>4 DEF Decide, Receive, ReadEntries
<1>5. ASSUME NEW h \in Hooks, WriteEntries(h) PROVE Asked(g)'
  BY <1>5 DEF WriteEntries, SoundAnswer
<1>6. ASSUME NEW h \in Hooks, Reply(h) \/ Kill(h) PROVE Asked(g)'
  BY <1>6 DEF Reply, Kill, Gone
<1>7. CASE Tick
  BY <1>7 DEF Tick
<1>8. CASE LoseCache \/ UNCHANGED vars
  BY <1>8 DEF LoseCache, vars
<1> QED BY <1>1, <1>2, <1>3, <1>4, <1>5, <1>6, <1>7, <1>8 DEF Next, Run

(* A turn is allowed or refused by a decision on its own repository,       *)
(* branch and model, whoever put it in the cache (decisionKey, separable). *)
THEOREM AnswersItsQuestion ==
    ASSUME NEW P, CleanNames(P)
    PROVE  Spec => []AnswersTheQuestion
<1> DEFINE Inv == \A h \in Hooks : Asked(h)
<1>1. Init => Inv
  BY DEF Init, Asked
<1>2. FreshInv /\ Inv /\ [Next]_vars => Inv'
  BY AskedNext
<1>3. Inv => AnswersTheQuestion
  BY DEF Asked, AnswersTheQuestion
<1> QED BY <1>1, <1>2, <1>3, FreshInvariance, PTL DEF Spec

-----------------------------------------------------------------------------
(* A file of the cache has one entry a key and no more than it may hold.   *)
FileOK(f) ==
    /\ f \subseteq Entries
    /\ IsFiniteSet(f) /\ Cardinality(f) <= MaxEntries
    /\ \A d, e \in f : d.key = e.key => d = e

FilesOK == FileOK(cache) /\ \A h \in Hooks : FileOK(held[h])
ValuesOK ==
    /\ breaker \in 0..Cooldown /\ faults \in 0..MaxFaults
    /\ \A h \in Hooks : answer[h].decision \in Decisions \union {"allow", "none"}

LEMMA NothingOK == FileOK({})
BY FS_EmptySet, EnforcementAssumption DEF FileOK

(* What bounded keeps of a file with one entry more.                       *)
LEMMA BoundedOK ==
    ASSUME NEW others, FileOK(others), NEW fresh \in SUBSET Entries,
           \A d, e \in fresh : d = e,
           \A d \in others, e \in fresh : d.key # e.key,
           NEW kept \in Bounded(others \union fresh)
    PROVE  FileOK(kept)
<1> DEFINE both == others \union fresh
<1>1. kept \subseteq both /\ Cardinality(kept) = Least(MaxEntries, Cardinality(both))
  BY DEF Bounded
<1>2. IsFiniteSet(fresh)
  <2>1. CASE fresh = {}
    BY <2>1, FS_EmptySet
  <2>2. ASSUME NEW e \in fresh
        PROVE  IsFiniteSet(fresh)
    <3>1. fresh = {e}
      OBVIOUS
    <3>q. QED BY <3>1, FS_Singleton
  <2>q. QED BY <2>1, <2>2
<1>3. IsFiniteSet(both)
  BY <1>2, FS_Union DEF FileOK
<1>4. \A d, e \in both : d.key = e.key => d = e
  BY DEF FileOK
<1>5. both \subseteq Entries
  BY DEF FileOK
<1> HIDE DEF both
<1>6. IsFiniteSet(kept) /\ Cardinality(both) \in Nat
  BY <1>1, <1>3, FS_Subset, FS_CardinalityType
<1>7. Cardinality(kept) <= MaxEntries
  BY <1>1, <1>6, EnforcementAssumption DEF Least
<1>q. QED BY <1>1, <1>4, <1>5, <1>6, <1>7 DEF FileOK

LEMMA SubsetOK ==
    ASSUME NEW f, FileOK(f), NEW g \in SUBSET f
    PROVE  FileOK(g)
<1>1. IsFiniteSet(g) /\ Cardinality(g) <= Cardinality(f) /\ Cardinality(g) \in Nat /\ Cardinality(f) \in Nat
  BY FS_Subset, FS_CardinalityType DEF FileOK
<1>2. Cardinality(g) <= MaxEntries
  BY <1>1, EnforcementAssumption DEF FileOK
<1>q. QED BY <1>1, <1>2 DEF FileOK

(* Time leaves an entry its key.                                           *)
LEMMA OlderTyped ==
    ASSUME NEW e \in Entries
    PROVE  Older(e) \in Entries /\ Older(e).key = e.key
<1> DEFINE left == IF e.left = 0 THEN 0 ELSE e.left - 1
           age == Least(e.age + 1, Window + HookLife)
           Keys == {DecisionKey(q) : q \in Questions}
<1>1. left \in 0..Window /\ age \in 0..(Window + HookLife)
  BY EnforcementAssumption DEF Entries, Least
<1>2. Older(e) = [e EXCEPT !.left = left, !.age = age]
  BY DEF Older
<1>3. e \in [key : Keys, left : 0..Window, decision : Decisions, about : Questions, age : 0..(Window + HookLife)]
  BY DEF Entries
<1> HIDE DEF left, age, Keys
<1>4. /\ Older(e) \in [key : Keys, left : 0..Window, decision : Decisions, about : Questions, age : 0..(Window + HookLife)]
      /\ Older(e).key = e.key
  BY <1>1, <1>2, <1>3
<1>q. QED BY <1>4 DEF Entries, Keys

LEMMA OlderOK ==
    ASSUME NEW f, FileOK(f)
    PROVE  FileOK({Older(e) : e \in f})
<1> DEFINE g == {Older(e) : e \in f}
           older == [e \in f |-> Older(e)]
<1>1. g \subseteq Entries
  BY OlderTyped DEF FileOK
<1>2. \A d, e \in g : d.key = e.key => d = e
  BY OlderTyped DEF FileOK
<1>3. older \in Surjection(f, g)
  BY DEF Surjection
<1> HIDE DEF g, older
<1>4. IsFiniteSet(g) /\ Cardinality(g) <= Cardinality(f) /\ Cardinality(g) \in Nat /\ Cardinality(f) \in Nat
  BY <1>3, FS_Surjection, FS_CardinalityType DEF FileOK
<1>5. Cardinality(g) <= MaxEntries
  BY <1>4, EnforcementAssumption DEF FileOK
<1>q. QED BY <1>1, <1>2, <1>4, <1>5 DEF FileOK, g

(* The files keep to that: what a hook writes came from the file, but for  *)
(* one entry in place of what was kept under its key.                      *)
LEMMA FilesStay ==
    ASSUME FreshInv, FilesOK, [Next]_vars
    PROVE  FilesOK'
<1> USE DEF FreshInv, HooksOK, FilesOK
<1>1. ASSUME NEW h \in Hooks, ReadEntries(h) PROVE FilesOK'
  <2> DEFINE others == {e \in LiveEntries(cache) : Fresh(h) = {} \/ e.key # DecisionKey(question[h])}
  <2>1. FileOK(others)
    <3>1. others \in SUBSET cache
      BY DEF LiveEntries
    <3> HIDE DEF others
    <3>q. QED BY <3>1, SubsetOK
  <2>2. Fresh(h) \subseteq Entries
    <3>1. /\ answer[h] \in [decision : Decisions, about : Questions, age : Nat, advice : Advice]
          /\ answer[h].age \in 0..(Window + HookLife)
          /\ question[h] \in Questions
      BY <1>1, EnforcementAssumption DEF ReadEntries, SoundAnswer, Asking
    <3>2. EffectiveTtl(answer[h].advice) \in 0..Window
      BY <3>1, TtlInWindow
    <3>q. QED BY <3>1, <3>2 DEF Fresh, Entries
  <2>3. /\ \A d, e \in Fresh(h) : d = e
        /\ \A d \in others, e \in Fresh(h) : d.key # e.key
    BY DEF Fresh
  <2>4. PICK kept \in Bounded(others \union Fresh(h)) : held' = [held EXCEPT ![h] = kept]
    BY <1>1 DEF ReadEntries
  <2> HIDE DEF others
  <2>5. FileOK(kept)
    BY <2>1, <2>2, <2>3, <2>4, BoundedOK
  <2>6. cache' = cache
    BY <1>1 DEF ReadEntries
  <2>q. QED BY <2>4, <2>5, <2>6
<1>2. ASSUME NEW h \in Hooks, WriteEntries(h) PROVE FilesOK'
  BY <1>2, NothingOK DEF WriteEntries
<1>3. ASSUME NEW h \in Hooks, Reply(h) \/ Kill(h) PROVE FilesOK'
  BY <1>3, NothingOK DEF Reply, Kill, Gone
<1>4. ASSUME NEW h \in Hooks, NEW q \in Questions, Prompt(h, q) PROVE FilesOK'
  BY <1>4 DEF Prompt
<1>5. ASSUME NEW h \in Hooks, Lookup(h) \/ CheckBreaker(h) \/ Decide(h) \/ Fail(h) \/ Receive(h) PROVE FilesOK'
  BY <1>5 DEF Lookup, CheckBreaker, Decide, Fail, Receive
<1>6. CASE Tick
  BY <1>6, OlderOK DEF Tick
<1>7. CASE LoseCache \/ UNCHANGED vars
  BY <1>7, NothingOK DEF LoseCache, vars
<1>q. QED BY <1>1, <1>2, <1>3, <1>4, <1>5, <1>6, <1>7 DEF Next, Run

LEMMA ValuesStay ==
    ASSUME FreshInv, FilesOK, ValuesOK, [Next]_vars
    PROVE  ValuesOK'
<1> USE EnforcementAssumption DEF FreshInv, HooksOK, ValuesOK, SetBreaker
<1>1. ASSUME NEW h \in Hooks, Lookup(h) PROVE ValuesOK'
  BY <1>1 DEF Lookup, Hits, LiveEntries, FilesOK, FileOK, Entries
<1>2. ASSUME NEW h \in Hooks, CheckBreaker(h) \/ Fail(h) PROVE ValuesOK'
  BY <1>2 DEF CheckBreaker, Fail, Unchecked
<1>3. ASSUME NEW h \in Hooks, Decide(h) PROVE ValuesOK'
  BY <1>3 DEF Decide, Answer
<1>4. ASSUME NEW h \in Hooks, Receive(h) \/ ReadEntries(h) \/ WriteEntries(h) PROVE ValuesOK'
  BY <1>4 DEF Receive, ReadEntries, WriteEntries
<1>5. ASSUME NEW h \in Hooks, Reply(h) \/ Kill(h) PROVE ValuesOK'
  BY <1>5 DEF Reply, Kill, Gone, None
<1>6. ASSUME NEW h \in Hooks, NEW q \in Questions, Prompt(h, q) PROVE ValuesOK'
  BY <1>6 DEF Prompt
<1>7. CASE Tick
  BY <1>7 DEF Tick, SoundAnswer
<1>8. CASE LoseCache \/ UNCHANGED vars
  BY <1>8 DEF LoseCache, vars
<1>q. QED BY <1>1, <1>2, <1>3, <1>4, <1>5, <1>6, <1>7, <1>8 DEF Next, Run

(* The cache never holds more than MAX_CACHE_ENTRIES, nor two entries for  *)
(* one question, whatever hooks write over each other (decision-cache.ts). *)
THEOREM TypeCorrect == Spec => []TypeOK
<1>1. Init => FilesOK /\ ValuesOK
  BY NothingOK, EnforcementAssumption DEF Init, FilesOK, ValuesOK, None
<1>2. FreshInv /\ FilesOK /\ ValuesOK => TypeOK
  BY DEF FreshInv, HooksOK, Asking, FilesOK, FileOK, ValuesOK, TypeOK
<1>q. QED BY <1>1, <1>2, FreshInvariance, FilesStay, ValuesStay, PTL DEF Spec
=============================================================================
