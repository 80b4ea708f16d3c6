--------------------------- MODULE Setup_proofs ---------------------------
(***************************************************************************)
(* Proofs about setup, off, on and uninstall, for any words that URLs and  *)
(* tokens are made of, any roots and folders, machines, options and        *)
(* bounds.  The inductive invariant Inv is TypeOK and, about the record of *)
(* what AgentWatch set:                                                    *)
(*   OnRecord      what it set in a file is on the record that counts,     *)
(*   Untaken       which uninstall has not touched for agents to come,     *)
(*   Saved         and which on has on disk before its next agent;         *)
(*   Legacy        of Gemini's keys it sets only those assumed its own     *)
(*                 when there is no record,                                *)
(*   ModeOnRecord  a private config.toml has its mode to restore there;    *)
(* and about what a command that is half done has done so far:             *)
(*   Silent        off has silenced each exporter it has passed, and on    *)
(*                 lets speak only what it can still take back,            *)
(*   Following     setup and on have left each as it is to be.             *)
(***************************************************************************)
EXTENDS Setup, FiniteSetTheorems, SequenceTheorems, WellFoundedInduction, TLAPS

(* The record that counts: on disk, or carried along by a command.         *)
Record == IF cmd.name = "idle" THEN state ELSE cmd.held
Toml == settings["codex.toml"]

(* uninstall has forgotten Gemini with its hooks, its exporter is next.    *)
Forgotten == cmd.name = "uninstall" /\ cmd.pc = "otel" /\ Now = "gemini" /\ ~cmd.held["gemini"].there

(* uninstall has not touched the record of an agent it has still to do.    *)
Untaken ==
    cmd.name = "uninstall" /\ ~lost =>
        \A a \in cmd.todo : cmd.held[a] = state[a] \/ (cmd.pc = "otel" /\ a = Now)

(* What AgentWatch set in the files of Claude and Gemini is on record.     *)
OnRecord ==
    ~lost =>
        /\ OursIn(settings["claude"]) \subseteq Record["claude"].owned
        /\ OursIn(settings["gemini"]) \subseteq (IF Forgotten THEN state ELSE Record)["gemini"].owned

(* Of Gemini's keys AgentWatch sets only those that a lost record is       *)
(* assumed to own.                                                         *)
Legacy == OursIn(settings["gemini"]) \subseteq LegacyOwnedKeys

(* on keeps what it did as it goes, unless a save fails.                   *)
Saved == cmd.name = "on" /\ ~cmd.failed /\ cmd.pc # "save" /\ ~lost => cmd.held = state

(* An exporter is off, or nobody knows any more that it is on.             *)
Quiet(a) == Sends(a) => a # "codex" /\ lost
Visited(a) == a \notin cmd.todo \/ (cmd.pc = "save" /\ a = Now)

(* While the machine is off, or on its way there, what was passed is off;  *)
(* what on has switched on so far it can still take back.                  *)
Silent ==
    /\ cmd.name = "setup" => ~marker
    /\ cmd.name \in {"idle", "uninstall"} /\ marker /\ clean => \A a \in Native : Quiet(a)
    /\ cmd.name = "off" /\ ~cmd.failed => \A a \in Native : Visited(a) => Quiet(a)
    /\ cmd.name = "on" /\ clean =>
        \A a \in Native : Quiet(a) \/ a \in cmd.restored \/ (cmd.pc = "save" /\ a = Now /\ cmd.ok)

(* What setup or on has passed without a failure says what it should.      *)
Following ==
    cmd.name \in {"setup", "on"} /\ ~cmd.failed /\ touched = {} /\ ~lost =>
        \A a \in Native :
            /\ Visited(a)
            /\ IF cmd.name = "setup" THEN a \in detected ELSE HooksInstalled(settings[a])
            => Follows(a, cmd.config)

-----------------------------------------------------------------------------
(* Values and configurations.                                              *)

(* What the operators on URLs and settings yield is a value, and no value  *)
(* has the mark of what a user set.                                        *)
LEMMA Values ==
    /\ None \in Value /\ Bad \in Value /\ Refused \in Value
    /\ \A v \in Value : ~ByUser(v) /\ Text(v) = v
    /\ Value \subseteq Marked
    /\ \A v \in Value : UserSet(v) \in Marked /\ ByUser(UserSet(v))
    /\ \A u, v \in Value : u \o v \in Value
    /\ \A p \in {"events", "otlp", "decision"} : \A u \in Value : Derived(u, p) \in Value
    /\ \A k \in {"switch", "content", "beta"} : <<k>> \in Value
    /\ \A signals : Exporters(signals) \in Value
<1>1. "bad" \in Words /\ "null" \in Words /\ "events" \in Words /\ "otlp" \in Words /\ "decision" \in Words
      /\ "none" \in Words /\ "switch" \in Words /\ "content" \in Words /\ "beta" \in Words
  BY SetupAssumption
<1>2. \A w \in Words : <<w>> \in Seq(Words)
  OBVIOUS
<1>3. None \in Value /\ Bad \in Value /\ Refused \in Value
  BY <1>1, <1>2 DEF None, Bad, Refused, Value
<1>4. \A v \in Value : ~ByUser(v) /\ Text(v) = v
  <2>1. SUFFICES ASSUME NEW v \in Seq(Words)
                 PROVE  ~ByUser(v)
    BY DEF Text, Value
  <2>2. ASSUME v # <<>>
        PROVE  v[1] \in Words
    <3>1. Len(v) >= 1
      BY <2>2, EmptySeq, LenProperties
    <3>q. QED BY <3>1, ElementOfSeq
  <2>q. QED BY <2>2, SetupAssumption DEF ByUser
<1>9. Value \subseteq Marked
  <2>1. Words \subseteq Words \union {"user"}
    OBVIOUS
  <2>q. QED BY <2>1 DEF Value, Marked
<1>10. ASSUME NEW v \in Value
       PROVE  UserSet(v) \in Marked /\ ByUser(UserSet(v))
  <2>1. Users \in Marked /\ Len(Users) = 1 /\ Users[1] = "user"
    BY DEF Users, Marked
  <2>2. v \in Marked
    BY <1>9
  <2>3. UserSet(v) \in Marked /\ Len(UserSet(v)) = 1 + Len(v) /\ UserSet(v)[1] = "user"
    <3> DEFINE S == Words \union {"user"}
    <3> HIDE DEF Users, S
    <3>1. Users \in Seq(S) /\ v \in Seq(S)
      BY <2>1, <2>2 DEF Marked, S
    <3>2. /\ Users \o v \in Seq(S) /\ Len(Users \o v) = Len(Users) + Len(v)
          /\ \A i \in 1..Len(Users) + Len(v) :
                 (Users \o v)[i] = IF i <= Len(Users) THEN Users[i] ELSE v[i - Len(Users)]
      BY <3>1, ConcatProperties
    <3>3. Len(v) \in Nat
      BY <3>1, LenProperties
    <3>q. QED BY <2>1, <3>2, <3>3 DEF UserSet, Marked, S
  <2>4. UserSet(v) # <<>>
    BY <2>2, <2>3, LenProperties DEF Marked
  <2>q. QED BY <2>3, <2>4 DEF ByUser
<1>5. \A u, v \in Value : u \o v \in Value
  BY ConcatProperties DEF Value
<1>6. \A p \in {"events", "otlp", "decision"} : \A u \in Value : Derived(u, p) \in Value
  <2>1. \A p \in {"events", "otlp", "decision"} : <<p>> \in Value
    BY <1>1, <1>2 DEF Value
  <2>q. QED BY <2>1, <1>5 DEF Derived
<1>7. \A k \in {"switch", "content", "beta"} : <<k>> \in Value
  BY <1>1, <1>2 DEF Value
<1>8. ASSUME NEW signals
      PROVE  Exporters(signals) \in Value
  <2>1. \A s : On(s, signals) \in Words
    BY <1>1 DEF On
  <2>q. QED BY <2>1 DEF Exporters, Value
<1>q. QED BY <1>3, <1>4, <1>5, <1>6, <1>7, <1>8, <1>9, <1>10

(* A configuration, field by field.                                        *)
LEMMA ConfigIs ==
    ASSUME NEW c
    PROVE  IsConfig(c) <=>
            /\ DOMAIN c = {"urls", "token", "roots", "consent", "content", "git", "otel"}
            /\ c = [f \in DOMAIN c |-> c[f]]
            /\ c.urls \in [UrlFields -> Value] /\ c.token \in Value
            /\ DOMAIN c.roots \subseteq Roots /\ c.roots \in [DOMAIN c.roots -> Identity]
            /\ c.consent \in BOOLEAN /\ c.content \in BOOLEAN /\ c.git \in BOOLEAN
            /\ c.otel \subseteq {"logs", "traces", "metrics"}
BY DEF IsConfig, ConfigOver

(* Parsing keeps the fields of a destination and leaves no URL unusable.   *)
LEMMA Parses ==
    ASSUME NEW D, NEW urls \in [D -> Value]
    PROVE  /\ Parsed(urls) \in [D -> Value]
           /\ \A f \in D : Parsed(urls)[f] = DeliverableUrl(urls[f]) /\ Parsed(urls)[f] # Bad
<1>1. \A u \in Value : DeliverableUrl(u) \in Value /\ DeliverableUrl(u) # Bad
  BY Values DEF DeliverableUrl, Bad, Refused
<1>q. QED BY <1>1 DEF Parsed

(* What parsing leaves of a configuration.                                 *)
LEMMA Schema ==
    ASSUME NEW c, IsConfig(c)
    PROVE  LET s == ConfigSchema(c)
           IN  /\ IsConfig(s)
               /\ s.urls = Parsed(c.urls) /\ s.token = c.token
               /\ s.consent = c.consent /\ s.content = (c.content /\ c.consent)
               /\ s.git = c.git /\ s.otel = c.otel
               /\ DOMAIN s.roots = DOMAIN c.roots
               /\ \A r \in DOMAIN c.roots : /\ s.roots[r].urls = Parsed(c.roots[r].urls)
                                            /\ s.roots[r].token = c.roots[r].token
<1> DEFINE roots == [r \in DOMAIN c.roots |-> WithParsed(c.roots[r])]
           p == [WithParsed(c) EXCEPT !.roots = [r \in DOMAIN @ |-> WithParsed(@[r])]]
           g == [p EXCEPT !.content = @ /\ p.consent]
<1>1. ConfigSchema(c) = g
  BY DEF ConfigSchema, Gated
<1>2. \A r \in DOMAIN c.roots : c.roots[r] \in Identity
  BY ConfigIs
<1>3. ASSUME NEW r \in DOMAIN c.roots
      PROVE  /\ roots[r] \in Identity
             /\ roots[r].urls = Parsed(c.roots[r].urls) /\ roots[r].token = c.roots[r].token
  BY <1>2, Parses DEF Identity, WithParsed
<1>4. roots \in [DOMAIN c.roots -> Identity]
  BY <1>3
<1>5. /\ DOMAIN WithParsed(c) = DOMAIN c /\ WithParsed(c).urls = Parsed(c.urls) /\ WithParsed(c).roots = c.roots
      /\ WithParsed(c).token = c.token /\ WithParsed(c).consent = c.consent /\ WithParsed(c).content = c.content
      /\ WithParsed(c).git = c.git /\ WithParsed(c).otel = c.otel
  BY ConfigIs DEF WithParsed
<1> HIDE DEF roots
<1>6. p.urls = Parsed(c.urls) /\ p.token = c.token /\ p.consent = c.consent /\ p.content = c.content
      /\ p.git = c.git /\ p.otel = c.otel /\ p.roots = roots /\ DOMAIN p = DOMAIN c
  BY <1>5, ConfigIs DEF roots
<1>7. p = [f \in DOMAIN p |-> p[f]]
  OBVIOUS
<1> HIDE DEF p
<1>8. /\ g.urls = Parsed(c.urls) /\ g.token = c.token /\ g.consent = c.consent
      /\ g.content = (c.content /\ c.consent)
      /\ g.git = c.git /\ g.otel = c.otel /\ g.roots = roots /\ DOMAIN g = DOMAIN c
      /\ g = [f \in DOMAIN g |-> g[f]]
  BY <1>6, <1>7, ConfigIs
<1>9. Parsed(c.urls) \in [UrlFields -> Value]
  BY Parses, ConfigIs
<1> HIDE DEF g
<1>10. IsConfig(g)
  BY <1>4, <1>8, <1>9, ConfigIs
<1>q. QED BY <1>1, <1>3, <1>4, <1>8, <1>10

(* defaultConfig is a configuration without roots.                         *)
LEMMA DefaultIsConfig == IsConfig(DefaultConfig) /\ DOMAIN DefaultConfig.roots = {}
<1>1. [f \in UrlFields |-> None] \in [UrlFields -> Value] /\ None \in Value
  BY Values
<1>2. DOMAIN <<>> = {} /\ <<>> \in [{} -> Identity]
  OBVIOUS
<1>q. QED BY <1>1, <1>2 DEF DefaultConfig, IsConfig, ConfigOver

(* So is whatever loadConfig makes of the file.                            *)
LEMMA LoadIs == IsStored(file) => IsConfig(LoadConfig)
BY Schema, DefaultIsConfig DEF LoadConfig, IsStored

-----------------------------------------------------------------------------
(* What the operations of AgentSettings do to one file and its record.     *)

(* A settings file, field by field.                                        *)
LEMMA FileIs ==
    ASSUME NEW path, NEW f
    PROVE  IsFile(path, f) <=>
            /\ DOMAIN f = {"state", "hooks", "env", "helper", "private"} /\ f = [x \in DOMAIN f |-> f[x]]
            /\ f.state \in {"missing", "ok", "invalid", "rejected", "broken"}
            /\ f.hooks \in [Events -> SUBSET {"user", "ours"}]
            /\ f.env \in [DOMAIN f.env -> Marked]
            /\ DOMAIN f.env \subseteq (IF path = "codex.toml" THEN {"otel"} ELSE Keys \ {"otel"})
            /\ f.state = "missing" => DOMAIN f.env = {}
            /\ f.helper \in {"none", "user", "ours"} /\ f.private \in BOOLEAN
BY DEF IsFile, FileOver

(* Keys laid over a file's.                                                *)
LEMMA SetInIs ==
    ASSUME NEW D, NEW E, NEW S, NEW env \in [D -> S], NEW over \in [E -> S]
    PROVE  /\ SetIn(env, over) \in [D \union E -> S]
           /\ \A k \in E : SetIn(env, over)[k] = over[k]
           /\ \A k \in D \ E : SetIn(env, over)[k] = env[k]
BY DEF SetIn

(* The record of an agent after each kind of operation.                    *)
LEMMA GoneIs == Gone \in Entry /\ Sound(Gone) /\ ~Gone.there /\ Gone.owned = {} /\ ~Gone.prior
BY DEF Gone, Entry, Sound

(* Recording hooks leaves what is owned and the mode alone.                *)
LEMMA HooksRecorded ==
    ASSUME NEW e \in Entry, Sound(e), NEW o, o \in {WithHookInstall(e), WithoutHookInstall(e)}
    PROVE  o \in Entry /\ Sound(o) /\ o.owned = e.owned /\ o.prior = e.prior
<1>1. CASE o = WithHookInstall(e)
  BY <1>1 DEF WithHookInstall, Entry, Sound
<1>2. CASE o = WithoutHookInstall(e)
  BY <1>2 DEF WithoutHookInstall, Entry, Sound
<1>q. QED BY <1>1, <1>2

(* Recording a removal owns nothing any more.                              *)
LEMMA RemovalRecorded ==
    ASSUME NEW e \in Entry, Sound(e), NEW o, o = WithoutOtelInstall(e)
    PROVE  o \in Entry /\ Sound(o) /\ o.owned = {} /\ o.prior = FALSE
BY DEF WithoutOtelInstall, Entry, Sound

(* Recording an installation keeps the first mode that was recorded.       *)
LEMMA InstallRecorded ==
    ASSUME NEW e \in Entry, NEW owned \in SUBSET (Keys \union {"helper"}), owned # {}, NEW prior \in BOOLEAN,
           NEW o, o = WithOtelInstall(e, owned, prior)
    PROVE  o \in Entry /\ Sound(o) /\ o.owned = owned /\ o.prior = (e.prior \/ prior)
<1>1. DOMAIN e = {"there", "hooks", "owned", "prior"} /\ e.prior \in BOOLEAN /\ e.hooks \in BOOLEAN
  BY DEF Entry
<1>2. o.owned = owned /\ o.there = TRUE
  BY <1>1 DEF WithOtelInstall
<1>3. o.prior = (e.prior \/ prior)
  BY <1>1 DEF WithOtelInstall
<1>4. o \in Entry
  <2> DEFINE was == e.prior \/ prior
  <2>1. was \in BOOLEAN
    BY <1>1
  <2> HIDE DEF was
  <2>2. [e EXCEPT !.there = TRUE, !.owned = owned, !.prior = was] \in Entry
    BY <2>1 DEF Entry
  <2>q. QED BY <2>2 DEF WithOtelInstall, was
<1>5. Sound(o)
  BY <1>2 DEF Sound
<1>q. QED BY <1>2, <1>3, <1>4, <1>5

(* What an exporter is to say is made of values, under keys of its own     *)
(* file.                                                                   *)
LEMMA DesiredIs ==
    ASSUME NEW c, IsConfig(c), NEW a \in Native
    PROVE  LET desired == Desired(a, c)
           IN  /\ desired \in [DOMAIN desired -> Value]
               /\ DOMAIN desired \subseteq (IF a = "codex" THEN {"otel"} ELSE Keys \ {"otel"})
               /\ a = "gemini" => DOMAIN desired \subseteq LegacyOwnedKeys
               /\ Configurable(a, c) => DOMAIN desired # {}
               /\ ~Wanted(a, c) => DOMAIN desired = {}
<1>1. OtlpBaseUrl(c) \in Value
  <2>1. c.urls \in [UrlFields -> Value]
    BY ConfigIs
  <2>2. \A f \in UrlFields : c.urls[f] \in Value
    BY <2>1
  <2>3. "endpoint" \in UrlFields /\ "otlpUrl" \in UrlFields
    BY DEF UrlFields, RootUrlFields
  <2>4. FromBase(c, "otlp") \in Value
    BY <2>2, <2>3, Values DEF FromBase
  <2>q. QED BY <2>2, <2>3, <2>4, Values DEF OtlpBaseUrl, Route
<1>2. DOMAIN NoEnv = {} /\ NoEnv \in [{} -> Value]
  BY DEF NoEnv
<1>3. ASSUME NEW signals
      PROVE  OtelEnv(OtlpBaseUrl(c), signals) \in [{"switch", "content", "exporters", "endpoint"} -> Value]
  BY <1>1, Values DEF OtelEnv
<1>4. c.token \in Value
  BY ConfigIs
<1>5. CASE ~Configurable(a, c)
  BY <1>2, <1>5 DEF Desired, Configurable
<1>6. CASE Configurable(a, c) /\ a = "claude"
  <2> DEFINE over == IF "traces" \in c.otel THEN [k \in {"beta"} |-> <<k>>] ELSE NoEnv
             D == IF "traces" \in c.otel THEN {"beta"} ELSE {}
  <2>1. over \in [D -> Value] /\ D \subseteq {"beta"}
    BY <1>2, Values
  <2> HIDE DEF over, D
  <2>2. DesiredClaude(c) \in [{"switch", "content", "exporters", "endpoint"} \union D -> Value]
    BY <1>3, <2>1, SetInIs DEF DesiredClaude, over
  <2>q. QED BY <1>6, <2>1, <2>2 DEF Desired, Configurable, Keys
<1>7. CASE Configurable(a, c) /\ a = "gemini"
  <2> DEFINE over == IF Bearer(c) THEN [k \in {"headers"} |-> c.token] ELSE NoEnv
             D == IF Bearer(c) THEN {"headers"} ELSE {}
  <2>1. over \in [D -> Value] /\ D \subseteq {"headers"}
    BY <1>2, <1>4
  <2> HIDE DEF over, D
  <2>2. DesiredGemini(c) \in [{"switch", "content", "exporters", "endpoint"} \union D -> Value]
    BY <1>3, <2>1, SetInIs DEF DesiredGemini, over
  <2>q. QED BY <1>7, <2>1, <2>2 DEF Desired, Configurable, Keys, LegacyOwnedKeys
<1>8. CASE Configurable(a, c) /\ a = "codex"
  <2>1. OtlpBaseUrl(c) \o c.token \o Exporters(SafeCodexSignals(c)) \in Value
    BY <1>1, <1>4, Values
  <2>2. RenderBlock(c) \in [{"otel"} -> Value]
    BY <2>1 DEF RenderBlock
  <2>q. QED BY <1>8, <2>2 DEF Desired, Configurable
<1>q. QED BY <1>5, <1>6, <1>7, <1>8 DEF Native

(* Whether a record and a file agree on what made config.toml private;     *)
(* excused: it was private at first, or not there.                         *)
Agree(f, e, excused) ==
    /\ f.private => excused \/ e.prior
    /\ e.prior => "otel" \in DOMAIN f.env
    /\ f.state = "missing" => excused

(* Keys a file still has, to the same effect.                              *)
Unchanged(f, g, keys) == \A k \in keys : StillSays(f, g, k)

(* What every operation on an exporter keeps.                              *)
Handled(a, f, e, c, o) ==
    /\ o.ok \in BOOLEAN /\ IsFile(OtelFile(a), o.file) /\ o.entry \in Entry /\ Sound(o.entry)
    /\ o.file.hooks = f.hooks
    /\ f.helper = "user" => o.file.helper = "user"
    /\ ~o.ok => o.file = f /\ o.entry = e
    /\ (a = "gemini" /\ ~e.there) \/ Unchanged(f, o.file, Protected(a, f, e, c))
    /\ a = "codex" => \A excused \in BOOLEAN : Agree(f, e, excused) => Agree(o.file, o.entry, excused)
    /\ a = "gemini" /\ OursIn(f) \subseteq LegacyOwnedKeys => OursIn(o.file) \subseteq LegacyOwnedKeys
    /\ a # "codex" /\ OursIn(f) \subseteq e.owned => OursIn(o.file) \subseteq o.entry.owned

(* What the removal of an exporter promises, as far as its record goes.    *)
Covered(a, f, e) ==
    \/ a = "codex"
    \/ OursIn(f) \subseteq e.owned
    \/ a = "gemini" /\ ~e.there /\ OursIn(f) \subseteq LegacyOwnedKeys
Removed(a, f, e, o) ==
    /\ OursIn(o.file) \subseteq OursIn(f)
    /\ o.ok /\ Covered(a, f, e) => OursIn(o.file) = {}

(* And what its configuration promises.                                    *)
FollowsIn(f, desired) == OursIn(f) = DOMAIN desired /\ \A k \in DOMAIN desired : f.env[k] = desired[k]
Configured(a, f, e, c, o) ==
    o.ok /\ (a = "codex" \/ OursIn(f) \subseteq e.owned) => FollowsIn(o.file, Desired(a, c))

(* An operation that leaves file and record alone.                         *)
LEMMA Refusing ==
    ASSUME NEW a \in Native, NEW f, IsFile(OtelFile(a), f), NEW e \in Entry, Sound(e), NEW c
    PROVE  Handled(a, f, e, c, Refuses(f, e)) /\ Handled(a, f, e, c, Same(f, e))
<1>1. Unchanged(f, f, Protected(a, f, e, c))
  BY DEF Unchanged, Protected, Set, StillSays
<1>q. QED BY <1>1 DEF Handled, Refuses, Same

(* Writing an exporter's keys into a file.                                 *)
LEMMA KeysWritten ==
    ASSUME NEW f, NEW g, NEW owned, NEW desired, f.env \in [DOMAIN f.env -> Marked],
           desired \in [DOMAIN desired -> Value], g.env = NextEnv(f.env, desired, owned)
    PROVE  /\ DOMAIN g.env \subseteq DOMAIN f.env \union DOMAIN desired /\ DOMAIN desired \subseteq DOMAIN g.env
           /\ g.env \in [DOMAIN g.env -> Marked]
           /\ OursIn(g) \subseteq OursIn(f) \union DOMAIN desired
           /\ OursIn(f) \subseteq owned => FollowsIn(g, desired)
           /\ ForeignKeys(f.env, desired, owned) = {} =>
                  Unchanged(f, g, Set(f) \ ({"content"} \union owned))
<1> DEFINE kept == Restrict(f.env, DOMAIN f.env \ (owned \ DOMAIN desired))
           K == DOMAIN f.env \ (owned \ DOMAIN desired)
<1>1. kept \in [K -> Marked] /\ \A k \in K : kept[k] = f.env[k]
  BY DEF Restrict
<1>2. desired \in [DOMAIN desired -> Marked] /\ \A k \in DOMAIN desired : ~ByUser(desired[k]) /\ Text(desired[k]) = desired[k]
  BY Values
<1> HIDE DEF kept
<1>3. g.env = SetIn(kept, desired)
  BY DEF NextEnv, kept
<1>4. /\ g.env \in [K \union DOMAIN desired -> Marked]
      /\ \A k \in DOMAIN desired : g.env[k] = desired[k]
      /\ \A k \in K \ DOMAIN desired : g.env[k] = f.env[k]
  <2> HIDE DEF K
  <2>1. /\ SetIn(kept, desired) \in [K \union DOMAIN desired -> Marked]
        /\ \A k \in DOMAIN desired : SetIn(kept, desired)[k] = desired[k]
        /\ \A k \in K \ DOMAIN desired : SetIn(kept, desired)[k] = kept[k]
    BY <1>1, <1>2 DEF SetIn
  <2>q. QED BY <1>1, <1>3, <2>1
<1>5. DOMAIN g.env = K \union DOMAIN desired
  BY <1>4
<1>6. OursIn(g) \subseteq OursIn(f) \union DOMAIN desired
  BY <1>4, <1>5 DEF OursIn
<1>7. OursIn(f) \subseteq owned => FollowsIn(g, desired)
  BY <1>2, <1>4, <1>5 DEF OursIn, FollowsIn
<1>8. ASSUME ForeignKeys(f.env, desired, owned) = {}, NEW k \in Set(f) \ ({"content"} \union owned)
      PROVE  StillSays(f, g, k)
  <2>1. k \in K /\ k \in DOMAIN f.env /\ k \notin owned \union {"content"}
    BY <1>8 DEF Set
  <2>2. CASE k \in DOMAIN desired
    <3>1. Text(f.env[k]) = desired[k]
      BY <1>8, <2>1, <2>2 DEF ForeignKeys
    <3>q. QED BY <1>2, <1>4, <1>5, <2>2, <3>1 DEF StillSays
  <2>3. CASE k \notin DOMAIN desired
    BY <1>4, <1>5, <2>1, <2>3 DEF StillSays
  <2>q. QED BY <2>2, <2>3
<1>q. QED BY <1>4, <1>5, <1>6, <1>7, <1>8 DEF Unchanged

(* Of the keys no record has, those the guess leaves are Protected.        *)
LEMMA ProtectedAre ==
    ASSUME NEW a, NEW f, NEW e, NEW c, NEW g, Unchanged(f, g, Set(f) \ ({"content"} \union e.owned))
    PROVE  Unchanged(f, g, Protected(a, f, e, c))
BY DEF Unchanged, Protected

(* Claude's exporter is removed.                                           *)
LEMMA UninstallClaudeIs ==
    ASSUME NEW f, IsFile("claude", f), NEW e \in Entry, Sound(e), NEW c, IsConfig(c)
    PROVE  LET o == UninstallClaude(f, e, c)
           IN  Handled("claude", f, e, c, o) /\ Removed("claude", f, e, o)
<1> DEFINE desired == Desired("claude", c)
           removable == RemovableEnvKeys(f.env, e.owned, desired)
           g == [[f EXCEPT !.env = Restrict(@, DOMAIN @ \ removable), !.helper = WithoutOurs(@)] EXCEPT !.state = "ok"]
           o == UninstallClaude(f, e, c)
<1>1. desired \in [DOMAIN desired -> Value]
  BY DesiredIs DEF Native
<1>2. CASE f.state = "missing"
  <2>1. o = Same(f, e)
    BY <1>2 DEF UninstallClaude
  <2>2. OursIn(f) = {}
    BY <1>2, FileIs DEF OursIn
  <2>q. QED BY <2>1, <2>2, Refusing DEF Same, Removed, OtelFile, Native
<1>3. CASE f.state = "invalid"
  <2>1. o = Refuses(f, e)
    BY <1>3 DEF UninstallClaude
  <2>q. QED BY <2>1, Refusing DEF Refuses, Removed, OtelFile, Native
<1>4. CASE f.state \notin {"missing", "invalid"}
  <2>1. o.ok = TRUE /\ o.file = g /\ o.entry = WithoutOtelInstall(e)
    BY <1>4 DEF UninstallClaude, Written
  <2>2. /\ DOMAIN g = DOMAIN f /\ g = [x \in DOMAIN g |-> g[x]]
        /\ g.env = Restrict(f.env, DOMAIN f.env \ removable)
        /\ g.helper = WithoutOurs(f.helper) /\ g.state = "ok" /\ g.hooks = f.hooks /\ g.private = f.private
    BY FileIs
  <2> HIDE DEF g, o
  <2>3. /\ DOMAIN g.env = DOMAIN f.env \ removable
        /\ g.env \in [DOMAIN g.env -> Marked]
        /\ OursIn(g) = OursIn(f) \ removable /\ \A k \in DOMAIN g.env : g.env[k] = f.env[k]
    <3>1. f.env \in [DOMAIN f.env -> Marked]
      BY FileIs
    <3>2. g.env = Restrict(f.env, DOMAIN f.env \ removable)
      BY <2>2
    <3> HIDE DEF removable
    <3>q. QED BY <3>1, <3>2 DEF Restrict, OursIn
  <2>4. g.helper \in {"none", "user", "ours"} /\ (f.helper = "user" => g.helper = "user")
    BY <2>2, FileIs DEF WithoutOurs
  <2>5. IsFile("claude", g)
    BY <2>2, <2>3, <2>4, FileIs
  <2>6. Unchanged(f, g, Protected("claude", f, e, c))
    <3>1. \A k \in Set(f) : k \in removable => k \in e.owned \/ k \in Guessed("claude", f, e, c)
      BY DEF Set, RemovableEnvKeys, Guessed
    <3> HIDE DEF removable
    <3>q. QED BY <3>1, <2>3 DEF Unchanged, Protected, StillSays, Set
  <2>7. OursIn(f) \subseteq e.owned => OursIn(g) = {}
    BY <2>3 DEF OursIn, RemovableEnvKeys
  <2>8. Handled("claude", f, e, c, o)
    <3>0. o.ok
      BY <2>1, Zenon
    <3>1. o.file = g /\ o.entry \in Entry /\ Sound(o.entry) /\ o.entry.owned = {}
      BY <2>1, RemovalRecorded
    <3>2. OursIn(f) \subseteq e.owned => OursIn(o.file) \subseteq o.entry.owned
      BY <2>7, <3>1
    <3>3. o.file.hooks = f.hooks /\ (f.helper = "user" => o.file.helper = "user")
      BY <2>2, <2>4, <3>1
    <3>q. QED BY <2>1, <2>5, <2>6, <3>0, <3>1, <3>2, <3>3 DEF Handled, OtelFile
  <2>9. Removed("claude", f, e, o)
    <3>1. o.file = g /\ OursIn(o.file) \subseteq OursIn(f)
      BY <2>1, <2>3
    <3>q. QED BY <2>7, <3>1 DEF Removed, Covered
  <2>q. QED BY <2>8, <2>9 DEF o
<1>q. QED BY <1>2, <1>3, <1>4

(* Claude's exporter is written.                                           *)
LEMMA ConfigureClaudeIs ==
    ASSUME NEW f, IsFile("claude", f), NEW e \in Entry, Sound(e), NEW c, IsConfig(c)
    PROVE  LET o == ConfigureClaude(f, e, c)
           IN  Handled("claude", f, e, c, o) /\ Configured("claude", f, e, c, o)
<1> DEFINE desired == Desired("claude", c)
           owned == DOMAIN desired \union (IF Bearer(c) THEN {"helper"} ELSE {})
           g == [[f EXCEPT !.env = NextEnv(@, desired, e.owned), !.helper = IF Bearer(c) THEN "ours" ELSE @]
                    EXCEPT !.state = "ok"]
           o == ConfigureClaude(f, e, c)
<1>1. /\ desired \in [DOMAIN desired -> Value] /\ DOMAIN desired \subseteq Keys \ {"otel"}
      /\ Configurable("claude", c) => DOMAIN desired # {}
      /\ ~Wanted("claude", c) => DOMAIN desired = {}
  BY DesiredIs DEF Native
<1>2. CASE ~Wanted("claude", c)
  <2>1. o = UninstallClaude(f, e, c)
    BY <1>2 DEF ConfigureClaude
  <2> HIDE DEF o
  <2>2. Handled("claude", f, e, c, o) /\ Removed("claude", f, e, o)
    BY <2>1, UninstallClaudeIs
  <2>3. Configured("claude", f, e, c, o)
    BY <1>1, <1>2, <2>2 DEF Removed, Covered, Configured, FollowsIn
  <2>q. QED BY <2>2, <2>3 DEF o
<1> DEFINE refused ==
        \/ ~Configurable("claude", c) \/ ~Readable(f)
        \/ ForeignKeys(f.env, desired, e.owned) # {}
        \/ Bearer(c) /\ f.helper = "user"
<1>3. CASE Wanted("claude", c) /\ refused
  <2>1. o = Refuses(f, e)
    BY <1>3 DEF ConfigureClaude
  <2>q. QED BY <2>1, Refusing DEF Refuses, Configured, OtelFile, Native
<1>4. CASE Wanted("claude", c) /\ ~refused
  <2>1. o.ok = TRUE /\ o.file = g /\ o.entry = WithOtelInstall(e, owned, FALSE)
    BY <1>4 DEF ConfigureClaude, Written
  <2>2. /\ DOMAIN g = DOMAIN f /\ g = [x \in DOMAIN g |-> g[x]]
        /\ g.env = NextEnv(f.env, desired, e.owned)
        /\ g.helper = (IF Bearer(c) THEN "ours" ELSE f.helper)
        /\ g.state = "ok" /\ g.hooks = f.hooks /\ g.private = f.private
    BY FileIs
  <2> HIDE DEF g, o, desired
  <2>3. f.env \in [DOMAIN f.env -> Marked]
    BY FileIs
  <2>4. /\ DOMAIN g.env \subseteq DOMAIN f.env \union DOMAIN desired
        /\ g.env \in [DOMAIN g.env -> Marked]
        /\ OursIn(f) \subseteq e.owned => FollowsIn(g, desired)
        /\ Unchanged(f, g, Set(f) \ ({"content"} \union e.owned))
    BY <1>1, <1>4, <2>2, <2>3, KeysWritten
  <2>5. g.helper \in {"none", "user", "ours"} /\ (f.helper = "user" => g.helper = "user")
    BY <1>4, <2>2, FileIs
  <2>6. IsFile("claude", g)
    <3>1. DOMAIN g.env \subseteq Keys \ {"otel"}
      BY <1>1, <2>4, FileIs
    <3>q. QED BY <2>2, <2>4, <2>5, <3>1, FileIs
  <2>7. o.entry \in Entry /\ Sound(o.entry) /\ o.entry.owned = owned
    <3>1. owned \in SUBSET (Keys \union {"helper"}) /\ owned # {}
      BY <1>1, <1>4
    <3> DEFINE prior == FALSE
    <3>2. prior \in BOOLEAN /\ o.entry = WithOtelInstall(e, owned, prior)
      BY <2>1
    <3> HIDE DEF owned, prior
    <3>q. QED BY <3>1, <3>2, InstallRecorded
  <2>8. o.ok
    BY <2>1, Zenon
  <2>9. OursIn(f) \subseteq e.owned => OursIn(g) \subseteq owned
    BY <2>4 DEF FollowsIn
  <2>10. Handled("claude", f, e, c, o)
    <3> HIDE DEF owned
    <3>1. OursIn(f) \subseteq e.owned => OursIn(o.file) \subseteq o.entry.owned
      BY <2>1, <2>7, <2>9
    <3>2. o.file.hooks = f.hooks /\ (f.helper = "user" => o.file.helper = "user") /\ o.file = g
      BY <2>1, <2>2, <2>5
    <3>3. Unchanged(f, g, Protected("claude", f, e, c))
      BY <2>4, ProtectedAre
    <3>q. QED BY <2>1, <2>6, <2>7, <2>8, <3>1, <3>2, <3>3 DEF Handled, OtelFile
  <2>11. Configured("claude", f, e, c, o)
    <3>1. o.file = g
      BY <2>1
    <3>q. QED BY <2>4, <3>1 DEF Configured, desired
  <2>q. QED BY <2>10, <2>11 DEF o
<1>q. QED BY <1>2, <1>3, <1>4

(* Gemini's exporter is removed.                                           *)
LEMMA UninstallGeminiIs ==
    ASSUME NEW f, IsFile("gemini", f), NEW e \in Entry, Sound(e), NEW c
    PROVE  LET o == UninstallGemini(f, e)
           IN  Handled("gemini", f, e, c, o) /\ Removed("gemini", f, e, o)
<1> DEFINE removable == IF e.there THEN e.owned ELSE LegacyOwnedKeys
           next == [f EXCEPT !.env = Restrict(@, DOMAIN @ \ removable), !.helper = WithoutOurs(@)]
           private == IF next # f THEN Shared(f, e.prior) ELSE next.private
           g == [[next EXCEPT !.private = IF next # f THEN Shared(f, e.prior) ELSE @] EXCEPT !.state = "ok"]
           o == UninstallGemini(f, e)
<1>1. CASE f.state = "missing"
  <2>1. o = Same(f, e)
    BY <1>1 DEF UninstallGemini
  <2>2. OursIn(f) = {}
    BY <1>1, FileIs DEF OursIn
  <2>q. QED BY <2>1, <2>2, Refusing DEF Same, Removed, OtelFile, Native
<1>2. CASE f.state = "invalid"
  <2>1. o = Refuses(f, e)
    BY <1>2 DEF UninstallGemini
  <2>q. QED BY <2>1, Refusing DEF Refuses, Removed, OtelFile, Native
<1>3. CASE f.state \notin {"missing", "invalid"}
  <2>1. o.ok = TRUE /\ o.file = g /\ o.entry = WithoutOtelInstall(e)
    BY <1>3 DEF UninstallGemini, Written
  <2>2. /\ DOMAIN next = DOMAIN f /\ next = [x \in DOMAIN next |-> next[x]]
        /\ next.env = Restrict(f.env, DOMAIN f.env \ removable)
        /\ next.helper = WithoutOurs(f.helper) /\ next.hooks = f.hooks /\ next.private = f.private
    BY FileIs
  <2>3. private \in BOOLEAN
    <3> HIDE DEF next
    <3>q. QED BY <2>2, FileIs DEF Shared
  <2>4. /\ DOMAIN g = DOMAIN f /\ g = [x \in DOMAIN g |-> g[x]]
        /\ g.env = Restrict(f.env, DOMAIN f.env \ removable)
        /\ g.helper = WithoutOurs(f.helper) /\ g.state = "ok" /\ g.hooks = f.hooks /\ g.private = private
    <3> HIDE DEF next
    <3> DEFINE h == [next EXCEPT !.private = IF next # f THEN Shared(f, e.prior) ELSE @]
    <3>1. /\ DOMAIN h = DOMAIN f /\ h = [x \in DOMAIN h |-> h[x]]
          /\ h.env = next.env /\ h.helper = next.helper /\ h.hooks = f.hooks
      BY <2>2, FileIs
    <3>2. h.private = private
      BY <2>2, FileIs
    <3> HIDE DEF h, private
    <3>3. g = [h EXCEPT !.state = "ok"]
      BY DEF h
    <3> HIDE DEF g
    <3>q. QED BY <2>2, <3>1, <3>2, <3>3, FileIs
  <2> HIDE DEF g, o, next, private
  <2>5. /\ DOMAIN g.env = DOMAIN f.env \ removable
        /\ g.env \in [DOMAIN g.env -> Marked]
        /\ OursIn(g) = OursIn(f) \ removable /\ \A k \in DOMAIN g.env : g.env[k] = f.env[k]
    <3>1. f.env \in [DOMAIN f.env -> Marked]
      BY FileIs
    <3>2. g.env = Restrict(f.env, DOMAIN f.env \ removable)
      BY <2>4
    <3> HIDE DEF removable
    <3>q. QED BY <3>1, <3>2 DEF Restrict, OursIn
  <2>6. g.helper \in {"none", "user", "ours"} /\ (f.helper = "user" => g.helper = "user")
    BY <2>4, FileIs DEF WithoutOurs
  <2>7. IsFile("gemini", g)
    BY <2>3, <2>4, <2>5, <2>6, FileIs
  <2>8. o.ok
    BY <2>1, Zenon
  <2>9. o.file = g /\ o.entry \in Entry /\ Sound(o.entry) /\ o.entry.owned = {}
    BY <2>1, RemovalRecorded
  <2>10. e.there => Unchanged(f, g, Set(f) \ ({"content"} \union e.owned))
    BY <2>5 DEF Unchanged, StillSays, Set
  <2>11. e.there => Unchanged(f, g, Protected("gemini", f, e, c))
    BY <2>10, ProtectedAre
  <2>12. Covered("gemini", f, e) => OursIn(g) = {}
    <3>1. ASSUME OursIn(f) \subseteq e.owned
          PROVE  OursIn(f) \ removable = {}
      BY <3>1 DEF Sound
    <3>q. QED BY <2>5, <3>1 DEF Covered
  <2>13. OursIn(f) \subseteq e.owned => OursIn(o.file) \subseteq o.entry.owned
    BY <2>9, <2>12 DEF Covered
  <2>14. OursIn(g) \subseteq OursIn(f) /\ o.file.hooks = f.hooks /\ (f.helper = "user" => o.file.helper = "user")
    BY <2>4, <2>5, <2>6, <2>9
  <2> HIDE DEF removable
  <2>15. Handled("gemini", f, e, c, o)
    BY <2>7, <2>8, <2>9, <2>11, <2>13, <2>14 DEF Handled, OtelFile
  <2>16. Removed("gemini", f, e, o)
    BY <2>9, <2>12, <2>14 DEF Removed
  <2>q. QED BY <2>15, <2>16 DEF o
<1>q. QED BY <1>1, <1>2, <1>3

(* Gemini's exporter is written.                                           *)
LEMMA ConfigureGeminiIs ==
    ASSUME NEW f, IsFile("gemini", f), NEW e \in Entry, Sound(e), NEW c, IsConfig(c)
    PROVE  LET o == ConfigureGemini(f, e, c)
           IN  Handled("gemini", f, e, c, o) /\ Configured("gemini", f, e, c, o)
<1> DEFINE desired == Desired("gemini", c)
           next == [f EXCEPT !.env = NextEnv(@, desired, e.owned), !.helper = WithoutOurs(@)]
           tightens == Bearer(c) /\ next # f
           prior == tightens /\ f.state = "ok" /\ ~f.private
           private == next.private \/ tightens
           g == [[next EXCEPT !.private = @ \/ tightens] EXCEPT !.state = "ok"]
           o == ConfigureGemini(f, e, c)
<1>1. /\ desired \in [DOMAIN desired -> Value] /\ DOMAIN desired \subseteq Keys \ {"otel"}
      /\ DOMAIN desired \subseteq LegacyOwnedKeys
      /\ Configurable("gemini", c) => DOMAIN desired # {}
      /\ ~Wanted("gemini", c) => DOMAIN desired = {}
  BY DesiredIs DEF Native
<1>2. CASE ~Wanted("gemini", c)
  <2>1. o = UninstallGemini(f, e)
    BY <1>2 DEF ConfigureGemini
  <2> HIDE DEF o
  <2>2. Handled("gemini", f, e, c, o) /\ Removed("gemini", f, e, o)
    BY <2>1, UninstallGeminiIs
  <2>3. Configured("gemini", f, e, c, o)
    BY <1>1, <1>2, <2>2 DEF Removed, Covered, Configured, FollowsIn
  <2>q. QED BY <2>2, <2>3 DEF o
<1> DEFINE refused ==
        ~Configurable("gemini", c) \/ ~Readable(f) \/ ForeignKeys(f.env, desired, e.owned) # {}
<1>3. CASE Wanted("gemini", c) /\ refused
  <2>1. o = Refuses(f, e)
    BY <1>3 DEF ConfigureGemini
  <2>q. QED BY <2>1, Refusing DEF Refuses, Configured, OtelFile, Native
<1>4. CASE Wanted("gemini", c) /\ ~refused
  <2>1. o.ok = TRUE /\ o.file = g /\ o.entry = WithOtelInstall(e, DOMAIN desired, prior)
    BY <1>4 DEF ConfigureGemini, Written
  <2>2. /\ DOMAIN next = DOMAIN f /\ next = [x \in DOMAIN next |-> next[x]]
        /\ next.env = NextEnv(f.env, desired, e.owned)
        /\ next.helper = WithoutOurs(f.helper) /\ next.hooks = f.hooks /\ next.private = f.private
    BY FileIs
  <2> HIDE DEF next, desired
  <2>3. tightens \in BOOLEAN /\ private \in BOOLEAN /\ prior \in BOOLEAN
    OBVIOUS
  <2>4. /\ DOMAIN g = DOMAIN f /\ g = [x \in DOMAIN g |-> g[x]]
        /\ g.env = next.env /\ g.helper = next.helper /\ g.state = "ok" /\ g.hooks = f.hooks
        /\ g.private = private
    <3> DEFINE h == [next EXCEPT !.private = @ \/ tightens]
    <3> HIDE DEF tightens
    <3>1. /\ DOMAIN h = DOMAIN f /\ h = [x \in DOMAIN h |-> h[x]]
          /\ h.env = next.env /\ h.helper = next.helper /\ h.hooks = f.hooks
      BY <2>2, FileIs
    <3>2. h.private = private
      BY <2>2, FileIs
    <3> HIDE DEF h, private
    <3>3. g = [h EXCEPT !.state = "ok"]
      BY DEF h
    <3> HIDE DEF g
    <3>q. QED BY <2>2, <3>1, <3>2, <3>3, FileIs
  <2> HIDE DEF g, o, prior, private, tightens
  <2>5. f.env \in [DOMAIN f.env -> Marked] /\ g.env = NextEnv(f.env, desired, e.owned)
    BY <2>2, <2>4, FileIs
  <2>6. /\ DOMAIN g.env \subseteq DOMAIN f.env \union DOMAIN desired
        /\ g.env \in [DOMAIN g.env -> Marked]
        /\ OursIn(g) \subseteq OursIn(f) \union DOMAIN desired
        /\ OursIn(f) \subseteq e.owned => FollowsIn(g, desired)
        /\ Unchanged(f, g, Set(f) \ ({"content"} \union e.owned))
    BY <1>1, <1>4, <2>5, KeysWritten
  <2>7. g.helper \in {"none", "user", "ours"} /\ (f.helper = "user" => g.helper = "user")
    BY <2>2, <2>4, FileIs DEF WithoutOurs
  <2>8. IsFile("gemini", g)
    <3>1. DOMAIN g.env \subseteq Keys \ {"otel"}
      BY <1>1, <2>6, FileIs
    <3>q. QED BY <2>3, <2>4, <2>6, <2>7, <3>1, FileIs
  <2>9. o.entry \in Entry /\ Sound(o.entry) /\ o.entry.owned = DOMAIN desired
    <3>1. DOMAIN desired \in SUBSET (Keys \union {"helper"}) /\ DOMAIN desired # {}
      BY <1>1, <1>4
    <3>q. QED BY <2>1, <2>3, <3>1, InstallRecorded
  <2>10. o.ok
    BY <2>1, Zenon
  <2>11. /\ OursIn(f) \subseteq e.owned => OursIn(o.file) \subseteq o.entry.owned
         /\ OursIn(f) \subseteq LegacyOwnedKeys => OursIn(o.file) \subseteq LegacyOwnedKeys
    BY <1>1, <2>1, <2>6, <2>9 DEF FollowsIn
  <2>12. o.file.hooks = f.hooks /\ (f.helper = "user" => o.file.helper = "user") /\ o.file = g
    BY <2>1, <2>4, <2>7
  <2>15. Unchanged(f, g, Protected("gemini", f, e, c))
    BY <2>6, ProtectedAre
  <2>13. Handled("gemini", f, e, c, o)
    BY <2>15, <2>8, <2>9, <2>10, <2>11, <2>12 DEF Handled, OtelFile
  <2>14. Configured("gemini", f, e, c, o)
    BY <2>6, <2>12 DEF Configured, desired
  <2>q. QED BY <2>13, <2>14 DEF o
<1>q. QED BY <1>2, <1>3, <1>4

(* Codex's block is removed.                                               *)
LEMMA UninstallCodexIs ==
    ASSUME NEW f, IsFile("codex.toml", f), NEW e \in Entry, Sound(e), NEW c
    PROVE  LET o == UninstallCodex(f, e)
           IN  Handled("codex", f, e, c, o) /\ Removed("codex", f, e, o)
<1> DEFINE g == [f EXCEPT !.env = NoEnv, !.private = Shared(f, e.prior)]
           o == UninstallCodex(f, e)
<1>1. CASE f.state = "missing" \/ ~HasBlock(f)
  <2>1. o = Same(f, e)
    BY <1>1 DEF UninstallCodex
  <2>2. OursIn(f) = {}
    BY <1>1, FileIs DEF OursIn, HasBlock
  <2>q. QED BY <2>1, <2>2, Refusing DEF Same, Removed, OtelFile, Native
<1>2. CASE ~(f.state = "missing" \/ ~HasBlock(f)) /\ f.state = "broken"
  <2>1. o = Refuses(f, e)
    BY <1>2 DEF UninstallCodex
  <2>q. QED BY <2>1, Refusing DEF Refuses, Removed, OtelFile, Native
<1>3. CASE ~(f.state = "missing" \/ ~HasBlock(f)) /\ f.state # "broken"
  <2>1. o.ok = TRUE /\ o.file = g /\ o.entry = WithoutOtelInstall(e)
    BY <1>3 DEF UninstallCodex
  <2>2. /\ DOMAIN g = DOMAIN f /\ g = [x \in DOMAIN g |-> g[x]]
        /\ g.env = NoEnv /\ g.private = Shared(f, e.prior)
        /\ g.helper = f.helper /\ g.state = f.state /\ g.hooks = f.hooks
    BY FileIs
  <2> HIDE DEF g, o
  <2>3. DOMAIN NoEnv = {} /\ NoEnv \in [{} -> Marked]
    BY DEF NoEnv
  <2>4. Shared(f, e.prior) \in BOOLEAN
    BY FileIs DEF Shared
  <2>5. IsFile("codex.toml", g)
    BY <2>2, <2>3, <2>4, FileIs
  <2>6. o.ok
    BY <2>1, Zenon
  <2>7. o.file = g /\ o.entry \in Entry /\ Sound(o.entry) /\ o.entry.prior = FALSE
    BY <2>1, RemovalRecorded
  <2>8. Set(f) = {} /\ OursIn(g) = {}
    BY <1>3, <2>2, <2>3, FileIs DEF Set, OursIn, HasBlock
  <2>9. ASSUME NEW excused \in BOOLEAN, Agree(f, e, excused)
        PROVE  Agree(g, o.entry, excused)
    <3>1. g.private => excused
      BY <2>2, <2>9 DEF Agree, Shared
    <3>2. ~o.entry.prior
      BY <2>7, Zenon
    <3>q. QED BY <2>2, <2>9, <3>1, <3>2 DEF Agree
  <2>10. o.file.hooks = f.hooks /\ (f.helper = "user" => o.file.helper = "user")
    BY <2>2, <2>7
  <2>13. Unchanged(f, g, Protected("codex", f, e, c))
    BY <2>8 DEF Unchanged, Protected
  <2>11. Handled("codex", f, e, c, o)
    BY <2>5, <2>6, <2>7, <2>8, <2>9, <2>10, <2>13 DEF Handled, OtelFile
  <2>12. Removed("codex", f, e, o)
    BY <2>7, <2>8 DEF Removed
  <2>q. QED BY <2>11, <2>12 DEF o
<1>q. QED BY <1>1, <1>2, <1>3

(* Codex's block is written.                                               *)
LEMMA ConfigureCodexIs ==
    ASSUME NEW f, IsFile("codex.toml", f), NEW e \in Entry, Sound(e), NEW c, IsConfig(c)
    PROVE  LET o == ConfigureCodex(f, e, c)
           IN  Handled("codex", f, e, c, o) /\ Configured("codex", f, e, c, o)
<1> DEFINE desired == Desired("codex", c)
           prior == Bearer(c) /\ f.state = "ok" /\ ~f.private
           private == f.private \/ Bearer(c)
           g == [[f EXCEPT !.env = desired, !.private = @ \/ Bearer(c)] EXCEPT !.state = "ok"]
           o == ConfigureCodex(f, e, c)
           foreign == "otel" \in DOMAIN f.env /\ ~HasBlock(f)
<1>1. /\ desired \in [DOMAIN desired -> Value] /\ DOMAIN desired \subseteq {"otel"}
      /\ Configurable("codex", c) => DOMAIN desired # {}
      /\ ~Wanted("codex", c) => DOMAIN desired = {}
  BY DesiredIs DEF Native
<1>2. CASE ~Wanted("codex", c)
  <2>1. o = UninstallCodex(f, e)
    BY <1>2 DEF ConfigureCodex
  <2> HIDE DEF o
  <2>2. Handled("codex", f, e, c, o) /\ Removed("codex", f, e, o)
    BY <2>1, UninstallCodexIs
  <2>3. Configured("codex", f, e, c, o)
    BY <1>1, <1>2, <2>2 DEF Removed, Covered, Configured, FollowsIn
  <2>q. QED BY <2>2, <2>3 DEF o
<1> DEFINE shut == ~Configurable("codex", c) \/ f.state = "broken"
<1>3. CASE Wanted("codex", c) /\ (shut \/ (desired # f.env /\ (~Readable(f) \/ foreign)))
  <2>1. o = Refuses(f, e)
    BY <1>3 DEF ConfigureCodex
  <2>q. QED BY <2>1, Refusing DEF Refuses, Configured, OtelFile, Native
<1>4. CASE Wanted("codex", c) /\ ~shut /\ desired = f.env
  <2>1. o = Same(f, e)
    BY <1>4 DEF ConfigureCodex
  <2>2. FollowsIn(f, desired)
    BY <1>1, <1>4, Values DEF FollowsIn, OursIn
  <2>q. QED BY <2>1, <2>2, Refusing DEF Same, Configured, OtelFile, Native
<1>5. CASE Wanted("codex", c) /\ ~shut /\ desired # f.env /\ Readable(f) /\ ~foreign
  <2>1. o.ok = TRUE /\ o.file = g /\ o.entry = WithOtelInstall(e, {"otel"}, prior)
    BY <1>5 DEF ConfigureCodex, Written
  <2>2. private \in BOOLEAN /\ prior \in BOOLEAN
    OBVIOUS
  <2>3. /\ DOMAIN g = DOMAIN f /\ g = [x \in DOMAIN g |-> g[x]]
        /\ g.env = desired /\ g.helper = f.helper /\ g.state = "ok" /\ g.hooks = f.hooks
        /\ g.private = private
    <3> DEFINE h == [f EXCEPT !.env = desired, !.private = @ \/ Bearer(c)]
    <3> HIDE DEF desired
    <3>1. /\ DOMAIN h = DOMAIN f /\ h = [x \in DOMAIN h |-> h[x]]
          /\ h.env = desired /\ h.helper = f.helper /\ h.hooks = f.hooks
      BY FileIs
    <3>2. h.private = private
      BY FileIs
    <3> HIDE DEF h, private
    <3>3. g = [h EXCEPT !.state = "ok"]
      BY DEF h
    <3> HIDE DEF g
    <3>q. QED BY <3>1, <3>2, <3>3, FileIs
  <2>4. DOMAIN desired = {"otel"}
    BY <1>1, <1>5
  <2> HIDE DEF g, o, desired
  <2>5. IsFile("codex.toml", g)
    <3>1. g.env \in [DOMAIN g.env -> Marked]
      BY <1>1, <2>3, Values
    <3> HIDE DEF private
    <3>q. QED BY <2>2, <2>3, <2>4, <3>1, FileIs
  <2>6. o.ok
    BY <2>1, Zenon
  <2>7. o.file = g /\ o.entry \in Entry /\ Sound(o.entry) /\ o.entry.prior = (e.prior \/ prior)
    <3> HIDE DEF prior
    <3>1. {"otel"} \in SUBSET (Keys \union {"helper"}) /\ {"otel"} # {}
      BY DEF Keys
    <3>q. QED BY <2>1, <2>2, <3>1, InstallRecorded
  <2>8. FollowsIn(g, desired)
    BY <1>1, <2>3, <2>4, Values DEF FollowsIn, OursIn
  <2>9. Set(f) = {}
    BY <1>5, FileIs DEF Set, HasBlock
  <2>10. ASSUME NEW excused \in BOOLEAN, Agree(f, e, excused)
         PROVE  Agree(g, o.entry, excused)
    <3>1. g.private => excused \/ o.entry.prior
      BY <1>5, <2>3, <2>7, <2>10 DEF Agree, Readable
    <3>q. QED BY <2>3, <2>4, <2>10, <3>1 DEF Agree
  <2>11. o.file.hooks = f.hooks /\ (f.helper = "user" => o.file.helper = "user")
    BY <2>3, <2>7
  <2>14. Unchanged(f, g, Protected("codex", f, e, c))
    BY <2>9 DEF Unchanged, Protected
  <2>12. Handled("codex", f, e, c, o)
    BY <2>5, <2>6, <2>7, <2>10, <2>11, <2>14 DEF Handled, OtelFile
  <2>13. Configured("codex", f, e, c, o)
    BY <2>7, <2>8 DEF Configured, desired
  <2>q. QED BY <2>12, <2>13 DEF o
<1>q. QED BY <1>2, <1>3, <1>4, <1>5

(* Any exporter is removed.                                                *)
LEMMA RemovesIs ==
    ASSUME NEW a \in Native, NEW f, IsFile(OtelFile(a), f), NEW e \in Entry, Sound(e), NEW c, IsConfig(c)
    PROVE  LET o == UninstallOtel(a, f, e, c)
           IN  Handled(a, f, e, c, o) /\ Removed(a, f, e, o)
<1>1. CASE a = "claude"
  BY <1>1, UninstallClaudeIs DEF UninstallOtel, OtelFile
<1>2. CASE a = "codex"
  BY <1>2, UninstallCodexIs DEF UninstallOtel, OtelFile
<1>3. CASE a = "gemini"
  BY <1>3, UninstallGeminiIs DEF UninstallOtel, OtelFile
<1>q. QED BY <1>1, <1>2, <1>3 DEF Native

(* Any exporter is written.                                                *)
LEMMA ConfiguresIs ==
    ASSUME NEW a \in Native, NEW f, IsFile(OtelFile(a), f), NEW e \in Entry, Sound(e), NEW c, IsConfig(c)
    PROVE  LET o == Configure(a, f, e, c)
           IN  Handled(a, f, e, c, o) /\ Configured(a, f, e, c, o)
<1>1. CASE a = "claude"
  BY <1>1, ConfigureClaudeIs DEF Configure, OtelFile
<1>2. CASE a = "codex"
  BY <1>2, ConfigureCodexIs DEF Configure, OtelFile
<1>3. CASE a = "gemini"
  BY <1>3, ConfigureGeminiIs DEF Configure, OtelFile
<1>q. QED BY <1>1, <1>2, <1>3 DEF Native

(* What every operation on the hooks keeps: the keys, the user's handlers, *)
(* and the record of the exporter unless the agent is forgotten with it.   *)
Hooked(a, f, e, o) ==
    /\ o.ok \in BOOLEAN /\ IsFile(a, o.file) /\ o.entry \in Entry /\ Sound(o.entry)
    /\ o.file.env = f.env /\ o.file.helper = f.helper /\ o.file.private = f.private
    /\ \A event \in Events : "user" \in f.hooks[event] => "user" \in o.file.hooks[event]
    /\ (o.entry.owned = e.owned /\ o.entry.prior = e.prior) \/ (Forgets(a) /\ o.entry = Gone)

(* Our handlers are put beside the user's and taken from beside them.      *)
LEMMA HandlersKept ==
    ASSUME NEW hooks \in [Events -> SUBSET {"user", "ours"}],
           NEW g, g \in {RegisterOurHandlers(hooks), StripOurHandlers(hooks)}
    PROVE  /\ g \in [Events -> SUBSET {"user", "ours"}]
           /\ \A event \in Events : "user" \in hooks[event] => "user" \in g[event]
<1>1. CASE g = RegisterOurHandlers(hooks)
  BY <1>1 DEF RegisterOurHandlers, Ours
<1>2. CASE g = StripOurHandlers(hooks)
  BY <1>2 DEF StripOurHandlers, Ours
<1>q. QED BY <1>1, <1>2

(* Installing an agent's hooks.                                            *)
LEMMA InstallsHooks ==
    ASSUME NEW a, NEW f, IsFile(a, f), NEW e \in Entry, Sound(e)
    PROVE  LET o == InstallHooks(a, f, e)
           IN  /\ Hooked(a, f, e, o)
               /\ o.entry.owned = e.owned /\ o.entry.prior = e.prior
<1> DEFINE g == [[f EXCEPT !.hooks = RegisterOurHandlers(@)] EXCEPT !.state = "ok"]
           o == InstallHooks(a, f, e)
<1>1. CASE ~Readable(f)
  <2>1. o = Refuses(f, e)
    BY <1>1 DEF InstallHooks
  <2>q. QED BY <2>1 DEF Refuses, Hooked
<1>2. CASE Readable(f)
  <2>1. o.ok = TRUE /\ o.file = g /\ o.entry = WithHookInstall(e)
    BY <1>2 DEF InstallHooks, Written
  <2>2. /\ DOMAIN g = DOMAIN f /\ g = [x \in DOMAIN g |-> g[x]]
        /\ g.hooks = RegisterOurHandlers(f.hooks) /\ g.env = f.env
        /\ g.helper = f.helper /\ g.state = "ok" /\ g.private = f.private
    BY FileIs
  <2> HIDE DEF g, o
  <2>3. /\ g.hooks \in [Events -> SUBSET {"user", "ours"}]
        /\ \A event \in Events : "user" \in f.hooks[event] => "user" \in g.hooks[event]
    BY <2>2, FileIs, HandlersKept
  <2>4. IsFile(a, g)
    BY <2>2, <2>3, FileIs
  <2>5. o.entry \in Entry /\ Sound(o.entry) /\ o.entry.owned = e.owned /\ o.entry.prior = e.prior
    BY <2>1, HooksRecorded
  <2>6. o.ok
    BY <2>1, Zenon
  <2>7. o.file = g
    BY <2>1
  <2>q. QED BY <2>2, <2>3, <2>4, <2>5, <2>6, <2>7 DEF Hooked, o
<1>q. QED BY <1>1, <1>2

(* Removing them, with the record of an agent that is forgotten.           *)
LEMMA UninstallsHooks ==
    ASSUME NEW a, NEW f, IsFile(a, f), NEW e \in Entry, Sound(e)
    PROVE  LET o == UninstallHooks(a, f, e)
           IN  /\ Hooked(a, f, e, o)
               /\ Forgets(a) /\ o.entry.there => o.entry = e
               /\ ~Forgets(a) => o.entry.owned = e.owned /\ o.entry.prior = e.prior
<1> DEFINE g == [f EXCEPT !.hooks = StripOurHandlers(@)]
           forgotten == IF Forgets(a) THEN Gone ELSE e
           gone == f.state = "missing" \/ (~Forgets(a) /\ \A event \in Events : f.hooks[event] = {})
           entry == IF Forgets(a) THEN Gone ELSE WithoutHookInstall(e)
           o == UninstallHooks(a, f, e)
<1>1. CASE f.state = "invalid"
  <2>1. o = Refuses(f, e)
    BY <1>1 DEF UninstallHooks
  <2>q. QED BY <2>1 DEF Refuses, Hooked
<1>2. CASE f.state # "invalid" /\ gone
  <2>1. o = Same(f, forgotten)
    BY <1>2 DEF UninstallHooks
  <2>q. QED BY <2>1, GoneIs DEF Same, Hooked
<1>3. CASE f.state # "invalid" /\ ~gone
  <2>1. o = [ok |-> TRUE, file |-> g, entry |-> entry]
    BY <1>3 DEF UninstallHooks
  <2>2. /\ DOMAIN g = DOMAIN f /\ g = [x \in DOMAIN g |-> g[x]]
        /\ g.hooks = StripOurHandlers(f.hooks) /\ g.env = f.env
        /\ g.helper = f.helper /\ g.state = f.state /\ g.private = f.private
    BY FileIs
  <2> HIDE DEF g, o
  <2>3. /\ g.hooks \in [Events -> SUBSET {"user", "ours"}]
        /\ \A event \in Events : "user" \in f.hooks[event] => "user" \in g.hooks[event]
    BY <2>2, FileIs, HandlersKept
  <2>4. IsFile(a, g)
    BY <2>2, <2>3, FileIs
  <2>5. /\ entry \in Entry /\ Sound(entry)
        /\ ~Forgets(a) => entry.owned = e.owned /\ entry.prior = e.prior
        /\ Forgets(a) => entry = Gone
    BY GoneIs, HooksRecorded
  <2> HIDE DEF entry
  <2>6. o.file = g /\ o.entry = entry /\ o.ok = TRUE
    BY <2>1
  <2>7. o.ok
    BY <2>6, Zenon
  <2>q. QED BY <2>2, <2>3, <2>4, <2>5, <2>6, <2>7, GoneIs DEF Hooked, o
<1>q. QED BY <1>1, <1>2, <1>3

-----------------------------------------------------------------------------
(* Of a list with a member in a set, FirstIn is a member.                  *)
LEMMA FirstInIs ==
    ASSUME NEW S, NEW list \in Seq(S), NEW set, NEW i \in DOMAIN list, list[i] \in set
    PROVE  \E j \in DOMAIN list : FirstIn(list, set) = list[j] /\ list[j] \in set
<1> DEFINE I == {j \in DOMAIN list : list[j] \in set}
<1>1. DOMAIN list = 1..Len(list) /\ Len(list) \in Nat
  BY LenProperties
<1>2. I \subseteq Nat /\ I # {}
  BY <1>1
<1>3. IsWellFoundedOn({ss \in Nat \X Nat : ss[1] < ss[2]}, Nat)
  BY NatLessThanWellFounded DEF OpToRel
<1>4. PICK m \in I : \A j \in I : ~(<<j, m>> \in {ss \in Nat \X Nat : ss[1] < ss[2]})
  BY <1>2, <1>3, WFMin
<1>5. ASSUME NEW j \in I
      PROVE  m <= j
  <2>1. j \in Nat /\ m \in Nat
    BY <1>2
  <2>2. <<j, m>> \in Nat \X Nat /\ <<j, m>>[1] = j /\ <<j, m>>[2] = m
    BY <2>1
  <2>3. ~(j < m)
    BY <1>4, <2>2
  <2>q. QED BY <2>1, <2>3
<1>6. \E j \in DOMAIN list : list[j] \in set /\ \A k \in DOMAIN list : list[k] \in set => j <= k
  BY <1>5
<1>q. QED BY <1>6 DEF FirstIn

(* The agent a command is at is one it has still to do.                    *)
LEMMA NowIs ==
    ASSUME NEW S, S \subseteq Agents, S # {}
    PROVE  FirstIn(Order, S) \in S
<1>1. Order \in Seq(Files) /\ DOMAIN Order = 1..Len(Order)
  BY SetupAssumption, LenProperties
<1>2. \E i \in DOMAIN Order : Order[i] \in S
  BY <1>1 DEF Agents
<1>q. QED BY <1>1, <1>2, FirstInIs

-----------------------------------------------------------------------------
(* What setup and others make of config.json.                              *)

(* A root's destination, field by field.                                   *)
LEMMA IdentityIs ==
    ASSUME NEW i
    PROVE  i \in Identity <=>
            /\ DOMAIN i = {"urls", "token"} /\ i = [x \in DOMAIN i |-> i[x]]
            /\ i.urls \in [RootUrlFields -> Value] /\ i.token \in Value
BY DEF Identity

(* A destination moved to another endpoint keeps its fields.               *)
LEMMA Transits ==
    ASSUME NEW D, NEW urls \in [D -> Value], NEW previous, NEW endpoint \in Value
    PROVE  TransitionDestination(urls, previous, endpoint) \in [D -> Value]
<1>1. \A f \in D : (IF f = "endpoint" THEN endpoint
                    ELSE IF urls[f] = Refused \/ SameEndpoint(previous, endpoint) THEN urls[f] ELSE None) \in Value
  BY Values
<1>q. QED BY <1>1 DEF TransitionDestination

(* What setup starts from, of the machine or of a root.                    *)
LEMMA StoredIs ==
    ASSUME NEW base, IsConfig(base), NEW root \in Roots \union {NoRoot}
    PROVE  /\ Stored(base, root).urls \in [IF root = NoRoot THEN UrlFields ELSE RootUrlFields -> Value]
           /\ Stored(base, root).token \in Value
<1>1. [f \in RootUrlFields |-> None] \in [RootUrlFields -> Value] /\ None \in Value
  BY Values
<1>2. CASE root = NoRoot
  BY <1>2, ConfigIs DEF Stored
<1>3. CASE root # NoRoot /\ root \in DOMAIN base.roots
  <2>1. base.roots[root] \in Identity
    BY <1>3, ConfigIs
  <2>q. QED BY <1>3, <2>1 DEF Stored, Identity
<1>4. CASE root # NoRoot /\ root \notin DOMAIN base.roots
  BY <1>1, <1>4 DEF Stored, NoOverride
<1>q. QED BY <1>2, <1>3, <1>4

(* What enrollment changes of a configuration, and what it leaves alone.   *)
LEMMA EnrolledIs ==
    ASSUME NEW base, IsConfig(base), NEW opts, IsOption(opts)
    PROVE  LET new == Enrolled(base, opts)
               urls == TransitionDestination(Stored(base, opts.root).urls,
                                             Previous(base, opts.root), Endpoint(base, opts))
           IN  /\ IsConfig(new)
               /\ new.consent = base.consent /\ new.content = base.content
               /\ new.urls = (IF opts.root = NoRoot THEN urls ELSE base.urls)
               /\ DOMAIN new.roots = DOMAIN base.roots \union (IF opts.root = NoRoot THEN {} ELSE {opts.root})
               /\ \A r \in DOMAIN new.roots :
                     new.roots[r].urls = (IF r = opts.root THEN urls ELSE base.roots[r].urls)
<1> DEFINE urls == TransitionDestination(Stored(base, opts.root).urls,
                                         Previous(base, opts.root), Endpoint(base, opts))
           identity == [urls |-> urls, token |-> Token(base, opts)]
           roots == [r \in DOMAIN base.roots \union {opts.root} |->
                        IF r = opts.root THEN identity ELSE base.roots[r]]
           p == IF opts.root = NoRoot THEN [base EXCEPT !.urls = urls, !.token = identity.token]
                ELSE [base EXCEPT !.roots =
                        [r \in DOMAIN @ \union {opts.root} |-> IF r = opts.root THEN identity ELSE @[r]]]
           new == [p EXCEPT !.otel = IF opts.otel = None THEN @ ELSE opts.otel[1]]
<1>1. Enrolled(base, opts) = new
  BY DEF Enrolled
<1>2. opts.root \in Roots \union {NoRoot} /\ opts.endpoint \in Value /\ opts.token \in Value /\ NoRoot \notin Roots
  BY SetupAssumption DEF IsOption
<1>3. /\ Stored(base, opts.root).urls \in [IF opts.root = NoRoot THEN UrlFields ELSE RootUrlFields -> Value]
      /\ Stored(base, opts.root).token \in Value
  BY <1>2, StoredIs
<1>4. "endpoint" \in UrlFields /\ "endpoint" \in RootUrlFields
  BY DEF UrlFields, RootUrlFields
<1>5. base.urls \in [UrlFields -> Value] /\ base.token \in Value /\ base.urls.endpoint \in Value
  BY <1>4, ConfigIs
<1>6. Endpoint(base, opts) \in Value
  BY <1>2, <1>3, <1>4, <1>5 DEF Endpoint, Inherited
<1>7. Token(base, opts) \in Value
  BY <1>2, <1>5 DEF Token
<1>8. urls \in [IF opts.root = NoRoot THEN UrlFields ELSE RootUrlFields -> Value]
  BY <1>3, <1>6, Transits
<1> HIDE DEF urls
<1>9. identity.urls = urls /\ identity.token = Token(base, opts)
  OBVIOUS
<1>10. opts.root # NoRoot => identity \in Identity
  BY <1>7, <1>8 DEF Identity
<1> HIDE DEF identity
<1>11. opts.root # NoRoot => roots \in [DOMAIN base.roots \union {opts.root} -> Identity]
  BY <1>10, ConfigIs
<1>12. \A r \in DOMAIN roots : roots[r] = IF r = opts.root THEN identity ELSE base.roots[r]
  OBVIOUS
<1> HIDE DEF roots
<1>13. /\ DOMAIN p = DOMAIN base /\ p = [x \in DOMAIN p |-> p[x]]
       /\ p.urls = (IF opts.root = NoRoot THEN urls ELSE base.urls) /\ p.token \in Value
       /\ p.roots = (IF opts.root = NoRoot THEN base.roots ELSE roots)
       /\ p.consent = base.consent /\ p.content = base.content /\ p.git = base.git /\ p.otel = base.otel
  <2>1. CASE opts.root = NoRoot
    BY <1>5, <1>7, <1>9, <2>1, ConfigIs
  <2>2. CASE opts.root # NoRoot
    BY <1>5, <2>2, ConfigIs DEF roots
  <2>q. QED BY <2>1, <2>2
<1> HIDE DEF p
<1>14. base.otel \subseteq {"logs", "traces", "metrics"}
       /\ (opts.otel # None => opts.otel[1] \subseteq {"logs", "traces", "metrics"})
  BY ConfigIs DEF IsOption
<1>15. /\ DOMAIN new = DOMAIN base /\ new = [x \in DOMAIN new |-> new[x]]
       /\ new.urls = p.urls /\ new.token = p.token /\ new.roots = p.roots /\ new.consent = base.consent
       /\ new.content = base.content /\ new.git = base.git /\ new.otel \subseteq {"logs", "traces", "metrics"}
  BY <1>13, <1>14, ConfigIs
<1> HIDE DEF new
<1>16. DOMAIN new.roots \subseteq Roots /\ new.roots \in [DOMAIN new.roots -> Identity]
  <2>1. CASE opts.root = NoRoot
    BY <1>13, <1>15, <2>1, ConfigIs
  <2>2. CASE opts.root # NoRoot
    BY <1>2, <1>11, <1>13, <1>15, <2>2, ConfigIs
  <2>q. QED BY <2>1, <2>2
<1>17. IsConfig(new)
  <2>1. new.urls \in [UrlFields -> Value]
    BY <1>5, <1>8, <1>13, <1>15
  <2>q. QED BY <1>13, <1>15, <1>16, <2>1, ConfigIs
<1>18. /\ DOMAIN new.roots = DOMAIN base.roots \union (IF opts.root = NoRoot THEN {} ELSE {opts.root})
       /\ \A r \in DOMAIN new.roots : new.roots[r].urls = (IF r = opts.root THEN urls ELSE base.roots[r].urls)
  <2>1. CASE opts.root = NoRoot
    BY <1>2, <1>13, <1>15, <2>1, ConfigIs
  <2>2. CASE opts.root # NoRoot
    BY <1>9, <1>11, <1>12, <1>13, <1>15, <2>2
  <2>q. QED BY <2>1, <2>2
<1>q. QED BY <1>1, <1>13, <1>15, <1>17, <1>18 DEF urls

(* Putting back what the file refused keeps the fields.                    *)
LEMMA RefusedKept ==
    ASSUME NEW D, NEW urls \in [D -> Value], NEW raw \in [D -> Value]
    PROVE  RefusedFrom(raw, urls) \in [D -> Value]
BY DEF RefusedFrom

(* What saveConfig writes, by what the file held.                          *)
LEMMA SavedIs ==
    ASSUME IsConfig(file.raw), NEW config, IsConfig(config)
    PROVE  LET new == SaveConfig(config)
           IN  /\ IsStored(new) /\ new.state = "ok"
               /\ file.state # "ok" => new.raw = config
               /\ file.state = "ok" =>
                    /\ new.raw.content = file.raw.content /\ new.raw.consent = config.consent
                    /\ new.raw.urls = RefusedFrom(file.raw.urls, config.urls)
                    /\ DOMAIN new.raw.roots = DOMAIN config.roots
                    /\ \A r \in DOMAIN config.roots :
                         new.raw.roots[r].urls = IF r \in DOMAIN file.raw.roots
                                                 THEN RefusedFrom(file.raw.roots[r].urls, config.roots[r].urls)
                                                 ELSE config.roots[r].urls
<1> DEFINE raw == file.raw
           Root(r) == IF r \in DOMAIN raw.roots
                      THEN [config.roots[r] EXCEPT !.urls = RefusedFrom(raw.roots[r].urls, @)]
                      ELSE config.roots[r]
           roots == [r \in DOMAIN config.roots |-> Root(r)]
           kept == [config EXCEPT !.content = raw.content,
                                  !.urls = RefusedFrom(raw.urls, @),
                                  !.roots = [r \in DOMAIN @ |-> Root(r)]]
           new == SaveConfig(config)
<1>1. new = [state |-> "ok", raw |-> IF file.state # "ok" THEN config ELSE kept]
  BY DEF SaveConfig
<1>2. ASSUME NEW r \in DOMAIN config.roots
      PROVE  /\ Root(r) \in Identity
             /\ Root(r).urls = IF r \in DOMAIN raw.roots
                               THEN RefusedFrom(raw.roots[r].urls, config.roots[r].urls) ELSE config.roots[r].urls
  <2>1. config.roots[r] \in Identity /\ (r \in DOMAIN raw.roots => raw.roots[r] \in Identity)
    BY ConfigIs
  <2>2. CASE r \notin DOMAIN raw.roots
    BY <2>1, <2>2
  <2>3. CASE r \in DOMAIN raw.roots
    <3>1. RefusedFrom(raw.roots[r].urls, config.roots[r].urls) \in [RootUrlFields -> Value]
      BY <2>1, <2>3, IdentityIs, RefusedKept
    <3>2. Root(r) = [config.roots[r] EXCEPT !.urls = RefusedFrom(raw.roots[r].urls, @)]
      BY <2>3
    <3> HIDE DEF Root
    <3>q. QED BY <2>1, <2>3, <3>1, <3>2 DEF Identity
  <2>q. QED BY <2>2, <2>3
<1> HIDE DEF Root
<1>3. roots \in [DOMAIN config.roots -> Identity] /\ \A r \in DOMAIN config.roots : roots[r] = Root(r)
  BY <1>2
<1> HIDE DEF roots
<1>4. RefusedFrom(raw.urls, config.urls) \in [UrlFields -> Value]
  BY ConfigIs, RefusedKept
<1>5. /\ DOMAIN kept = DOMAIN config /\ kept = [x \in DOMAIN kept |-> kept[x]]
      /\ kept.urls = RefusedFrom(raw.urls, config.urls) /\ kept.token = config.token /\ kept.roots = roots
      /\ kept.content = raw.content /\ kept.consent = config.consent
      /\ kept.git = config.git /\ kept.otel = config.otel
  BY ConfigIs DEF roots
<1> HIDE DEF kept
<1>6. IsConfig(kept)
  BY <1>3, <1>4, <1>5, ConfigIs
<1>7. new.state = "ok" /\ new.raw = (IF file.state # "ok" THEN config ELSE kept)
  BY <1>1
<1>8. IsStored(new)
  BY <1>1, <1>6, <1>7 DEF IsStored
<1> HIDE DEF new
<1>9. file.state = "ok" =>
                    /\ new.raw.content = file.raw.content /\ new.raw.consent = config.consent
                    /\ new.raw.urls = RefusedFrom(file.raw.urls, config.urls)
                    /\ DOMAIN new.raw.roots = DOMAIN config.roots
                    /\ \A r \in DOMAIN config.roots :
                         new.raw.roots[r].urls = IF r \in DOMAIN file.raw.roots
                                                 THEN RefusedFrom(file.raw.roots[r].urls, config.roots[r].urls)
                                                 ELSE config.roots[r].urls
  BY <1>2, <1>3, <1>5, <1>7
<1>q. QED BY <1>7, <1>8, <1>9 DEF new

(* What a user writes by hand is a configuration.                          *)
LEMMA ByHandIs ==
    ASSUME IsConfig(file.raw), NEW new \in ByHand
    PROVE  IsConfig(new)
<1> DEFINE raw == file.raw
<1>1. raw.urls \in [UrlFields -> Value] /\ DOMAIN raw = {"urls", "token", "roots", "consent", "content", "git", "otel"}
      /\ raw = [f \in DOMAIN raw |-> raw[f]]
  BY ConfigIs
<1>2. ASSUME NEW urls \in [UrlFields -> Value], new = [raw EXCEPT !.urls = urls]
      PROVE  IsConfig(new)
  <2>1. /\ DOMAIN new = DOMAIN raw /\ new = [x \in DOMAIN new |-> new[x]] /\ new.urls = urls
        /\ new.token = raw.token /\ new.roots = raw.roots /\ new.consent = raw.consent
        /\ new.content = raw.content /\ new.git = raw.git /\ new.otel = raw.otel
    BY <1>1, <1>2
  <2>q. QED BY <2>1, ConfigIs
<1>3. \A f, u : u \in Value => [raw.urls EXCEPT ![f] = u] \in [UrlFields -> Value]
  BY <1>1
<1>4. ASSUME NEW f \in UrlFields, NEW u \in Value, new = [raw EXCEPT !.urls[f] = u]
      PROVE  IsConfig(new)
  <2> DEFINE urls == [raw.urls EXCEPT ![f] = u]
  <2>1. urls \in [UrlFields -> Value] /\ new = [raw EXCEPT !.urls = urls]
    BY <1>3, <1>4
  <2>q. QED BY <1>2, <2>1
<1>5. ASSUME NEW flag \in BOOLEAN,
             new = [raw EXCEPT !.consent = flag] \/ new = [raw EXCEPT !.content = flag]
      PROVE  IsConfig(new)
  <2>1. /\ DOMAIN new = DOMAIN raw /\ new = [x \in DOMAIN new |-> new[x]] /\ new.urls = raw.urls
        /\ new.token = raw.token /\ new.roots = raw.roots /\ new.git = raw.git /\ new.otel = raw.otel
    BY <1>1, <1>5
  <2>2. new.consent \in BOOLEAN /\ new.content \in BOOLEAN
    BY <1>1, <1>5, ConfigIs
  <2>q. QED BY <2>1, <2>2, ConfigIs
<1>6. ASSUME NEW r \in DOMAIN raw.roots, NEW f \in RootUrlFields, NEW u \in Value,
             new = [raw EXCEPT !.roots[r].urls[f] = u]
      PROVE  IsConfig(new)
  <2> DEFINE urls == [raw.roots[r].urls EXCEPT ![f] = u]
             root == [raw.roots[r] EXCEPT !.urls = urls]
             roots == [raw.roots EXCEPT ![r] = root]
  <2>1. raw.roots[r] \in Identity /\ raw.roots \in [DOMAIN raw.roots -> Identity] /\ DOMAIN raw.roots \subseteq Roots
    BY ConfigIs
  <2>2. urls \in [RootUrlFields -> Value]
    BY <2>1, IdentityIs
  <2>3. new = [raw EXCEPT !.roots = roots]
    BY <1>6
  <2> HIDE DEF urls
  <2>4. root \in Identity
    BY <2>1, <2>2 DEF Identity
  <2> HIDE DEF root
  <2>5. roots \in [DOMAIN raw.roots -> Identity]
    BY <2>1, <2>4
  <2> HIDE DEF roots
  <2>6. /\ DOMAIN new = DOMAIN raw /\ new = [x \in DOMAIN new |-> new[x]] /\ new.urls = raw.urls
        /\ new.token = raw.token /\ new.roots = roots /\ new.consent = raw.consent
        /\ new.content = raw.content /\ new.git = raw.git /\ new.otel = raw.otel
    BY <1>1, <2>3
  <2>7. DOMAIN new.roots \subseteq Roots /\ new.roots \in [DOMAIN new.roots -> Identity]
    BY <2>1, <2>5, <2>6
  <2>q. QED BY <2>6, <2>7, ConfigIs
<1>7. None \in Value /\ Bad \in Value /\ <<"route">> \in Value
  <2>1. <<"route">> \in Seq(Words)
    BY SetupAssumption
  <2>q. QED BY <2>1, Values DEF Value
<1>8. "endpoint" \in UrlFields /\ "eventsUrl" \in UrlFields /\ "otlpUrl" \in UrlFields /\ "enforcementUrl" \in UrlFields
  BY DEF UrlFields, RootUrlFields
<1> DEFINE some == {[raw EXCEPT !.consent = ~@], [raw EXCEPT !.content = ~@],
                     [raw EXCEPT !.urls.endpoint = Bad], [raw EXCEPT !.urls.eventsUrl = Bad],
                     [raw EXCEPT !.urls.otlpUrl = <<"route">>], [raw EXCEPT !.urls.enforcementUrl = <<"route">>]}
           routed == {[raw EXCEPT !.roots[r].urls[f] = u] :
                        r \in DOMAIN raw.roots, f \in RootUrlFields, u \in {None, Bad, <<"route">>}}
<1>9. ByHand = some \union routed
  BY DEF ByHand
<1>10. \/ new \in {[raw EXCEPT !.consent = ~@], [raw EXCEPT !.content = ~@]}
       \/ new \in {[raw EXCEPT !.urls.endpoint = Bad], [raw EXCEPT !.urls.eventsUrl = Bad],
                   [raw EXCEPT !.urls.otlpUrl = <<"route">>], [raw EXCEPT !.urls.enforcementUrl = <<"route">>]}
       \/ \E r \in DOMAIN raw.roots, f \in RootUrlFields, u \in {None, Bad, <<"route">>} :
            new = [raw EXCEPT !.roots[r].urls[f] = u]
  <2>1. CASE new \in some
    BY <2>1
  <2>2. CASE new \in routed
    BY <2>2
  <2> HIDE DEF some, routed
  <2>q. QED BY <1>9, <2>1, <2>2
<1>11. CASE new \in {[raw EXCEPT !.consent = ~@], [raw EXCEPT !.content = ~@]}
  <2>1. CASE new = [raw EXCEPT !.consent = ~@]
    <3> DEFINE flag == ~raw.consent
    <3>1. flag \in BOOLEAN /\ new = [raw EXCEPT !.consent = flag]
      BY <2>1
    <3> HIDE DEF flag
    <3>q. QED BY <1>5, <3>1
  <2>2. CASE new = [raw EXCEPT !.content = ~@]
    <3> DEFINE flag == ~raw.content
    <3>1. flag \in BOOLEAN /\ new = [raw EXCEPT !.content = flag]
      BY <2>2
    <3> HIDE DEF flag
    <3>q. QED BY <1>5, <3>1
  <2>q. QED BY <1>11, <2>1, <2>2
<1>12. CASE new \in {[raw EXCEPT !.urls.endpoint = Bad], [raw EXCEPT !.urls.eventsUrl = Bad],
                     [raw EXCEPT !.urls.otlpUrl = <<"route">>], [raw EXCEPT !.urls.enforcementUrl = <<"route">>]}
  <2>1. \E f \in UrlFields, u \in Value : new = [raw EXCEPT !.urls[f] = u]
    BY <1>7, <1>8, <1>12
  <2>q. QED BY <1>4, <2>1
<1>13. CASE \E r \in DOMAIN raw.roots, f \in RootUrlFields, u \in {None, Bad, <<"route">>} :
            new = [raw EXCEPT !.roots[r].urls[f] = u]
  BY <1>6, <1>7, <1>13
<1>q. QED BY <1>10, <1>11, <1>12, <1>13

-----------------------------------------------------------------------------
(* Commands: what the actions make of them.                                *)

(* A command, field by field.                                              *)
LEMMA CommandIs ==
    ASSUME NEW c
    PROVE  IsCommand(c) <=>
            /\ DOMAIN c = {"name", "pc", "todo", "held", "failed", "ok", "restored", "config", "purge"}
            /\ c = [x \in DOMAIN c |-> c[x]]
            /\ c.name \in {"idle", "setup", "uninstall", "off", "on"}
            /\ c.pc \in {"done", "hooks", "otel", "save"}
            /\ c.todo \subseteq Agents /\ c.restored \subseteq Agents \intersect Native
            /\ c.failed \in BOOLEAN /\ c.ok \in BOOLEAN /\ c.purge \in BOOLEAN
BY DEF IsCommand

(* The agents with an exporter are agents, and agents have files.          *)
LEMMA NativeIs == Native \subseteq Agents /\ "codex.toml" \notin Agents /\ Agents \subseteq Files
BY SetupAssumption DEF Native, Files

(* An empty install state is one.                                          *)
LEMMA NoRecordIs == IsRecord(NoRecord)
BY GoneIs DEF NoRecord, IsRecord

(* No command is running.                                                  *)
LEMMA IdleIs ==
    /\ IsCommand(Idle) /\ Placed(Idle) /\ IsRecord(Idle.held) /\ IsConfig(Idle.config)
    /\ Idle.name = "idle" /\ Idle.pc = "done" /\ Idle.todo = {} /\ Idle.restored = {}
BY NoRecordIs, DefaultIsConfig DEF Idle, IsCommand, Placed

(* One file is replaced, the others stay.                                  *)
LEMMA FilesKept ==
    ASSUME AreFiles(settings), NEW path \in Files, NEW f, IsFile(path, f),
           settings' = [settings EXCEPT ![path] = f]
    PROVE  /\ AreFiles(settings') /\ settings'[path] = f
           /\ \A other \in Files : other # path => settings'[other] = settings[other]
BY DEF AreFiles

(* A command begins with the record on disk.                               *)
LEMMA BeginIs ==
    ASSUME TypeOK, NEW name \in {"setup", "uninstall", "off", "on"}, NEW todo \in SUBSET Agents,
           NEW config, IsConfig(config), NEW purge \in BOOLEAN,
           name \in {"off", "on"} => todo \subseteq Native,
           Begin(name, todo, config, purge)
    PROVE  /\ IsCommand(cmd') /\ Placed(cmd') /\ IsRecord(cmd'.held) /\ IsConfig(cmd'.config)
           /\ cmd.name = "idle" /\ cmd'.name = name /\ cmd'.held = state /\ cmd'.todo = todo
           /\ cmd'.pc = (IF name \in {"setup", "uninstall"} THEN "hooks" ELSE "otel")
           /\ cmd'.failed = FALSE /\ cmd'.restored = {} /\ cmd'.config = config
<1>1. /\ DOMAIN cmd' = DOMAIN Idle /\ cmd' = [x \in DOMAIN cmd' |-> cmd'[x]]
      /\ cmd'.name = name /\ cmd'.held = state /\ cmd'.todo = todo /\ cmd'.purge = purge
      /\ cmd'.pc = (IF name \in {"setup", "uninstall"} THEN "hooks" ELSE "otel")
      /\ cmd'.failed = FALSE /\ cmd'.ok = TRUE /\ cmd'.restored = {} /\ cmd'.config = config
  BY DEF Begin, Idle
<1>2. DOMAIN Idle = {"name", "pc", "todo", "held", "failed", "ok", "restored", "config", "purge"}
  BY DEF Idle
<1>3. IsCommand(cmd')
  BY <1>1, <1>2, CommandIs
<1>4. Placed(cmd')
  BY <1>1 DEF Placed
<1>q. QED BY <1>1, <1>3, <1>4, IdleIs DEF Begin, TypeOK

(* A command that handed a file and a record to an operation and went on.  *)
Moved(c, a, o, pc, todo, new) ==
    /\ IsCommand(new) /\ IsRecord(new.held)
    /\ new.name = c.name /\ new.pc = pc /\ new.todo = todo
    /\ new.held = [c.held EXCEPT ![a] = o.entry]
    /\ (new.failed <=> c.failed \/ ~o.ok) /\ new.ok = o.ok
    /\ new.restored = c.restored /\ new.config = c.config /\ new.purge = c.purge

(* One entry of a record is replaced.                                      *)
LEMMA HeldKept ==
    ASSUME NEW held, IsRecord(held), NEW a \in Agents, NEW e \in Entry, Sound(e)
    PROVE  IsRecord([held EXCEPT ![a] = e])
BY DEF IsRecord

(* A command takes an outcome along and moves on.                          *)
LEMMA MovedIs ==
    ASSUME NEW c, IsCommand(c), IsRecord(c.held), NEW a \in Agents,
           NEW o, NEW ok \in BOOLEAN, o.ok = ok, o.entry \in Entry, Sound(o.entry),
           NEW pc \in {"hooks", "otel", "save"}, NEW todo \in SUBSET Agents,
           NEW failed \in BOOLEAN, failed <=> c.failed \/ ~o.ok,
           NEW new, new = [[c EXCEPT !.pc = pc, !.todo = todo]
                              EXCEPT !.held[a] = o.entry, !.failed = failed, !.ok = o.ok]
    PROVE  Moved(c, a, o, pc, todo, new)
<1> DEFINE next == [c EXCEPT !.pc = pc, !.todo = todo]
<1>1. /\ DOMAIN next = DOMAIN c /\ next = [x \in DOMAIN next |-> next[x]]
      /\ next.name = c.name /\ next.pc = pc /\ next.todo = todo /\ next.held = c.held
      /\ next.failed = c.failed /\ next.restored = c.restored /\ next.config = c.config
      /\ next.purge = c.purge
      /\ DOMAIN next = {"name", "pc", "todo", "held", "failed", "ok", "restored", "config", "purge"}
  BY CommandIs
<1> DEFINE held == [next.held EXCEPT ![a] = o.entry]
<1>2. new = [next EXCEPT !.held = held, !.failed = failed, !.ok = o.ok]
  OBVIOUS
<1>3. held = [c.held EXCEPT ![a] = o.entry]
  BY <1>1
<1> HIDE DEF held
<1>5. DOMAIN new = DOMAIN c /\ new = [x \in DOMAIN new |-> new[x]]
  BY <1>1, <1>2
<1>6. new.held = held /\ new.failed = failed /\ new.ok = o.ok
  BY <1>1, <1>2
<1>7. /\ new.name = c.name /\ new.pc = pc /\ new.todo = todo
      /\ new.restored = c.restored /\ new.config = c.config /\ new.purge = c.purge
  BY <1>1, <1>2
<1>8. IsCommand(new)
  BY <1>5, <1>6, <1>7, CommandIs
<1>9. IsRecord(held)
  BY <1>3, HeldKept
<1>q. QED BY <1>3, <1>6, <1>7, <1>8, <1>9 DEF Moved

(* The hooks of one agent, by setup or uninstall.                          *)
LEMMA HooksIs ==
    ASSUME TypeOK, Hooks
    PROVE  /\ Now \in cmd.todo /\ Now \in Agents /\ cmd.pc = "hooks" /\ cmd.name \in {"setup", "uninstall"}
           /\ \E o : /\ Hooked(Now, settings[Now], cmd.held[Now], o)
                     /\ cmd.name = "setup" => /\ o.entry.owned = cmd.held[Now].owned
                                              /\ o.entry.prior = cmd.held[Now].prior
                     /\ Forgets(Now) /\ o.entry.there => o.entry = cmd.held[Now] \/ cmd.name = "setup"
                     /\ ~Forgets(Now) => /\ o.entry.owned = cmd.held[Now].owned
                                         /\ o.entry.prior = cmd.held[Now].prior
                     /\ settings' = [settings EXCEPT ![Now] = o.file]
                     /\ IF Now \in Native THEN Moved(cmd, Now, o, "otel", cmd.todo, cmd')
                        ELSE Moved(cmd, Now, o, "hooks", cmd.todo \ {Now}, cmd')
<1> DEFINE o == IF cmd.name = "setup" THEN InstallHooks(Now, settings[Now], cmd.held[Now])
                ELSE UninstallHooks(Now, settings[Now], cmd.held[Now])
<1>1. IsCommand(cmd) /\ Placed(cmd) /\ IsRecord(cmd.held) /\ AreFiles(settings)
  BY DEF TypeOK
<1>2. cmd.pc = "hooks" /\ cmd.todo # {} /\ cmd.name \in {"setup", "uninstall"}
  BY <1>1, CommandIs DEF Hooks, Placed
<1>3. Now \in cmd.todo /\ Now \in Agents /\ Now \in Files
  BY <1>1, <1>2, NowIs, NativeIs, CommandIs DEF Now
<1>4. IsFile(Now, settings[Now]) /\ cmd.held[Now] \in Entry /\ Sound(cmd.held[Now])
  BY <1>1, <1>3 DEF AreFiles, IsRecord
<1>5. /\ Hooked(Now, settings[Now], cmd.held[Now], o)
      /\ cmd.name = "setup" => o.entry.owned = cmd.held[Now].owned /\ o.entry.prior = cmd.held[Now].prior
      /\ Forgets(Now) /\ o.entry.there => o.entry = cmd.held[Now] \/ cmd.name = "setup"
      /\ ~Forgets(Now) => o.entry.owned = cmd.held[Now].owned /\ o.entry.prior = cmd.held[Now].prior
  BY <1>4, InstallsHooks, UninstallsHooks
<1>6. Took(Now, o, IF Now \in Native THEN [cmd EXCEPT !.pc = "otel"] ELSE Onward)
  BY DEF Hooks
<1> HIDE DEF o
<1>7. o.ok \in BOOLEAN /\ o.entry \in Entry /\ Sound(o.entry)
  BY <1>5 DEF Hooked
<1>8. cmd.todo \in SUBSET Agents /\ cmd.todo \ {Now} \in SUBSET Agents
  BY <1>1, CommandIs
<1>9. ASSUME Now \in Native
      PROVE  Moved(cmd, Now, o, "otel", cmd.todo, cmd')
  <2>1. [cmd EXCEPT !.pc = "otel", !.todo = cmd.todo] = [cmd EXCEPT !.pc = "otel"]
    BY <1>1, CommandIs
  <2>2. cmd' = [[cmd EXCEPT !.pc = "otel", !.todo = cmd.todo]
                    EXCEPT !.held[Now] = o.entry, !.failed = @ \/ ~o.ok, !.ok = o.ok]
    BY <1>6, <1>9, <2>1 DEF Took
  <2>q. QED BY <1>1, <1>3, <1>7, <1>8, <2>2, MovedIs
<1>10. ASSUME Now \notin Native
       PROVE  Moved(cmd, Now, o, "hooks", cmd.todo \ {Now}, cmd')
  <2>1. [cmd EXCEPT !.pc = "hooks", !.todo = cmd.todo \ {Now}] = Onward
    BY DEF Onward
  <2>2. cmd' = [[cmd EXCEPT !.pc = "hooks", !.todo = cmd.todo \ {Now}]
                    EXCEPT !.held[Now] = o.entry, !.failed = @ \/ ~o.ok, !.ok = o.ok]
    BY <1>6, <1>10, <2>1 DEF Took
  <2>q. QED BY <1>1, <1>3, <1>7, <1>8, <2>2, MovedIs
<1>11. settings' = [settings EXCEPT ![Now] = o.file]
  BY <1>6 DEF Took
<1>q. QED BY <1>2, <1>3, <1>5, <1>9, <1>10, <1>11

(* An exporter's settings are in one of the files.                         *)
LEMMA OtelFileIs == \A a \in Native : OtelFile(a) \in Files
BY DEF Native, OtelFile, Files

(* The exporter of one agent, by setup or uninstall.                       *)
LEMMA ExporterIs ==
    ASSUME TypeOK, Exporter
    PROVE  /\ Now \in cmd.todo /\ Now \in Native /\ cmd.pc = "otel" /\ cmd.name \in {"setup", "uninstall"}
           /\ \E o : /\ Handled(Now, settings[OtelFile(Now)], cmd.held[Now], cmd.config, o)
                     /\ cmd.name = "setup" =>
                            Configured(Now, settings[OtelFile(Now)], cmd.held[Now], cmd.config, o)
                     /\ cmd.name = "uninstall" =>
                            Removed(Now, settings[OtelFile(Now)], cmd.held[Now], o)
                     /\ settings' = [settings EXCEPT ![OtelFile(Now)] = o.file]
                     /\ Moved(cmd, Now, o, "hooks", cmd.todo \ {Now}, cmd')
                     /\ lost' = (lost \/ (cmd.name = "uninstall" /\ Forgets(Now) /\ ~cmd.held[Now].there /\ ~o.ok))
<1> DEFINE f == settings[OtelFile(Now)]
           o == IF cmd.name = "setup" THEN Configure(Now, f, cmd.held[Now], cmd.config)
                ELSE UninstallOtel(Now, f, cmd.held[Now], cmd.config)
<1>1. IsCommand(cmd) /\ Placed(cmd) /\ IsRecord(cmd.held) /\ AreFiles(settings) /\ IsConfig(cmd.config)
  BY DEF TypeOK
<1>2. cmd.pc = "otel" /\ cmd.todo # {} /\ cmd.name \in {"setup", "uninstall"}
  BY DEF Exporter
<1>3. Now \in cmd.todo /\ Now \in Agents
  BY <1>1, <1>2, NowIs, CommandIs DEF Now
<1>4. Now \in Native
  BY <1>1, <1>2 DEF Now, Placed
<1>5. IsFile(OtelFile(Now), f) /\ cmd.held[Now] \in Entry /\ Sound(cmd.held[Now])
  BY <1>1, <1>3, <1>4, OtelFileIs DEF AreFiles, IsRecord
<1>6. /\ Handled(Now, f, cmd.held[Now], cmd.config, o)
      /\ cmd.name = "setup" => Configured(Now, f, cmd.held[Now], cmd.config, o)
      /\ cmd.name = "uninstall" => Removed(Now, f, cmd.held[Now], o)
  BY <1>1, <1>4, <1>5, ConfiguresIs, RemovesIs
<1>7. /\ settings' = [settings EXCEPT ![OtelFile(Now)] = o.file]
      /\ cmd' = [Onward EXCEPT !.held[Now] = o.entry, !.failed = @ \/ ~o.ok, !.ok = o.ok]
      /\ lost' = (lost \/ (cmd.name = "uninstall" /\ Forgets(Now) /\ ~cmd.held[Now].there /\ ~o.ok))
  BY DEF Exporter, Took
<1> HIDE DEF o, f
<1>8. o.ok \in BOOLEAN /\ o.entry \in Entry /\ Sound(o.entry)
  BY <1>6 DEF Handled
<1>9. cmd.todo \ {Now} \in SUBSET Agents
  BY <1>1, CommandIs
<1>10. Moved(cmd, Now, o, "hooks", cmd.todo \ {Now}, cmd')
  <2>1. [cmd EXCEPT !.pc = "hooks", !.todo = cmd.todo \ {Now}] = Onward
    BY DEF Onward
  <2>2. cmd' = [[cmd EXCEPT !.pc = "hooks", !.todo = cmd.todo \ {Now}]
                    EXCEPT !.held[Now] = o.entry, !.failed = @ \/ ~o.ok, !.ok = o.ok]
    BY <1>7, <2>1
  <2>q. QED BY <1>1, <1>3, <1>8, <1>9, <2>2, MovedIs
<1>q. QED BY <1>2, <1>3, <1>4, <1>6, <1>7, <1>10 DEF f

(* The exporter of one agent, by off or on.                                *)
LEMMA SwitchIs ==
    ASSUME TypeOK, Switch
    PROVE  /\ Now \in cmd.todo /\ Now \in Native /\ cmd.pc = "otel" /\ cmd.name \in {"off", "on"}
           /\ \/ /\ cmd.name = "on" /\ ~HooksInstalled(settings[Now])
                 /\ cmd' = [cmd EXCEPT !.todo = @ \ {Now}] /\ settings' = settings
              \/ \E o : /\ Handled(Now, settings[OtelFile(Now)], cmd.held[Now], cmd.config, o)
                        /\ cmd.name = "on" =>
                               Configured(Now, settings[OtelFile(Now)], cmd.held[Now], cmd.config, o)
                        /\ cmd.name = "off" =>
                               Removed(Now, settings[OtelFile(Now)], cmd.held[Now], o)
                        /\ settings' = [settings EXCEPT ![OtelFile(Now)] = o.file]
                        /\ Moved(cmd, Now, o, "save", cmd.todo, cmd')
<1> DEFINE f == settings[OtelFile(Now)]
           o == IF cmd.name = "on" THEN Configure(Now, f, cmd.held[Now], cmd.config)
                ELSE UninstallOtel(Now, f, cmd.held[Now], cmd.config)
<1>1. IsCommand(cmd) /\ Placed(cmd) /\ IsRecord(cmd.held) /\ AreFiles(settings) /\ IsConfig(cmd.config)
  BY DEF TypeOK
<1>2. cmd.pc = "otel" /\ cmd.todo # {} /\ cmd.name \in {"off", "on"}
  BY DEF Switch
<1>3. Now \in cmd.todo /\ Now \in Agents
  BY <1>1, <1>2, NowIs, CommandIs DEF Now
<1>4. Now \in Native
  BY <1>1, <1>2, <1>3 DEF Placed
<1>5. IsFile(OtelFile(Now), f) /\ cmd.held[Now] \in Entry /\ Sound(cmd.held[Now])
  BY <1>1, <1>3, <1>4, OtelFileIs DEF AreFiles, IsRecord
<1>6. /\ Handled(Now, f, cmd.held[Now], cmd.config, o)
      /\ cmd.name = "on" => Configured(Now, f, cmd.held[Now], cmd.config, o)
      /\ cmd.name = "off" => Removed(Now, f, cmd.held[Now], o)
  BY <1>1, <1>4, <1>5, ConfiguresIs, RemovesIs
<1>7. CASE SkippedByOn
  BY <1>2, <1>3, <1>4, <1>7 DEF Switch, SkippedByOn
<1>8. CASE ~SkippedByOn
  <2>1. /\ settings' = [settings EXCEPT ![OtelFile(Now)] = o.file]
        /\ cmd' = [[cmd EXCEPT !.pc = "save"] EXCEPT !.held[Now] = o.entry, !.failed = @ \/ ~o.ok, !.ok = o.ok]
    BY <1>8 DEF Switch, Took
  <2> HIDE DEF o, f
  <2>2. o.ok \in BOOLEAN /\ o.entry \in Entry /\ Sound(o.entry)
    BY <1>6 DEF Handled
  <2>3. cmd.todo \in SUBSET Agents
    BY <1>1, CommandIs
  <2>4. [cmd EXCEPT !.pc = "save", !.todo = cmd.todo] = [cmd EXCEPT !.pc = "save"]
    BY <1>1, CommandIs
  <2>5. cmd' = [[cmd EXCEPT !.pc = "save", !.todo = cmd.todo]
                    EXCEPT !.held[Now] = o.entry, !.failed = @ \/ ~o.ok, !.ok = o.ok]
    BY <2>1, <2>4
  <2>6. Moved(cmd, Now, o, "save", cmd.todo, cmd')
    BY <1>1, <1>3, <2>2, <2>3, <2>5, MovedIs
  <2>q. QED BY <1>2, <1>3, <1>4, <1>6, <2>1, <2>6 DEF f
<1>q. QED BY <1>7, <1>8

(* A failed on, after what it restored.                                    *)
Restored == FirstIn(Order, cmd.restored)

(* A failed on takes one exporter back.                                    *)
LEMMA RollBackIs ==
    ASSUME TypeOK, RollBack, cmd.restored # {}
    PROVE  /\ Restored \in cmd.restored /\ Restored \in Native
           /\ \E o : /\ Handled(Restored, settings[OtelFile(Restored)], cmd.held[Restored], cmd.config, o)
                     /\ Removed(Restored, settings[OtelFile(Restored)], cmd.held[Restored], o)
                     /\ settings' = [settings EXCEPT ![OtelFile(Restored)] = o.file]
                     /\ cmd' = [cmd EXCEPT !.restored = @ \ {Restored}, !.held[Restored] = o.entry]
                     /\ state' = [cmd.held EXCEPT ![Restored] = o.entry]
                     /\ clean' = (clean /\ o.ok) /\ lost' = lost
<1> DEFINE f == settings[OtelFile(Restored)]
           o == UninstallOtel(Restored, f, cmd.held[Restored], cmd.config)
<1>1. IsCommand(cmd) /\ IsRecord(cmd.held) /\ AreFiles(settings) /\ IsConfig(cmd.config)
  BY DEF TypeOK
<1>2. Restored \in cmd.restored /\ Restored \in Native /\ Restored \in Agents
  BY <1>1, NowIs, CommandIs DEF Restored
<1>3. IsFile(OtelFile(Restored), f) /\ cmd.held[Restored] \in Entry /\ Sound(cmd.held[Restored])
  BY <1>1, <1>2, OtelFileIs DEF AreFiles, IsRecord
<1>4. Handled(Restored, f, cmd.held[Restored], cmd.config, o) /\ Removed(Restored, f, cmd.held[Restored], o)
  BY <1>1, <1>2, <1>3, RemovesIs
<1>5. /\ settings' = [settings EXCEPT ![OtelFile(Restored)] = o.file]
      /\ cmd' = [cmd EXCEPT !.restored = @ \ {Restored}, !.held[Restored] = o.entry]
      /\ state' = [cmd.held EXCEPT ![Restored] = o.entry]
      /\ clean' = (clean /\ o.ok) /\ lost' = lost
  BY DEF RollBack, Restored
<1>q. QED BY <1>2, <1>4, <1>5

-----------------------------------------------------------------------------
(* Types.                                                                  *)

(* The steps of a command that touch no agent's file.                      *)
Passed(c, a, new) ==
    /\ IsCommand(new) /\ Placed(new) /\ new.held = c.held /\ new.config = c.config
    /\ new.name = c.name /\ new.todo = c.todo \ {a} /\ new.pc = "otel" /\ new.restored = c.restored

(* off or on is done with an agent.                                        *)
LEMMA PassedIs ==
    ASSUME NEW c, IsCommand(c), Placed(c), c.name \in {"off", "on"}, NEW a,
           NEW new, new = [c EXCEPT !.pc = "otel", !.todo = c.todo \ {a}, !.failed = new.failed],
           new.failed \in BOOLEAN
    PROVE  Passed(c, a, new)
<1>1. /\ DOMAIN new = DOMAIN c /\ new = [x \in DOMAIN new |-> new[x]]
      /\ new.name = c.name /\ new.held = c.held /\ new.config = c.config /\ new.purge = c.purge
      /\ new.ok = c.ok /\ new.restored = c.restored /\ new.todo = c.todo \ {a} /\ new.pc = "otel"
  BY CommandIs
<1>2. IsCommand(new)
  BY <1>1, CommandIs
<1>3. Placed(new)
  BY <1>1 DEF Placed
<1>q. QED BY <1>1, <1>2, <1>3 DEF Passed

(* off or on saves the record after an agent.                              *)
LEMMA SaveOneIs ==
    ASSUME TypeOK, SaveOne
    PROVE  /\ Now \in cmd.todo /\ Now \in Native /\ cmd.name \in {"off", "on"} /\ cmd.pc = "save"
           /\ IsCommand(cmd') /\ Placed(cmd') /\ cmd'.held = cmd.held /\ cmd'.config = cmd.config
           /\ cmd'.name = cmd.name /\ cmd'.todo = cmd.todo \ {Now} /\ cmd'.pc = "otel"
           /\ cmd'.restored = (IF cmd.name = "on" /\ cmd.ok THEN cmd.restored \union {Now} ELSE cmd.restored)
           /\ cmd'.failed = cmd.failed /\ state' = cmd.held
<1>1. IsCommand(cmd) /\ Placed(cmd) /\ cmd.pc = "save"
  BY DEF TypeOK, SaveOne
<1>2. cmd.name \in {"off", "on"} /\ cmd.todo # {} /\ cmd.todo \subseteq Agents /\ cmd.todo \subseteq Native
  BY <1>1, CommandIs DEF Placed
<1>3. Now \in cmd.todo /\ Now \in Native
  BY <1>2, NowIs DEF Now
<1> DEFINE restored == IF cmd.name = "on" /\ cmd.ok THEN cmd.restored \union {Now} ELSE cmd.restored
           new == [cmd EXCEPT !.pc = "otel", !.todo = cmd.todo \ {Now}, !.restored = restored]
<1>4. cmd' = new /\ state' = cmd.held
  BY DEF SaveOne
<1>5. restored \subseteq Agents \intersect Native
  BY <1>1, <1>2, <1>3, CommandIs
<1> HIDE DEF restored
<1>6. /\ DOMAIN new = DOMAIN cmd /\ new = [x \in DOMAIN new |-> new[x]]
      /\ new.name = cmd.name /\ new.held = cmd.held /\ new.config = cmd.config /\ new.purge = cmd.purge
      /\ new.ok = cmd.ok /\ new.restored = restored /\ new.todo = cmd.todo \ {Now} /\ new.pc = "otel"
      /\ new.failed = cmd.failed
  BY <1>1, CommandIs
<1> HIDE DEF new
<1>7. IsCommand(new)
  BY <1>1, <1>2, <1>5, <1>6, CommandIs
<1>8. Placed(new)
  BY <1>1, <1>2, <1>6 DEF Placed
<1>q. QED BY <1>1, <1>2, <1>3, <1>4, <1>6, <1>7, <1>8 DEF restored

Rolled(c, a, held, new) ==
    /\ IsCommand(new) /\ Placed(new) /\ new.held = held /\ new.config = c.config
    /\ new.name = c.name /\ new.todo = c.todo /\ new.pc = c.pc /\ new.restored = c.restored \ {a}
    /\ new.failed = c.failed

(* The command after one exporter is taken back.                           *)
LEMMA RolledIs ==
    ASSUME NEW c, IsCommand(c), Placed(c), NEW a, NEW held,
           NEW new, new = [c EXCEPT !.restored = c.restored \ {a}, !.held = held]
    PROVE  Rolled(c, a, held, new)
<1>1. /\ DOMAIN new = DOMAIN c /\ new = [x \in DOMAIN new |-> new[x]]
      /\ new.name = c.name /\ new.held = held /\ new.config = c.config /\ new.purge = c.purge
      /\ new.ok = c.ok /\ new.restored = c.restored \ {a} /\ new.todo = c.todo /\ new.pc = c.pc
      /\ new.failed = c.failed
  BY CommandIs
<1>2. IsCommand(new)
  BY <1>1, CommandIs
<1>3. Placed(new)
  BY <1>1 DEF Placed
<1>q. QED BY <1>1, <1>2, <1>3 DEF Rolled

(* on passes an agent without hooks.                                       *)
LEMMA SkipIs ==
    ASSUME TypeOK, cmd.name \in {"off", "on"}, cmd.pc = "otel", cmd' = [cmd EXCEPT !.todo = @ \ {Now}]
    PROVE  Passed(cmd, Now, cmd') /\ cmd'.failed = cmd.failed
<1>1. IsCommand(cmd) /\ Placed(cmd)
  BY DEF TypeOK
<1>2. cmd'.failed = cmd.failed /\ cmd'.failed \in BOOLEAN
  BY <1>1, CommandIs
<1>3. cmd' = [cmd EXCEPT !.pc = "otel", !.todo = cmd.todo \ {Now}, !.failed = cmd'.failed]
  BY <1>1, <1>2, CommandIs
<1>4. Passed(cmd, Now, cmd')
  BY <1>1, <1>2, <1>3, PassedIs
<1>q. QED BY <1>2, <1>4

(* off or on fails at an agent.                                            *)
LEMMA ThrowIs ==
    ASSUME TypeOK, SwitchThrows \/ SaveThrows
    PROVE  /\ Passed(cmd, Now, cmd') /\ cmd'.failed = TRUE
           /\ Now \in cmd.todo /\ Now \in Native /\ cmd.name \in {"off", "on"}
           /\ UNCHANGED <<file, detected, settings, state, marker, ran, born, lost, touched>>
           /\ mishaps' = mishaps + 1
<1>1. IsCommand(cmd) /\ Placed(cmd)
  BY DEF TypeOK
<1>2. cmd.name \in {"off", "on"} /\ cmd.todo # {} /\ cmd.todo \subseteq Agents /\ cmd.todo \subseteq Native
  BY <1>1, CommandIs DEF SwitchThrows, SaveThrows, Placed
<1>3. Now \in cmd.todo /\ Now \in Native
  BY <1>2, NowIs DEF Now
<1>4. cmd'.failed = TRUE
  BY <1>1, CommandIs DEF SwitchThrows, SaveThrows
<1>5. cmd' = [cmd EXCEPT !.pc = "otel", !.todo = cmd.todo \ {Now}, !.failed = TRUE]
  BY <1>1, CommandIs DEF SwitchThrows, SaveThrows
<1>6. cmd' = [cmd EXCEPT !.pc = "otel", !.todo = cmd.todo \ {Now}, !.failed = cmd'.failed] /\ cmd'.failed \in BOOLEAN
  BY <1>4, <1>5
<1>7. Passed(cmd, Now, cmd')
  BY <1>1, <1>2, <1>6, PassedIs
<1>8. UNCHANGED <<file, detected, settings, state, marker, ran, born, lost, touched>> /\ mishaps' = mishaps + 1
  BY DEF SwitchThrows, SaveThrows, Mishap
<1>q. QED BY <1>2, <1>3, <1>4, <1>7, <1>8

(* The edits of others: one file, of the same type, with no key of         *)
(* AgentWatch's more, no handler and no key of the user's less.            *)
Harmless(f, g) ==
    /\ OursIn(g) \subseteq OursIn(f) /\ Set(f) \subseteq Set(g)
    /\ \A e \in Events : "user" \in f.hooks[e] => "user" \in g.hooks[e]
    /\ f.helper = "user" => g.helper = "user"
    /\ DOMAIN f.env \subseteq DOMAIN g.env /\ g.private = f.private
    /\ g.state = "missing" => f.state = "missing"

Edits ==
    \E path \in Files : \E g :
        /\ IsFile(path, g) /\ Harmless(settings[path], g)
        /\ settings' = [settings EXCEPT ![path] = g]
        /\ touched' = touched \union {path}
        /\ UNCHANGED <<file, detected, state, marker, cmd, ran, born, lost, clean>>
        /\ mishaps' = mishaps + 1

(* Whatever a user does to a settings file is one of Edits.                *)
LEMMA EditsAre ==
    ASSUME TypeOK,
           \/ \E path \in DOMAIN settings, k \in Keys : \E text \in Chosen(k) : SetKey(path, k, text)
           \/ SetHelper
           \/ \E path \in DOMAIN settings, how \in {"invalid", "rejected", "broken"} : Damage(path, how)
           \/ \E path \in DOMAIN settings : Repair(path) \/ DropHooks(path)
    PROVE  Edits
<1>1. AreFiles(settings) /\ DOMAIN settings = Files
  BY DEF TypeOK, AreFiles
<1>2. ASSUME NEW path \in Files, NEW g, IsFile(path, g), Harmless(settings[path], g), Edited(path, g)
      PROVE  Edits
  BY <1>2 DEF Edited, Mishap, Edits
<1>3. ASSUME NEW path \in Files, NEW k \in Keys, NEW text \in Chosen(k), SetKey(path, k, text)
      PROVE  Edits
  <2> DEFINE f == settings[path]
             value == UserSet(text)
             users == [j \in {k} |-> value]
             g == [f EXCEPT !.env = SetIn(@, users)]
  <2>1. IsFile(path, f) /\ f.state = "ok" /\ (k = "otel" <=> path = "codex.toml") /\ Edited(path, g)
    BY <1>1, <1>3 DEF AreFiles, SetKey, Usable
  <2>2. /\ DOMAIN g = DOMAIN f /\ g = [x \in DOMAIN g |-> g[x]] /\ g.env = SetIn(f.env, users)
        /\ g.helper = f.helper /\ g.state = f.state /\ g.hooks = f.hooks /\ g.private = f.private
    BY <2>1, FileIs
  <2>3. f.env \in [DOMAIN f.env -> Marked] /\ users \in [{k} -> Marked] /\ users[k] = value
    <3>1. value \in Marked
      BY SetupAssumption, Values
    <3> HIDE DEF value
    <3>q. QED BY <2>1, <3>1, FileIs
  <2>9. ByUser(value)
    BY SetupAssumption, Values
  <2> HIDE DEF g, users, value
  <2>4. /\ g.env \in [DOMAIN f.env \union {k} -> Marked]
        /\ g.env[k] = value /\ \A j \in DOMAIN f.env \ {k} : g.env[j] = f.env[j]
    <3>1. /\ SetIn(f.env, users) \in [DOMAIN f.env \union {k} -> Marked]
          /\ \A j \in {k} : SetIn(f.env, users)[j] = users[j]
          /\ \A j \in DOMAIN f.env \ {k} : SetIn(f.env, users)[j] = f.env[j]
      BY <2>3 DEF SetIn
    <3>q. QED BY <2>2, <2>3, <3>1
  <2>5. DOMAIN g.env = DOMAIN f.env \union {k}
    BY <2>4
  <2>6. DOMAIN g.env \subseteq (IF path = "codex.toml" THEN {"otel"} ELSE Keys \ {"otel"})
    BY <2>1, <2>5, FileIs
  <2>7. IsFile(path, g)
    BY <2>1, <2>2, <2>4, <2>5, <2>6, FileIs
  <2>8. Harmless(f, g)
    BY <2>2, <2>4, <2>5, <2>9 DEF Harmless, OursIn, Set
  <2>q. QED BY <1>2, <2>1, <2>7, <2>8
<1>4. ASSUME SetHelper
      PROVE  Edits
  <2> DEFINE f == settings["claude"]
             g == [f EXCEPT !.helper = "user"]
  <2>1. "claude" \in Files /\ IsFile("claude", f) /\ Edited("claude", g)
    BY <1>1, <1>4 DEF AreFiles, SetHelper, Files
  <2>2. /\ DOMAIN g = DOMAIN f /\ g = [x \in DOMAIN g |-> g[x]] /\ g.env = f.env
        /\ g.helper = "user" /\ g.state = f.state /\ g.hooks = f.hooks /\ g.private = f.private
    BY <2>1, FileIs
  <2> HIDE DEF g
  <2>3. IsFile("claude", g)
    BY <2>1, <2>2, FileIs
  <2>4. Harmless(f, g)
    BY <2>2 DEF Harmless, OursIn, Set
  <2>q. QED BY <1>2, <2>1, <2>3, <2>4
<1>5. ASSUME NEW path \in Files, NEW how \in {"invalid", "rejected", "broken", "ok"},
             Edited(path, [settings[path] EXCEPT !.state = how]), settings[path].state # "missing"
      PROVE  Edits
  <2> DEFINE f == settings[path]
             g == [f EXCEPT !.state = how]
  <2>1. IsFile(path, f) /\ Edited(path, g)
    BY <1>1, <1>5 DEF AreFiles
  <2>2. /\ DOMAIN g = DOMAIN f /\ g = [x \in DOMAIN g |-> g[x]] /\ g.env = f.env
        /\ g.helper = f.helper /\ g.state = how /\ g.hooks = f.hooks /\ g.private = f.private
    BY <2>1, FileIs
  <2> HIDE DEF g
  <2>3. IsFile(path, g)
    BY <2>1, <2>2, FileIs
  <2>4. Harmless(f, g)
    BY <2>2 DEF Harmless, OursIn, Set
  <2>q. QED BY <1>2, <2>1, <2>3, <2>4
<1>6. ASSUME NEW path \in Files, NEW how \in {"invalid", "rejected", "broken"}, Damage(path, how)
      PROVE  Edits
  BY <1>5, <1>6 DEF Damage, Usable
<1>7. ASSUME NEW path \in Files, Repair(path)
      PROVE  Edits
  BY <1>5, <1>7 DEF Repair
<1>8. ASSUME NEW path \in Files, DropHooks(path)
      PROVE  Edits
  <2> DEFINE f == settings[path]
             g == [f EXCEPT !.hooks = StripOurHandlers(@)]
  <2>1. IsFile(path, f) /\ f.state = "ok" /\ Edited(path, g)
    BY <1>1, <1>8 DEF AreFiles, DropHooks, Usable
  <2>2. /\ DOMAIN g = DOMAIN f /\ g = [x \in DOMAIN g |-> g[x]] /\ g.env = f.env
        /\ g.hooks = StripOurHandlers(f.hooks)
        /\ g.helper = f.helper /\ g.state = f.state /\ g.private = f.private
    BY <2>1, FileIs
  <2> HIDE DEF g
  <2>3. /\ g.hooks \in [Events -> SUBSET {"user", "ours"}]
        /\ \A e \in Events : "user" \in f.hooks[e] => "user" \in g.hooks[e]
    BY <2>1, <2>2, FileIs, HandlersKept
  <2>4. IsFile(path, g)
    BY <2>1, <2>2, <2>3, FileIs
  <2>5. Harmless(f, g)
    BY <2>2, <2>3 DEF Harmless, OursIn, Set
  <2>q. QED BY <1>2, <2>1, <2>4, <2>5
<1>q. QED BY <1>1, <1>3, <1>4, <1>6, <1>7, <1>8

(* The machines considered have the types.                                 *)
LEMMA InitTypes == Init => TypeOK
<1>1. SUFFICES ASSUME Init
               PROVE  TypeOK
  OBVIOUS
<1>2. PICK s \in Scenes : detected = s.detected /\ settings = s.settings /\ file = s.config /\ born = s.settings
  BY <1>1 DEF Init
<1>3. IsScene(s)
  BY SetupAssumption
<1>4. state = NoRecord /\ cmd = Idle /\ ran = 0 /\ mishaps = 0 /\ touched = {}
      /\ marker = FALSE /\ lost = FALSE /\ clean = TRUE
  BY <1>1 DEF Init
<1>q. QED BY <1>2, <1>3, <1>4, NoRecordIs, IdleIs DEF TypeOK, IsScene, AreFiles

(* What is left to say of the variables an action leaves alone.            *)
LEMMA StepTypes ==
    ASSUME TypeOK, [Next]_vars
    PROVE  TypeOK'
<1>0. /\ IsStored(file) /\ detected \subseteq Agents /\ AreFiles(settings) /\ DOMAIN born = Files /\ IsRecord(state)
      /\ IsCommand(cmd) /\ Placed(cmd) /\ IsRecord(cmd.held) /\ IsConfig(cmd.config)
      /\ marker \in BOOLEAN /\ lost \in BOOLEAN /\ clean \in BOOLEAN
      /\ touched \subseteq Files /\ ran \in Nat /\ mishaps \in Nat
  BY DEF TypeOK
<1>1. IsConfig(LoadConfig) /\ IsConfig(file.raw) /\ file.state \in {"missing", "ok", "invalid"}
  BY <1>0, LoadIs DEF IsStored
<1>2. Agents \intersect Native \in SUBSET Agents /\ Agents \intersect Native \subseteq Native
  OBVIOUS
<1>3. ASSUME NEW opts \in Options(detected), BeginSetup(opts)
      PROVE  TypeOK'
  <2> DEFINE config == Enrolled(LoadConfig, opts)
  <2>1. IsOption(opts)
    BY <1>0, SetupAssumption
  <2>2. IsConfig(config)
    BY <1>1, <2>1, EnrolledIs
  <2>3. file' = SaveConfig(config) /\ Begin("setup", detected, config, FALSE) /\ UNCHANGED <<marker, clean>>
    BY <1>3 DEF BeginSetup
  <2> HIDE DEF config
  <2>4. IsStored(file')
    BY <1>1, <2>2, <2>3, SavedIs
  <2>5. IsCommand(cmd') /\ Placed(cmd') /\ IsRecord(cmd'.held) /\ IsConfig(cmd'.config)
    BY <1>0, <2>2, <2>3, BeginIs
  <2>q. QED BY <1>0, <2>3, <2>4, <2>5 DEF Begin, TypeOK
<1>4. ASSUME NEW agents \in SUBSET Agents, NEW purge \in BOOLEAN, BeginUninstall(agents, purge)
      PROVE  TypeOK'
  <2>1. Begin("uninstall", agents, LoadConfig, purge) /\ UNCHANGED <<file, marker, clean>>
    BY <1>4 DEF BeginUninstall
  <2>2. IsCommand(cmd') /\ Placed(cmd') /\ IsRecord(cmd'.held) /\ IsConfig(cmd'.config)
    BY <1>1, <2>1, BeginIs
  <2>q. QED BY <1>0, <2>1, <2>2 DEF Begin, TypeOK
<1>5. ASSUME BeginOff \/ BeginOn
      PROVE  TypeOK'
  <2>1. PICK name \in {"off", "on"} : Begin(name, Agents \intersect Native, LoadConfig, FALSE)
    BY <1>5 DEF BeginOff, BeginOn
  <2>2. file' = file /\ clean' = clean /\ marker' \in BOOLEAN
    BY <1>0, <1>5 DEF BeginOff, BeginOn
  <2>3. IsCommand(cmd') /\ Placed(cmd') /\ IsRecord(cmd'.held) /\ IsConfig(cmd'.config)
    BY <1>1, <1>2, <2>1, BeginIs
  <2>q. QED BY <1>0, <2>1, <2>2, <2>3 DEF Begin, TypeOK
<1>6. ASSUME OnUnenrolled
      PROVE  TypeOK'
  BY <1>0, <1>6 DEF OnUnenrolled, TypeOK
<1>7. ASSUME Hooks
      PROVE  TypeOK'
  <2>1. /\ Now \in cmd.todo /\ Now \in Agents /\ cmd.pc = "hooks" /\ cmd.name \in {"setup", "uninstall"}
        /\ UNCHANGED <<file, detected, marker, ran, born, lost, clean, touched, mishaps, state>>
    BY <1>7, HooksIs DEF Hooks, Steps
  <2>2. PICK o : /\ Hooked(Now, settings[Now], cmd.held[Now], o)
                 /\ settings' = [settings EXCEPT ![Now] = o.file]
                 /\ IF Now \in Native THEN Moved(cmd, Now, o, "otel", cmd.todo, cmd')
                    ELSE Moved(cmd, Now, o, "hooks", cmd.todo \ {Now}, cmd')
    BY <1>7, HooksIs
  <2>3. AreFiles(settings')
    BY <1>0, <2>1, <2>2, FilesKept, NativeIs DEF Hooked
  <2>4. IsCommand(cmd') /\ IsRecord(cmd'.held) /\ IsConfig(cmd'.config)
    BY <1>0, <2>2 DEF Moved
  <2>5. Placed(cmd')
    BY <1>0, <2>1, <2>2 DEF Placed, Moved, Now
  <2>q. QED BY <1>0, <2>1, <2>3, <2>4, <2>5 DEF TypeOK
<1>8. ASSUME Exporter
      PROVE  TypeOK'
  <2>1. /\ Now \in cmd.todo /\ Now \in Native /\ cmd.pc = "otel" /\ cmd.name \in {"setup", "uninstall"}
        /\ UNCHANGED <<file, detected, state, marker, ran, born, clean, touched, mishaps>>
    BY <1>8, ExporterIs DEF Exporter
  <2>2. PICK o : /\ Handled(Now, settings[OtelFile(Now)], cmd.held[Now], cmd.config, o)
                 /\ settings' = [settings EXCEPT ![OtelFile(Now)] = o.file]
                 /\ Moved(cmd, Now, o, "hooks", cmd.todo \ {Now}, cmd')
                 /\ lost' = (lost \/ (cmd.name = "uninstall" /\ Forgets(Now) /\ ~cmd.held[Now].there /\ ~o.ok))
    BY <1>8, ExporterIs
  <2>3. AreFiles(settings')
    BY <1>0, <2>1, <2>2, FilesKept, OtelFileIs DEF Handled
  <2>4. IsCommand(cmd') /\ IsRecord(cmd'.held) /\ IsConfig(cmd'.config)
    BY <1>0, <2>2 DEF Moved
  <2>5. Placed(cmd')
    BY <1>0, <2>1, <2>2 DEF Placed, Moved
  <2>6. lost' \in BOOLEAN
    BY <2>2
  <2>q. QED BY <1>0, <2>1, <2>3, <2>4, <2>5, <2>6 DEF TypeOK
<1>9. ASSUME Switch
      PROVE  TypeOK'
  <2>1. /\ Now \in cmd.todo /\ Now \in Native /\ cmd.pc = "otel" /\ cmd.name \in {"off", "on"}
        /\ UNCHANGED <<file, detected, marker, ran, born, lost, clean, touched, mishaps, state>>
    BY <1>9, SwitchIs DEF Switch, Steps
  <2>2. CASE cmd' = [cmd EXCEPT !.todo = @ \ {Now}] /\ settings' = settings
    <3>1. IsCommand(cmd') /\ Placed(cmd') /\ cmd'.held = cmd.held /\ cmd'.config = cmd.config
      BY <2>1, <2>2, SkipIs DEF Passed
    <3>q. QED BY <1>0, <2>1, <2>2, <3>1 DEF TypeOK
  <2>3. ASSUME NEW o, Handled(Now, settings[OtelFile(Now)], cmd.held[Now], cmd.config, o),
               settings' = [settings EXCEPT ![OtelFile(Now)] = o.file],
               Moved(cmd, Now, o, "save", cmd.todo, cmd')
        PROVE  TypeOK'
    <3>1. AreFiles(settings')
      BY <1>0, <2>1, <2>3, FilesKept, OtelFileIs DEF Handled
    <3>2. IsCommand(cmd') /\ IsRecord(cmd'.held) /\ IsConfig(cmd'.config)
      BY <1>0, <2>3 DEF Moved
    <3>3. Placed(cmd')
      BY <1>0, <2>1, <2>3 DEF Placed, Moved
    <3>q. QED BY <1>0, <2>1, <3>1, <3>2, <3>3 DEF TypeOK
  <2>q. QED BY <1>9, <2>2, <2>3, SwitchIs
<1>10. ASSUME SwitchThrows \/ SaveThrows
       PROVE  TypeOK'
  <2>1. UNCHANGED <<file, detected, settings, state, marker, ran, born, lost, touched>> /\ mishaps' = mishaps + 1
    BY <1>10, ThrowIs
  <2>2. clean' \in BOOLEAN
    BY <1>0, <1>10 DEF SwitchThrows, SaveThrows
  <2>3. IsCommand(cmd') /\ Placed(cmd') /\ cmd'.held = cmd.held /\ cmd'.config = cmd.config
    BY <1>10, ThrowIs DEF Passed
  <2>4. mishaps' \in Nat
    BY <1>0, <2>1
  <2>q. QED BY <1>0, <2>1, <2>2, <2>3, <2>4 DEF TypeOK
<1>11. ASSUME SaveOne
       PROVE  TypeOK'
  <2>1. UNCHANGED <<settings, file, detected, marker, ran, born, lost, clean, touched, mishaps>>
    BY <1>11 DEF SaveOne, Steps
  <2>2. /\ IsCommand(cmd') /\ Placed(cmd') /\ cmd'.held = cmd.held /\ cmd'.config = cmd.config
        /\ state' = cmd.held
    BY <1>11, SaveOneIs
  <2>q. QED BY <1>0, <2>1, <2>2 DEF TypeOK
<1>12. ASSUME EndPlain \/ EndPurge \/ EndOff \/ EndOn \/ Crash
       PROVE  TypeOK'
  <2>1. cmd' = Idle
    BY <1>12 DEF EndPlain, EndPurge, EndOff, EndOn, Crash
  <2>2. settings' = settings /\ detected' = detected /\ ran' = ran /\ born' = born /\ touched' = touched
    BY <1>12 DEF EndPlain, EndPurge, EndOff, EndOn, Crash
  <2>3. IsRecord(state')
    BY <1>0, <1>12, NoRecordIs DEF EndPlain, EndPurge, EndOff, EndOn, Crash
  <2>4. IsStored(file')
    <3>1. IsStored([state |-> "missing", raw |-> DefaultConfig])
      BY DefaultIsConfig DEF IsStored
    <3>q. QED BY <1>0, <1>12, <3>1 DEF EndPlain, EndPurge, EndOff, EndOn, Crash
  <2>5. marker' \in BOOLEAN /\ mishaps' \in Nat
    <3>1. marker' \in {marker, FALSE}
      BY <1>12 DEF EndPlain, EndPurge, EndOff, EndOn, Crash
    <3>2. mishaps' \in {mishaps, mishaps + 1}
      BY <1>12 DEF EndPlain, EndPurge, EndOff, EndOn, Crash, Mishap
    <3>3. mishaps' \in Nat
      BY <1>0, <3>2
    <3>4. marker' \in BOOLEAN
      BY <1>0, <3>1
    <3>q. QED BY <3>3, <3>4
  <2>6. lost' \in BOOLEAN /\ clean' \in BOOLEAN
    BY <1>0, <1>12 DEF EndPlain, EndPurge, EndOff, EndOn, Crash
  <2>q. QED BY <1>0, <2>1, <2>2, <2>3, <2>4, <2>5, <2>6, IdleIs DEF TypeOK
<1>13. ASSUME RollBack
       PROVE  TypeOK'
  <2>1. UNCHANGED <<file, detected, marker, ran, born, touched, mishaps>>
    BY <1>13 DEF RollBack
  <2>2. CASE cmd.restored = {}
    <3>1. cmd' = Idle /\ lost' \in BOOLEAN /\ UNCHANGED <<settings, state, clean>>
      BY <1>13, <2>2 DEF RollBack
    <3>q. QED BY <1>0, <2>1, <3>1, IdleIs DEF TypeOK
  <2>3. CASE cmd.restored # {}
    <3>1. Restored \in Native /\ Restored \in Agents
      BY <1>13, <2>3, RollBackIs, NativeIs
    <3>2. PICK o : /\ Handled(Restored, settings[OtelFile(Restored)], cmd.held[Restored], cmd.config, o)
                   /\ settings' = [settings EXCEPT ![OtelFile(Restored)] = o.file]
                   /\ cmd' = [cmd EXCEPT !.restored = @ \ {Restored}, !.held[Restored] = o.entry]
                   /\ state' = [cmd.held EXCEPT ![Restored] = o.entry]
                   /\ clean' = (clean /\ o.ok) /\ lost' = lost
      BY <1>13, <2>3, RollBackIs
    <3>3. AreFiles(settings')
      BY <1>0, <3>1, <3>2, FilesKept, OtelFileIs DEF Handled
    <3>4. IsRecord(state')
      BY <1>0, <3>1, <3>2, HeldKept DEF Handled
    <3>5. cmd' = [cmd EXCEPT !.restored = cmd.restored \ {Restored}, !.held = state']
      BY <3>2
    <3>6. IsCommand(cmd') /\ Placed(cmd') /\ cmd'.held = state' /\ cmd'.config = cmd.config
      <4>1. Rolled(cmd, Restored, state', cmd')
        BY <1>0, <3>5, RolledIs
      <4>q. QED BY <4>1 DEF Rolled
    <3>7. clean' \in BOOLEAN
      BY <3>2
    <3>q. QED BY <1>0, <2>1, <3>2, <3>3, <3>4, <3>6, <3>7 DEF TypeOK
  <2>q. QED BY <2>2, <2>3
<1>14. ASSUME RollBackThrows
       PROVE  TypeOK'
  <2>1. /\ UNCHANGED <<file, detected, settings, state, marker, ran, born, lost, touched>>
        /\ clean' = FALSE /\ mishaps' = mishaps + 1
    BY <1>14 DEF RollBackThrows, Mishap
  <2>2. cmd' = [cmd EXCEPT !.restored = cmd.restored \ {Restored}, !.held = cmd.held]
    BY <1>0, <1>14, CommandIs DEF RollBackThrows, Restored
  <2>3. IsCommand(cmd') /\ Placed(cmd') /\ cmd'.held = cmd.held /\ cmd'.config = cmd.config
    <3>1. Rolled(cmd, Restored, cmd.held, cmd')
      BY <1>0, <2>2, RolledIs
    <3>q. QED BY <3>1 DEF Rolled
  <2>4. mishaps' \in Nat
    BY <1>0, <2>1
  <2>q. QED BY <1>0, <2>1, <2>3, <2>4 DEF TypeOK
<1>15. ASSUME Edits
       PROVE  TypeOK'
  <2>1. PICK path \in Files : \E g : /\ IsFile(path, g)
                                     /\ settings' = [settings EXCEPT ![path] = g]
                                     /\ touched' = touched \union {path}
    BY <1>15 DEF Edits
  <2>2. AreFiles(settings')
    BY <1>0, <2>1, FilesKept
  <2>3. touched' \subseteq Files /\ mishaps' \in Nat
        /\ UNCHANGED <<file, detected, state, marker, cmd, ran, born, lost, clean>>
    BY <1>0, <1>15, <2>1 DEF Edits
  <2>q. QED BY <1>0, <2>2, <2>3 DEF TypeOK
<1>16. ASSUME LoseState
       PROVE  TypeOK'
  BY <1>0, <1>16, NoRecordIs DEF LoseState, Mishap, TypeOK
<1>17. ASSUME NEW raw \in ByHand, EditConfig(raw)
       PROVE  TypeOK'
  <2>1. IsConfig(raw)
    BY <1>1, ByHandIs
  <2>2. file' = [file EXCEPT !.raw = raw] /\ mishaps' \in Nat
        /\ UNCHANGED <<detected, settings, state, marker, cmd, ran, born, lost, clean, touched>>
    BY <1>0, <1>17 DEF EditConfig, Mishap
  <2>3. IsStored(file')
    <3>1. file'.raw = raw /\ file'.state = file.state /\ DOMAIN file' = {"state", "raw"}
          /\ file' = [x \in DOMAIN file' |-> file'[x]]
      BY <1>0, <2>2 DEF IsStored
    <3>q. QED BY <1>1, <2>1, <3>1 DEF IsStored
  <2>q. QED BY <1>0, <2>2, <2>3 DEF TypeOK
<1>18. ASSUME BreakConfig
       PROVE  TypeOK'
  <2>1. /\ file' = [file EXCEPT !.state = IF @ = "ok" THEN "invalid" ELSE "ok"]
        /\ mishaps' \in Nat
        /\ UNCHANGED <<detected, settings, state, marker, cmd, ran, born, lost, clean, touched>>
    BY <1>0, <1>18 DEF BreakConfig, Mishap
  <2>2. IsStored(file')
    <3>1. file'.raw = file.raw /\ file'.state \in {"ok", "invalid"} /\ DOMAIN file' = {"state", "raw"}
          /\ file' = [x \in DOMAIN file' |-> file'[x]]
      BY <1>0, <2>1 DEF IsStored
    <3>q. QED BY <1>1, <3>1 DEF IsStored
  <2>q. QED BY <1>0, <2>1, <2>2 DEF TypeOK
<1>19. CASE UNCHANGED vars
  BY <1>0, <1>19 DEF vars, TypeOK
<1>20. CASE Commands
  <2>1. \A a \in detected : {a} \in SUBSET Agents
    BY <1>0
  <2>q. QED BY <1>3, <1>4, <1>5, <1>6, <1>7, <1>8, <1>9, <1>10, <1>11, <1>12, <1>13, <1>14, <1>20, <2>1 DEF Commands
<1>21. CASE Others
  <2>1. CASE Edits
    BY <1>15, <2>1
  <2>2. CASE ~Edits
    <3>1. LoseState \/ (\E raw \in ByHand : EditConfig(raw)) \/ BreakConfig
      BY <1>21, <2>2, EditsAre DEF Others
    <3>q. QED BY <1>16, <1>17, <1>18, <3>1
  <2>q. QED BY <2>1, <2>2
<1>q. QED BY <1>19, <1>20, <1>21 DEF Next

-----------------------------------------------------------------------------
(* The steps, as the invariants tell them apart.                           *)
Begins ==
    /\ cmd.name = "idle" /\ cmd'.name \in {"setup", "uninstall", "off", "on"}
    /\ cmd'.held = state /\ cmd'.failed = FALSE /\ cmd'.restored = {}
    /\ cmd'.pc = (IF cmd'.name \in {"setup", "uninstall"} THEN "hooks" ELSE "otel")
    /\ UNCHANGED <<settings, state, lost, born, clean, detected>>
    /\ cmd'.name = "setup" => cmd'.todo = detected /\ ~marker'
    /\ cmd'.name \in {"off", "on"} => cmd'.todo = Native
    /\ cmd'.name # "off" => marker' = marker
    /\ cmd'.name = "on" => marker

Rests ==
    /\ UNCHANGED <<settings, state, lost, born, clean, detected, cmd, touched>>
    /\ marker' => marker

(* The steps of Next, as the proofs below take them.                       *)
LEMMA StepIs ==
    ASSUME TypeOK, [Next]_vars
    PROVE  \/ Begins \/ Rests \/ Hooks \/ Exporter \/ Switch \/ SwitchThrows \/ SaveOne \/ SaveThrows
           \/ EndPlain \/ EndPurge \/ EndOff \/ EndOn \/ RollBack \/ RollBackThrows \/ Crash
           \/ Edits \/ LoseState
<1>1. detected \subseteq Agents /\ IsConfig(LoadConfig) /\ IsConfig(file.raw) /\ marker \in BOOLEAN
  BY LoadIs DEF TypeOK, IsStored
<1>2. Agents \intersect Native = Native
  BY NativeIs
<1>3. ASSUME NEW opts \in Options(detected), BeginSetup(opts)
      PROVE  Begins
  <2> DEFINE config == Enrolled(LoadConfig, opts)
  <2>1. IsOption(opts)
    BY <1>1, SetupAssumption
  <2>2. IsConfig(config)
    BY <1>1, <2>1, EnrolledIs
  <2>3. Begin("setup", detected, config, FALSE) /\ UNCHANGED <<marker, clean>> /\ ~marker
    BY <1>3 DEF BeginSetup, IsDisabled
  <2> HIDE DEF config
  <2>4. /\ cmd.name = "idle" /\ cmd'.name = "setup" /\ cmd'.held = state /\ cmd'.todo = detected
        /\ cmd'.pc = "hooks" /\ cmd'.failed = FALSE /\ cmd'.restored = {}
    BY <1>1, <2>2, <2>3, BeginIs
  <2>q. QED BY <2>3, <2>4 DEF Begins, Begin
<1>4. ASSUME NEW agents \in SUBSET Agents, NEW purge \in BOOLEAN, BeginUninstall(agents, purge)
      PROVE  Begins
  <2>1. Begin("uninstall", agents, LoadConfig, purge) /\ UNCHANGED <<file, marker, clean>>
    BY <1>4 DEF BeginUninstall
  <2>2. /\ cmd.name = "idle" /\ cmd'.name = "uninstall" /\ cmd'.held = state
        /\ cmd'.pc = "hooks" /\ cmd'.failed = FALSE /\ cmd'.restored = {}
    BY <1>1, <2>1, BeginIs
  <2>q. QED BY <2>1, <2>2 DEF Begins, Begin
<1>5. ASSUME BeginOff \/ BeginOn
      PROVE  Begins
  <2>1. CASE BeginOff
    <3>1. Begin("off", Native, LoadConfig, FALSE) /\ Native \in SUBSET Agents /\ clean' = clean
      BY <1>2, <2>1 DEF BeginOff
    <3>2. /\ cmd.name = "idle" /\ cmd'.name = "off" /\ cmd'.held = state /\ cmd'.todo = Native
          /\ cmd'.pc = "otel" /\ cmd'.failed = FALSE /\ cmd'.restored = {}
      BY <1>1, <3>1, BeginIs
    <3>q. QED BY <3>1, <3>2 DEF Begins, Begin
  <2>2. CASE BeginOn
    <3>1. /\ Begin("on", Native, LoadConfig, FALSE) /\ Native \in SUBSET Agents
          /\ clean' = clean /\ marker' = marker /\ marker
      BY <1>2, <2>2 DEF BeginOn, IsDisabled
    <3>2. /\ cmd.name = "idle" /\ cmd'.name = "on" /\ cmd'.held = state /\ cmd'.todo = Native
          /\ cmd'.pc = "otel" /\ cmd'.failed = FALSE /\ cmd'.restored = {}
      BY <1>1, <3>1, BeginIs
    <3>q. QED BY <3>1, <3>2 DEF Begins, Begin
  <2>q. QED BY <1>5, <2>1, <2>2
<1>6. CASE OnUnenrolled \/ (\E raw \in ByHand : EditConfig(raw)) \/ BreakConfig \/ UNCHANGED vars
  BY <1>6 DEF OnUnenrolled, EditConfig, BreakConfig, vars, Rests
<1>7. CASE Commands
  <2>1. \A a \in detected : {a} \in SUBSET Agents
    BY <1>1
  <2>q. QED BY <1>3, <1>4, <1>5, <1>6, <1>7, <2>1 DEF Commands
<1>8. CASE Others
  <2>1. CASE ~Edits
    <3>1. LoseState \/ (\E raw \in ByHand : EditConfig(raw)) \/ BreakConfig
      BY <1>8, <2>1, EditsAre DEF Others
    <3>q. QED BY <1>6, <3>1
  <2>q. QED BY <2>1
<1>q. QED BY <1>6, <1>7, <1>8 DEF Next

(* Which files a step changes.                                             *)
LEMMA HooksChange ==
    ASSUME TypeOK, Hooks
    PROVE  \A path \in Files :
              /\ settings'[path].env = settings[path].env
              /\ settings'[path].helper = settings[path].helper
              /\ path = "codex.toml" => settings'[path] = settings[path]
<1>1. Now \in Agents /\ AreFiles(settings)
  BY HooksIs DEF TypeOK
<1>2. PICK o : /\ Hooked(Now, settings[Now], cmd.held[Now], o)
               /\ settings' = [settings EXCEPT ![Now] = o.file]
  BY HooksIs
<1>3. Now \in Files /\ Now # "codex.toml" /\ IsFile(Now, o.file)
  BY <1>1, <1>2, NativeIs DEF Hooked
<1>4. settings'[Now] = o.file /\ \A path \in Files : path # Now => settings'[path] = settings[path]
  BY <1>1, <1>2, <1>3, FilesKept
<1>q. QED BY <1>2, <1>3, <1>4 DEF Hooked

Rewritten(files, a, o, new) ==
    /\ new[OtelFile(a)] = o.file
    /\ \A b \in Native : b # a => new[OtelFile(b)] = files[OtelFile(b)]
    /\ \A path \in Files : new[path].hooks = files[path].hooks

(* Of the files, an exporter's outcome changes its own.                    *)
LEMMA ExporterChanges ==
    ASSUME NEW files, AreFiles(files), NEW a \in Native, NEW e, NEW c, NEW o,
           Handled(a, files[OtelFile(a)], e, c, o),
           NEW new, new = [files EXCEPT ![OtelFile(a)] = o.file]
    PROVE  Rewritten(files, a, o, new)
<1>1. OtelFile(a) \in Files /\ DOMAIN files = Files
  BY OtelFileIs DEF AreFiles
<1>2. new[OtelFile(a)] = o.file /\ \A path \in Files : path # OtelFile(a) => new[path] = files[path]
  BY <1>1
<1>3. \A b \in Native : b # a => OtelFile(b) \in Files /\ OtelFile(b) # OtelFile(a)
  BY OtelFileIs DEF Native, OtelFile
<1>q. QED BY <1>1, <1>2, <1>3 DEF Handled, Rewritten

(* What a user does to a file adds none of AgentWatch's keys.              *)
LEMMA EditsChange ==
    ASSUME TypeOK, Edits
    PROVE  \A path \in Files : Harmless(settings[path], settings'[path])
<1>1. PICK path \in Files : \E g : /\ IsFile(path, g) /\ Harmless(settings[path], g)
                                   /\ settings' = [settings EXCEPT ![path] = g]
  BY DEF Edits
<1>2. AreFiles(settings)
  BY DEF TypeOK
<1>3. Harmless(settings[path], settings'[path])
      /\ \A other \in Files : other # path => settings'[other] = settings[other]
  BY <1>1, <1>2, FilesKept
<1>4. \A f : Harmless(f, f)
  BY DEF Harmless
<1>q. QED BY <1>3, <1>4

(* No step finds a lost record.                                            *)
LEMMA LostStays ==
    ASSUME TypeOK, [Next]_vars, lost
    PROVE  lost'
<1>1. CASE Exporter
  BY <1>1 DEF Exporter
<1>2. CASE EndPurge
  BY <1>2 DEF EndPurge
<1>3. CASE EndOff
  BY <1>3 DEF EndOff
<1>4. CASE RollBack
  BY <1>4 DEF RollBack
<1>5. CASE Crash
  BY <1>5 DEF Crash
<1>6. CASE ~(Exporter \/ EndPurge \/ EndOff \/ RollBack \/ Crash)
  BY <1>6, StepIs DEF Begins, Rests, Hooks, Switch, SwitchThrows, SaveOne, SaveThrows, Steps,
       EndPlain, EndOn, RollBackThrows, Edits, LoseState
<1>q. QED BY <1>1, <1>2, <1>3, <1>4, <1>5, <1>6

-----------------------------------------------------------------------------
(* The inductive invariant, a part at a time.                              *)
ModeOnRecord ==
    ~lost => Agree(Toml, Record["codex"], born["codex.toml"].private \/ born["codex.toml"].state = "missing")

(* What an exporter's step makes of files, record and command.             *)
Works(a, o) ==
    /\ a \in Native
    /\ Handled(a, settings[OtelFile(a)], cmd.held[a], cmd.config, o)
    /\ Rewritten(settings, a, o, settings')
    /\ cmd'.held = [cmd.held EXCEPT ![a] = o.entry]
    /\ cmd'.name = cmd.name /\ cmd'.config = cmd.config
    /\ UNCHANGED <<marker, born, detected, touched>>

(* What setup and uninstall do to an exporter, with its record.            *)
LEMMA ExporterWorks ==
    ASSUME TypeOK, Exporter
    PROVE  /\ cmd.pc = "otel" /\ cmd'.pc = "hooks" /\ cmd'.todo = cmd.todo \ {Now} /\ Now \in cmd.todo
           /\ cmd.name \in {"setup", "uninstall"} /\ clean' = clean /\ state' = state
           /\ \E o : /\ Works(Now, o)
                     /\ cmd'.failed <=> cmd.failed \/ ~o.ok
                     /\ cmd.name = "setup" =>
                            Configured(Now, settings[OtelFile(Now)], cmd.held[Now], cmd.config, o)
                     /\ cmd.name = "uninstall" =>
                            Removed(Now, settings[OtelFile(Now)], cmd.held[Now], o)
                     /\ lost' = (lost \/ (cmd.name = "uninstall" /\ Forgets(Now) /\ ~cmd.held[Now].there /\ ~o.ok))
<1>1. AreFiles(settings) /\ Now \in Native
  BY ExporterIs DEF TypeOK
<1>2. PICK o : /\ Handled(Now, settings[OtelFile(Now)], cmd.held[Now], cmd.config, o)
               /\ cmd.name = "setup" => Configured(Now, settings[OtelFile(Now)], cmd.held[Now], cmd.config, o)
               /\ cmd.name = "uninstall" => Removed(Now, settings[OtelFile(Now)], cmd.held[Now], o)
               /\ settings' = [settings EXCEPT ![OtelFile(Now)] = o.file]
               /\ Moved(cmd, Now, o, "hooks", cmd.todo \ {Now}, cmd')
               /\ lost' = (lost \/ (cmd.name = "uninstall" /\ Forgets(Now) /\ ~cmd.held[Now].there /\ ~o.ok))
  BY ExporterIs
<1>3. Rewritten(settings, Now, o, settings')
  BY <1>1, <1>2, ExporterChanges
<1>4. UNCHANGED <<marker, born, detected, touched, clean, state>>
  BY DEF Exporter
<1>5. Works(Now, o)
  BY <1>1, <1>2, <1>3, <1>4 DEF Works, Moved
<1>6. cmd'.failed <=> cmd.failed \/ ~o.ok
  BY <1>2 DEF Moved
<1>7. cmd'.pc = "hooks" /\ cmd'.todo = cmd.todo \ {Now}
  BY <1>2 DEF Moved
<1>q. QED BY <1>2, <1>4, <1>5, <1>6, <1>7, ExporterIs

(* What off and on do to an exporter, with its record.                     *)
LEMMA SwitchWorks ==
    ASSUME TypeOK, Switch
    PROVE  /\ cmd.pc = "otel" /\ cmd.name \in {"off", "on"} /\ Now \in cmd.todo /\ Now \in Native
           /\ UNCHANGED <<marker, born, detected, touched, clean, state, lost>>
           /\ \/ /\ cmd.name = "on" /\ ~HooksInstalled(settings[Now]) /\ settings' = settings
                 /\ Passed(cmd, Now, cmd') /\ cmd'.failed = cmd.failed
              \/ \E o : /\ Works(Now, o)
                        /\ cmd'.failed <=> cmd.failed \/ ~o.ok
                        /\ cmd'.ok = o.ok /\ cmd'.restored = cmd.restored
                        /\ cmd'.pc = "save" /\ cmd'.todo = cmd.todo
                        /\ cmd.name = "on" =>
                               Configured(Now, settings[OtelFile(Now)], cmd.held[Now], cmd.config, o)
                        /\ cmd.name = "off" =>
                               Removed(Now, settings[OtelFile(Now)], cmd.held[Now], o)
<1>1. AreFiles(settings) /\ Now \in Native /\ Now \in cmd.todo /\ cmd.pc = "otel" /\ cmd.name \in {"off", "on"}
  BY SwitchIs DEF TypeOK
<1>2. UNCHANGED <<marker, born, detected, touched, clean, state, lost>>
  BY DEF Switch, Steps
<1>3. CASE cmd' = [cmd EXCEPT !.todo = @ \ {Now}] /\ cmd.name = "on" /\ ~HooksInstalled(settings[Now])
           /\ settings' = settings
  BY <1>1, <1>2, <1>3, SkipIs
<1>4. ASSUME NEW o, Handled(Now, settings[OtelFile(Now)], cmd.held[Now], cmd.config, o),
             settings' = [settings EXCEPT ![OtelFile(Now)] = o.file],
             Moved(cmd, Now, o, "save", cmd.todo, cmd')
      PROVE  /\ Works(Now, o)
             /\ cmd'.failed <=> cmd.failed \/ ~o.ok
             /\ cmd'.ok = o.ok /\ cmd'.restored = cmd.restored
             /\ cmd'.pc = "save" /\ cmd'.todo = cmd.todo
  <2>1. Rewritten(settings, Now, o, settings')
    BY <1>1, <1>4, ExporterChanges
  <2>2. Works(Now, o)
    BY <1>1, <1>2, <1>4, <2>1 DEF Works, Moved
  <2>3. cmd'.failed <=> cmd.failed \/ ~o.ok
    BY <1>4 DEF Moved
  <2>4. cmd'.ok = o.ok /\ cmd'.restored = cmd.restored /\ cmd'.pc = "save" /\ cmd'.todo = cmd.todo
    BY <1>4 DEF Moved
  <2>q. QED BY <2>2, <2>3, <2>4
<1>q. QED BY <1>1, <1>2, <1>3, <1>4, SwitchIs

(* What taking back does to an exporter, with its record.                  *)
LEMMA RollBackWorks ==
    ASSUME TypeOK, RollBack, cmd.restored # {}
    PROVE  /\ Restored \in cmd.restored /\ cmd.name = "on" /\ cmd.failed /\ cmd.pc # "save"
           /\ Rolled(cmd, Restored, cmd'.held, cmd') /\ lost' = lost
           /\ \E o : /\ Works(Restored, o)
                     /\ Removed(Restored, settings[OtelFile(Restored)], cmd.held[Restored], o)
                     /\ clean' = (clean /\ o.ok)
<1>1. /\ AreFiles(settings) /\ Restored \in Native /\ Restored \in cmd.restored
      /\ cmd.name = "on" /\ cmd.failed /\ cmd.pc # "save" /\ IsCommand(cmd) /\ Placed(cmd)
      /\ UNCHANGED <<marker, born, detected, touched>>
  BY RollBackIs DEF TypeOK, RollBack, Finished
<1>2. PICK o : /\ Handled(Restored, settings[OtelFile(Restored)], cmd.held[Restored], cmd.config, o)
               /\ Removed(Restored, settings[OtelFile(Restored)], cmd.held[Restored], o)
               /\ settings' = [settings EXCEPT ![OtelFile(Restored)] = o.file]
               /\ cmd' = [cmd EXCEPT !.restored = @ \ {Restored}, !.held[Restored] = o.entry]
               /\ clean' = (clean /\ o.ok) /\ lost' = lost
  BY RollBackIs
<1> DEFINE held == [cmd.held EXCEPT ![Restored] = o.entry]
<1>3. cmd' = [cmd EXCEPT !.restored = cmd.restored \ {Restored}, !.held = held]
  BY <1>1, <1>2, CommandIs
<1> HIDE DEF held
<1>4. Rolled(cmd, Restored, held, cmd')
  BY <1>1, <1>3, RolledIs
<1>5. Rewritten(settings, Restored, o, settings')
  BY <1>1, <1>2, ExporterChanges
<1>6. Works(Restored, o)
  BY <1>1, <1>2, <1>4, <1>5 DEF Works, Rolled, held
<1>7. Rolled(cmd, Restored, cmd'.held, cmd')
  BY <1>4 DEF Rolled
<1>q. QED BY <1>1, <1>2, <1>6, <1>7

(* Taking back fails.                                                      *)
LEMMA ThrownBack ==
    ASSUME TypeOK, RollBackThrows
    PROVE  /\ Rolled(cmd, Restored, cmd.held, cmd') /\ clean' = FALSE
           /\ cmd.name = "on" /\ cmd.failed
           /\ UNCHANGED <<settings, state, marker, lost, born, touched, detected>>
<1>1. IsCommand(cmd) /\ Placed(cmd)
  BY DEF TypeOK
<1>2. cmd' = [cmd EXCEPT !.restored = cmd.restored \ {Restored}, !.held = cmd.held]
  BY <1>1, CommandIs DEF RollBackThrows, Restored
<1>3. Rolled(cmd, Restored, cmd.held, cmd')
  BY <1>1, <1>2, RolledIs
<1>q. QED BY <1>3 DEF RollBackThrows

(* A finished command is at an agent's hooks, or through with off and on.  *)
LEMMA FinishedIs ==
    ASSUME TypeOK, Finished
    PROVE  cmd.name # "idle" /\ cmd.todo = {} /\ cmd.pc # "save" /\ (cmd.name = "uninstall" => cmd.pc = "hooks")
BY CommandIs DEF TypeOK, Placed, Finished

-----------------------------------------------------------------------------
(* Untaken.                                                                *)
LEMMA UntakenKept ==
    ASSUME TypeOK, Untaken, [Next]_vars
    PROVE  Untaken'
<1>1. CASE Begins
  BY <1>1 DEF Begins, Untaken
<1>2. CASE Rests \/ Edits
  BY <1>2 DEF Rests, Edits, Untaken, Now
<1>3. CASE Hooks
  <2>1. cmd.pc = "hooks" /\ Now \in cmd.todo /\ cmd.todo \subseteq Agents /\ DOMAIN cmd.held = Agents
    BY <1>3, HooksIs, CommandIs DEF TypeOK, IsRecord
  <2>2. UNCHANGED <<state, lost>>
    BY <1>3 DEF Hooks, Steps
  <2>3. PICK o : IF Now \in Native THEN Moved(cmd, Now, o, "otel", cmd.todo, cmd')
                 ELSE Moved(cmd, Now, o, "hooks", cmd.todo \ {Now}, cmd')
    BY <1>3, HooksIs
  <2>q. QED BY <2>1, <2>2, <2>3 DEF Moved, Untaken, Now
<1>4. CASE Exporter
  <2>1. /\ cmd.todo \subseteq Agents /\ DOMAIN cmd.held = Agents
        /\ cmd'.todo = cmd.todo \ {Now} /\ state' = state /\ cmd'.name = cmd.name
        /\ \E e : cmd'.held = [cmd.held EXCEPT ![Now] = e]
    BY <1>4, ExporterWorks, CommandIs DEF TypeOK, IsRecord, Works
  <2>2. lost => lost'
    BY <1>4 DEF Exporter
  <2>q. QED BY <2>1, <2>2 DEF Untaken
<1>5. CASE Switch \/ SwitchThrows \/ SaveOne \/ SaveThrows
  <2>1. cmd'.name \in {"off", "on"}
    BY <1>5, SwitchWorks, SaveOneIs, ThrowIs DEF Passed, Works
  <2>q. QED BY <2>1 DEF Untaken
<1>6. CASE RollBack \/ RollBackThrows
  <2>1. cmd'.name \in {"idle", "on"}
    BY <1>6, RollBackWorks, ThrownBack, IdleIs DEF Rolled, RollBack
  <2>q. QED BY <2>1 DEF Untaken
<1>7. CASE EndPlain \/ EndPurge \/ EndOff \/ EndOn \/ Crash
  BY <1>7, IdleIs DEF EndPlain, EndPurge, EndOff, EndOn, Crash, Untaken
<1>8. CASE LoseState
  BY <1>8 DEF LoseState, Untaken
<1>q. QED BY <1>1, <1>2, <1>3, <1>4, <1>5, <1>6, <1>7, <1>8, StepIs

-----------------------------------------------------------------------------
(* OnRecord and Legacy.                                                    *)

(* Hooks leave the keys of every exporter, and all but Now's record.       *)
HookKept(o) ==
    /\ \A b \in Native : OursIn(settings'[OtelFile(b)]) = OursIn(settings[OtelFile(b)])
    /\ settings'["codex.toml"] = settings["codex.toml"]
    /\ cmd'.held = [cmd.held EXCEPT ![Now] = o.entry]
    /\ cmd'.name = cmd.name /\ cmd'.config = cmd.config
    /\ cmd'.pc = "otel" => Now \in Native /\ cmd'.todo = cmd.todo
    /\ cmd'.pc = "hooks" => cmd'.todo = cmd.todo \ {Now} /\ Now \notin Native
    /\ cmd'.pc \in {"hooks", "otel"}
    /\ cmd'.failed <=> cmd.failed \/ ~o.ok
    /\ cmd.name = "setup" => o.entry.owned = cmd.held[Now].owned /\ o.entry.prior = cmd.held[Now].prior
    /\ Forgets(Now) /\ o.entry.there => o.entry = cmd.held[Now] \/ cmd.name = "setup"
    /\ ~Forgets(Now) => o.entry.owned = cmd.held[Now].owned /\ o.entry.prior = cmd.held[Now].prior

(* Hooks leave every exporter alone.                                       *)
LEMMA HooksKeep ==
    ASSUME TypeOK, Hooks
    PROVE  /\ cmd.pc = "hooks" /\ cmd.name \in {"setup", "uninstall"} /\ Now \in cmd.todo /\ Now \in Agents
           /\ UNCHANGED <<state, marker, lost, clean, touched, detected, born>>
           /\ \E o : HookKept(o)
<1>1. \A path \in Files : /\ settings'[path].env = settings[path].env
                          /\ path = "codex.toml" => settings'[path] = settings[path]
  BY HooksChange
<1>2. PICK o : /\ cmd.name = "setup" => o.entry.owned = cmd.held[Now].owned /\ o.entry.prior = cmd.held[Now].prior
               /\ Forgets(Now) /\ o.entry.there => o.entry = cmd.held[Now] \/ cmd.name = "setup"
               /\ ~Forgets(Now) => o.entry.owned = cmd.held[Now].owned /\ o.entry.prior = cmd.held[Now].prior
               /\ IF Now \in Native THEN Moved(cmd, Now, o, "otel", cmd.todo, cmd')
                  ELSE Moved(cmd, Now, o, "hooks", cmd.todo \ {Now}, cmd')
  BY HooksIs
<1>3. \A b \in Native : OursIn(settings'[OtelFile(b)]) = OursIn(settings[OtelFile(b)])
  BY <1>1, OtelFileIs DEF OursIn
<1>4. settings'["codex.toml"] = settings["codex.toml"]
  BY <1>1 DEF Files
<1>5. /\ cmd'.held = [cmd.held EXCEPT ![Now] = o.entry]
      /\ cmd'.name = cmd.name /\ cmd'.config = cmd.config
      /\ cmd'.pc = "otel" => Now \in Native /\ cmd'.todo = cmd.todo
      /\ cmd'.pc = "hooks" => cmd'.todo = cmd.todo \ {Now} /\ Now \notin Native
      /\ cmd'.pc \in {"hooks", "otel"}
  BY <1>2 DEF Moved
<1>6. cmd'.failed <=> cmd.failed \/ ~o.ok
  BY <1>2 DEF Moved
<1>7. HookKept(o)
  BY <1>2, <1>3, <1>4, <1>5, <1>6 DEF HookKept
<1>q. QED BY <1>7, HooksIs DEF Hooks, Steps

(* What others leave of the keys.                                          *)
LEMMA EditsKeep ==
    ASSUME TypeOK, Edits
    PROVE  \A b \in Native : OursIn(settings'[OtelFile(b)]) \subseteq OursIn(settings[OtelFile(b)])
BY EditsChange, OtelFileIs DEF Harmless

(* Of Gemini's keys AgentWatch sets only those a lost record is assumed to *)
(* own.                                                                    *)
LEMMA LegacyKept ==
    ASSUME TypeOK, Legacy, [Next]_vars
    PROVE  Legacy'
<1>0. "gemini" \in Native /\ OtelFile("gemini") = "gemini"
  BY DEF Native, OtelFile
<1>1. CASE UNCHANGED settings
  BY <1>1 DEF Legacy
<1>2. ASSUME NEW a, NEW o, Works(a, o)
      PROVE  Legacy'
  BY <1>0, <1>2 DEF Works, Rewritten, Handled, Legacy
<1>3. CASE Hooks
  BY <1>0, <1>3, HooksKeep DEF HookKept, Legacy
<1>4. CASE Edits
  BY <1>0, <1>4, EditsKeep DEF Legacy
<1>5. CASE Exporter
  BY <1>2, <1>5, ExporterWorks
<1>6. CASE Switch
  BY <1>1, <1>2, <1>6, SwitchWorks
<1>7. CASE RollBack
  <2>1. CASE cmd.restored = {}
    BY <1>1, <1>7, <2>1 DEF RollBack
  <2>q. QED BY <1>2, <1>7, <2>1, RollBackWorks
<1>8. CASE ~(Hooks \/ Edits \/ Exporter \/ Switch \/ RollBack)
  BY <1>1, <1>8, StepIs DEF Begins, Rests, SwitchThrows, SaveOne, SaveThrows, EndPlain, EndPurge, EndOff,
       EndOn, RollBackThrows, Crash, LoseState
<1>q. QED BY <1>3, <1>4, <1>5, <1>6, <1>7, <1>8

(* The two files that can be forgotten, under a record.                    *)
Recorded(files, claude, gemini) ==
    /\ OursIn(files["claude"]) \subseteq claude["claude"].owned
    /\ OursIn(files["gemini"]) \subseteq gemini["gemini"].owned

(* What is done to an exporter is in the record the command carries.       *)
LEMMA WorksRecorded ==
    ASSUME TypeOK, NEW a, NEW o, Works(a, o), Recorded(settings, cmd.held, cmd.held)
    PROVE  Recorded(settings', cmd'.held, cmd'.held)
<1>1. /\ "claude" \in Native /\ "gemini" \in Native
      /\ OtelFile("claude") = "claude" /\ OtelFile("gemini") = "gemini"
  BY DEF Native, OtelFile
<1>2. DOMAIN cmd.held = Agents /\ Native \subseteq Agents
  BY NativeIs DEF TypeOK, IsRecord
<1>3. ASSUME NEW b \in Native, b # "codex", OtelFile(b) = b, OursIn(settings[b]) \subseteq cmd.held[b].owned
      PROVE  OursIn(settings'[b]) \subseteq cmd'.held[b].owned
  <2>1. CASE b = a
    BY <1>2, <1>3, <2>1 DEF Works, Rewritten, Handled
  <2>2. CASE b # a
    BY <1>2, <1>3, <2>2 DEF Works, Rewritten
  <2>q. QED BY <2>1, <2>2
<1>q. QED BY <1>1, <1>3 DEF Recorded

(* What AgentWatch set stays on the record that counts, unless a record is *)
(* lost.                                                                   *)
LEMMA OnRecordKept ==
    ASSUME TypeOK, Untaken, OnRecord, Legacy, Saved, [Next]_vars
    PROVE  OnRecord'
<1> SUFFICES ASSUME ~lost'
             PROVE  OnRecord'
  BY DEF OnRecord
<1>0. /\ ~lost /\ DOMAIN cmd.held = Agents /\ DOMAIN state = Agents /\ Native \subseteq Agents
      /\ "claude" \in Native /\ "gemini" \in Native
      /\ OtelFile("claude") = "claude" /\ OtelFile("gemini") = "gemini"
  BY LostStays, NativeIs DEF TypeOK, IsRecord, Native, OtelFile
<1>1. Recorded(settings, Record, IF Forgotten THEN state ELSE Record)
  BY <1>0 DEF OnRecord, Recorded
<1>2. SUFFICES Recorded(settings', Record', IF Forgotten' THEN state' ELSE Record')
  BY DEF OnRecord, Recorded
<1>3. CASE Begins
  BY <1>1, <1>3 DEF Begins, Forgotten, Record
<1>4. CASE Rests
  BY <1>1, <1>4 DEF Rests, Forgotten, Record, Now
<1>5. CASE Edits
  BY <1>0, <1>1, <1>5, EditsKeep DEF Edits, Forgotten, Record, Now, Recorded
<1>6. CASE Hooks
  <2>1. /\ cmd.pc = "hooks" /\ cmd.name \in {"setup", "uninstall"} /\ Now \in cmd.todo /\ Now \in Agents
        /\ state' = state
    BY <1>6, HooksKeep
  <2>2. PICK o : HookKept(o)
    BY <1>6, HooksKeep
  <2>3. Recorded(settings, cmd.held, cmd.held)
    BY <1>1, <2>1 DEF Record, Forgotten
  <2>4. Record' = [cmd.held EXCEPT ![Now] = o.entry]
    BY <2>1, <2>2 DEF Record, HookKept
  <2>5. CASE Now # "gemini"
    <3>1. ~Forgotten'
      BY <2>2, <2>5 DEF Forgotten, HookKept, Now
    <3>2. Now = "claude" => o.entry.owned = cmd.held[Now].owned
      BY <2>2 DEF HookKept, Forgets
    <3>q. QED BY <1>0, <2>1, <2>2, <2>3, <2>4, <2>5, <3>1, <3>2 DEF Recorded, HookKept
  <2>6. CASE Now = "gemini" /\ cmd.name = "setup"
    <3>1. ~Forgotten'
      BY <2>2, <2>6 DEF Forgotten, HookKept
    <3>2. o.entry.owned = cmd.held[Now].owned
      BY <2>2, <2>6 DEF HookKept
    <3>q. QED BY <1>0, <2>1, <2>2, <2>3, <2>4, <2>6, <3>1, <3>2 DEF Recorded, HookKept
  <2>7. CASE Now = "gemini" /\ cmd.name = "uninstall"
    <3>1. cmd.held["gemini"] = state["gemini"]
      BY <1>0, <2>1, <2>7 DEF Untaken
    <3>2. cmd'.pc = "otel" /\ cmd'.todo = cmd.todo /\ cmd'.name = "uninstall"
      BY <1>0, <2>2, <2>7 DEF HookKept
    <3>3. Forgotten' <=> ~o.entry.there
      BY <1>0, <2>2, <2>7, <3>2 DEF Forgotten, HookKept, Now
    <3>4. o.entry.there => o.entry = cmd.held["gemini"]
      BY <2>2, <2>7 DEF HookKept, Forgets
    <3>q. QED BY <1>0, <2>1, <2>2, <2>3, <2>4, <2>7, <3>1, <3>3, <3>4 DEF Recorded, HookKept
  <2>q. QED BY <2>1, <2>5, <2>6, <2>7
<1>7. CASE Exporter
  <2>1. /\ cmd.pc = "otel" /\ cmd'.pc = "hooks" /\ cmd.name \in {"setup", "uninstall"} /\ state' = state
    BY <1>7, ExporterWorks
  <2>2. PICK o : /\ Works(Now, o)
                 /\ cmd.name = "uninstall" => Removed(Now, settings[OtelFile(Now)], cmd.held[Now], o)
                 /\ lost' = (lost \/ (cmd.name = "uninstall" /\ Forgets(Now) /\ ~cmd.held[Now].there /\ ~o.ok))
    BY <1>7, ExporterWorks
  <2>3. Record' = cmd'.held /\ ~Forgotten' /\ Record = cmd.held
    BY <2>1, <2>2 DEF Record, Forgotten, Works
  <2>4. CASE ~Forgotten
    <3>1. Recorded(settings', cmd'.held, cmd'.held)
      BY <1>1, <2>2, <2>3, <2>4, WorksRecorded
    <3>q. QED BY <2>3, <3>1
  <2>5. CASE Forgotten
    <3>1. Now = "gemini" /\ cmd.name = "uninstall" /\ ~cmd.held["gemini"].there
      BY <2>5 DEF Forgotten
    <3>2. o.ok
      BY <2>2, <3>1 DEF Forgets
    <3>3. OursIn(settings'["gemini"]) = {}
      BY <1>0, <2>2, <3>1, <3>2 DEF Removed, Covered, Legacy, Works, Rewritten
    <3>4. OursIn(settings'["claude"]) \subseteq cmd'.held["claude"].owned
      BY <1>0, <1>1, <2>2, <2>3, <3>1 DEF Recorded, Works, Rewritten
    <3>q. QED BY <2>3, <3>3, <3>4 DEF Recorded
  <2>q. QED BY <2>4, <2>5
<1>8. CASE Switch
  <2>1. cmd.name \in {"off", "on"} /\ cmd'.name = cmd.name
    BY <1>8, SwitchWorks DEF Passed, Works
  <2>2. Record' = cmd'.held /\ ~Forgotten' /\ Record = cmd.held /\ ~Forgotten
    BY <2>1 DEF Record, Forgotten
  <2>3. CASE settings' = settings /\ cmd'.held = cmd.held
    BY <1>1, <2>2, <2>3
  <2>4. CASE \E o : Works(Now, o)
    <3>1. Recorded(settings', cmd'.held, cmd'.held)
      BY <1>1, <2>2, <2>4, WorksRecorded
    <3>q. QED BY <2>2, <3>1
  <2>q. QED BY <1>8, <2>3, <2>4, SwitchWorks DEF Passed
<1>9. CASE SwitchThrows \/ SaveOne \/ SaveThrows \/ RollBackThrows
  <2>1. cmd.name \in {"off", "on"} /\ cmd'.name = cmd.name /\ cmd'.held = cmd.held /\ settings' = settings
    BY <1>9, SaveOneIs, ThrowIs, ThrownBack DEF Passed, Rolled, SaveOne
  <2>q. QED BY <1>1, <2>1 DEF Record, Forgotten
<1>10. CASE RollBack /\ cmd.restored # {}
  <2>1. cmd.name = "on" /\ cmd'.name = "on"
    BY <1>10, RollBackWorks DEF Rolled
  <2>2. Recorded(settings', cmd'.held, cmd'.held)
    BY <1>1, <1>10, <2>1, RollBackWorks, WorksRecorded DEF Record, Forgotten
  <2>q. QED BY <2>1, <2>2 DEF Record, Forgotten
<1>11. CASE EndOff \/ (RollBack /\ cmd.restored = {}) \/ Crash
  <2>1. cmd' = Idle /\ state' = state /\ settings' = settings /\ cmd.held = state
    BY <1>11 DEF EndOff, RollBack, Crash
  <2>2. Record' = state /\ ~Forgotten' /\ Record = state
    BY <2>1, IdleIs DEF Record, Forgotten
  <2>q. QED BY <1>1, <2>1, <2>2
<1>12. CASE EndOn \/ EndPlain
  <2>1. cmd' = Idle /\ settings' = settings /\ state' = cmd.held
    BY <1>0, <1>12, FinishedIs DEF EndOn, EndPlain, Saved
  <2>2. Record' = cmd.held /\ ~Forgotten' /\ Record = cmd.held /\ ~Forgotten
    BY <1>12, <2>1, IdleIs, FinishedIs DEF Record, Forgotten, EndOn, EndPlain
  <2>q. QED BY <1>1, <2>1, <2>2
<1>13. CASE EndPurge
  <2>1. /\ cmd' = Idle /\ settings' = settings
        /\ \A a \in Agents : ~(cmd.held[a].there /\ cmd.held[a].owned # {})
    BY <1>13 DEF EndPurge
  <2>2. cmd.held["claude"].owned = {} /\ cmd.held["gemini"].owned = {}
    BY <1>0, <2>1 DEF TypeOK, IsRecord, Sound
  <2>3. Record = cmd.held /\ ~Forgotten
    BY <1>13, FinishedIs DEF Record, Forgotten, EndPurge
  <2>q. QED BY <1>1, <2>1, <2>2, <2>3 DEF Recorded
<1>14. CASE LoseState
  BY <1>14 DEF LoseState
<1>q. QED BY <1>3, <1>4, <1>5, <1>6, <1>7, <1>8, <1>9, <1>10, <1>11, <1>12, <1>13, <1>14, StepIs

-----------------------------------------------------------------------------
(* ModeOnRecord.                                                           *)
Excused == born["codex.toml"].private \/ born["codex.toml"].state = "missing"

(* What is done to Codex's block keeps its mode and its record in          *)
(* agreement.                                                              *)
LEMMA WorksAgree ==
    ASSUME TypeOK, NEW a, NEW o, Works(a, o), Agree(Toml, cmd.held["codex"], Excused)
    PROVE  Agree(Toml', cmd'.held["codex"], Excused')
<1>1. /\ "codex" \in Native /\ OtelFile("codex") = "codex.toml" /\ Native \subseteq Agents
      /\ DOMAIN cmd.held = Agents /\ Excused' = Excused /\ Excused \in BOOLEAN
  BY NativeIs DEF Native, OtelFile, TypeOK, IsRecord, Works, Excused
<1>2. CASE a = "codex"
  <2>1. Agree(o.file, o.entry, Excused)
    <3>1. \A excused \in BOOLEAN : Agree(Toml, cmd.held["codex"], excused) => Agree(o.file, o.entry, excused)
      BY <1>1, <1>2 DEF Works, Handled, Toml
    <3>q. QED BY <1>1, <3>1
  <2>2. Toml' = o.file /\ cmd'.held["codex"] = o.entry
    BY <1>1, <1>2 DEF Works, Rewritten, Toml
  <2>q. QED BY <1>1, <2>1, <2>2
<1>3. CASE a # "codex"
  <2>1. Toml' = Toml /\ cmd'.held["codex"] = cmd.held["codex"]
    BY <1>1, <1>3 DEF Works, Rewritten, Toml
  <2>q. QED BY <1>1, <2>1
<1>q. QED BY <1>2, <1>3

(* config.toml is private only with the mode to restore on record.         *)
LEMMA ModeKept ==
    ASSUME TypeOK, ModeOnRecord, Saved, [Next]_vars
    PROVE  ModeOnRecord'
<1> SUFFICES ASSUME ~lost'
             PROVE  Agree(Toml', Record'["codex"], Excused')
  BY DEF ModeOnRecord, Excused
<1>0. /\ ~lost /\ DOMAIN cmd.held = Agents /\ DOMAIN state = Agents /\ Native \subseteq Agents
      /\ "codex" \in Native /\ OtelFile("codex") = "codex.toml"
  BY LostStays, NativeIs DEF TypeOK, IsRecord, Native, OtelFile
<1>1. Agree(Toml, Record["codex"], Excused)
  BY <1>0 DEF ModeOnRecord, Excused
<1>3. CASE Begins
  BY <1>1, <1>3 DEF Begins, Record, Toml, Excused
<1>4. CASE Rests
  BY <1>1, <1>4 DEF Rests, Record, Toml, Excused
<1>5. CASE Edits
  <2>1. Harmless(Toml, Toml')
    BY <1>5, EditsChange DEF Files, Toml
  <2>2. UNCHANGED <<Record, Excused>>
    BY <1>5 DEF Edits, Record, Excused
  <2>q. QED BY <1>1, <2>1, <2>2 DEF Harmless, Agree
<1>6. CASE Hooks
  <2>1. cmd.name \in {"setup", "uninstall"} /\ Now \in Agents /\ born' = born
    BY <1>6, HooksKeep
  <2>2. PICK o : HookKept(o)
    BY <1>6, HooksKeep
  <2>3. Toml' = Toml /\ Record' = [cmd.held EXCEPT ![Now] = o.entry] /\ Record = cmd.held
    BY <2>1, <2>2 DEF Record, HookKept, Toml
  <2>4. Record'["codex"].prior = Record["codex"].prior
    BY <1>0, <2>1, <2>2, <2>3 DEF HookKept, Forgets
  <2>q. QED BY <1>1, <2>1, <2>3, <2>4 DEF Agree, Excused
<1>7. CASE Exporter
  <2>1. cmd.name \in {"setup", "uninstall"} /\ \E o : Works(Now, o)
    BY <1>7, ExporterWorks
  <2>2. Record' = cmd'.held /\ Record = cmd.held
    BY <2>1 DEF Record, Works
  <2>3. Agree(Toml', cmd'.held["codex"], Excused')
    BY <1>1, <2>1, <2>2, WorksAgree
  <2>q. QED BY <2>2, <2>3
<1>8. CASE Switch
  <2>1. cmd.name \in {"off", "on"} /\ cmd'.name = cmd.name
    BY <1>8, SwitchWorks DEF Passed, Works
  <2>2. Record' = cmd'.held /\ Record = cmd.held
    BY <2>1 DEF Record
  <2>3. CASE settings' = settings /\ cmd'.held = cmd.held
    <3>1. born' = born
      BY <1>8 DEF Switch, Steps
    <3>q. QED BY <1>1, <2>2, <2>3, <3>1 DEF Toml, Excused
  <2>4. CASE \E o : Works(Now, o)
    <3>1. Agree(Toml', cmd'.held["codex"], Excused')
      BY <1>1, <2>2, <2>4, WorksAgree
    <3>q. QED BY <2>2, <3>1
  <2>q. QED BY <1>8, <2>3, <2>4, SwitchWorks DEF Passed
<1>9. CASE SwitchThrows \/ SaveOne \/ SaveThrows \/ RollBackThrows
  <2>1. /\ cmd.name \in {"off", "on"} /\ cmd'.name = cmd.name /\ cmd'.held = cmd.held /\ settings' = settings
        /\ born' = born
    BY <1>9, SaveOneIs, ThrowIs, ThrownBack DEF Passed, Rolled, SaveOne, Steps
  <2>q. QED BY <1>1, <2>1 DEF Record, Toml, Excused
<1>10. CASE RollBack /\ cmd.restored # {}
  <2>1. cmd.name = "on" /\ cmd'.name = "on"
    BY <1>10, RollBackWorks DEF Rolled
  <2>2. Agree(Toml', cmd'.held["codex"], Excused')
    BY <1>1, <1>10, <2>1, RollBackWorks, WorksAgree DEF Record
  <2>q. QED BY <2>1, <2>2 DEF Record
<1>11. CASE EndOff \/ (RollBack /\ cmd.restored = {}) \/ Crash
  <2>1. cmd' = Idle /\ state' = state /\ settings' = settings /\ cmd.held = state /\ born' = born
    BY <1>11 DEF EndOff, RollBack, Crash
  <2>2. Record' = state /\ Record = state
    BY <2>1, IdleIs DEF Record
  <2>q. QED BY <1>1, <2>1, <2>2 DEF Toml, Excused
<1>12. CASE EndOn \/ EndPlain
  <2>1. cmd' = Idle /\ settings' = settings /\ state' = cmd.held /\ born' = born
    BY <1>0, <1>12, FinishedIs DEF EndOn, EndPlain, Saved
  <2>2. Record' = cmd.held /\ Record = cmd.held
    BY <1>12, <2>1, IdleIs, FinishedIs DEF Record, EndOn, EndPlain
  <2>q. QED BY <1>1, <2>1, <2>2 DEF Toml, Excused
<1>13. CASE EndPurge
  <2>1. /\ cmd' = Idle /\ settings' = settings /\ state' = NoRecord /\ born' = born
        /\ ~(cmd.held["codex"].there /\ cmd.held["codex"].owned # {})
    BY <1>0, <1>13 DEF EndPurge
  <2>2. ~cmd.held["codex"].prior
    BY <1>0, <2>1 DEF TypeOK, IsRecord, Sound
  <2>3. Record = cmd.held /\ Record' = NoRecord
    BY <1>13, <2>1, FinishedIs, IdleIs DEF Record, EndPurge
  <2>4. ~NoRecord["codex"].prior
    BY <1>0, GoneIs DEF NoRecord
  <2>q. QED BY <1>1, <2>1, <2>2, <2>3, <2>4 DEF Agree, Toml, Excused
<1>14. CASE LoseState
  BY <1>14 DEF LoseState
<1>q. QED BY <1>3, <1>4, <1>5, <1>6, <1>7, <1>8, <1>9, <1>10, <1>11, <1>12, <1>13, <1>14, StepIs

(* on saves what it did before it goes on.                                 *)
LEMMA SavedKept ==
    ASSUME TypeOK, Saved, [Next]_vars
    PROVE  Saved'
<1>1. CASE Begins \/ Rests \/ Edits
  BY <1>1 DEF Begins, Rests, Edits, Saved
<1>2. CASE Hooks \/ Exporter
  <2>1. cmd'.name \in {"setup", "uninstall"}
    BY <1>2, HooksKeep, ExporterWorks DEF HookKept, Works
  <2>q. QED BY <2>1 DEF Saved
<1>3. CASE Switch
  BY <1>3, SwitchWorks DEF Passed, Saved
<1>4. CASE SaveOne
  BY <1>4, SaveOneIs DEF Saved
<1>5. CASE SwitchThrows \/ SaveThrows
  BY <1>5, ThrowIs DEF Saved
<1>6. CASE (RollBack /\ cmd.restored # {}) \/ RollBackThrows
  BY <1>6, RollBackWorks, ThrownBack DEF Rolled, Saved
<1>7. CASE EndPlain \/ EndPurge \/ EndOff \/ EndOn \/ Crash \/ (RollBack /\ cmd.restored = {})
  BY <1>7, IdleIs DEF EndPlain, EndPurge, EndOff, EndOn, Crash, RollBack, Saved
<1>8. CASE LoseState
  BY <1>8 DEF LoseState, Saved
<1>q. QED BY <1>1, <1>2, <1>3, <1>4, <1>5, <1>6, <1>7, <1>8, StepIs

-----------------------------------------------------------------------------
(* Silent.                                                                 *)

(* An exporter stays as quiet as it was where its keys do.                 *)
LEMMA QuietKept ==
    ASSUME NEW b, Quiet(b), OursIn(settings'[OtelFile(b)]) \subseteq OursIn(settings[OtelFile(b)]), lost => lost'
    PROVE  Quiet(b)'
BY DEF Quiet, Sends

(* One whose removal succeeded is quiet.                                   *)
LEMMA RemovedQuiet ==
    ASSUME TypeOK, OnRecord, NEW a, NEW o, Works(a, o), o.ok,
           Removed(a, settings[OtelFile(a)], cmd.held[a], o), cmd.name \in {"off", "on"}, lost => lost'
    PROVE  Quiet(a)'
<1>1. settings'[OtelFile(a)] = o.file /\ a \in Native
  BY DEF Works, Rewritten
<1>2. CASE a = "codex" \/ ~lost
  <2>1. Covered(a, settings[OtelFile(a)], cmd.held[a])
    BY <1>1, <1>2 DEF OnRecord, Record, Forgotten, Covered, Native, OtelFile
  <2>2. OursIn(o.file) = {}
    BY <2>1 DEF Removed
  <2>q. QED BY <1>1, <2>2 DEF Quiet, Sends
<1>3. CASE a # "codex" /\ lost
  BY <1>3 DEF Quiet
<1>q. QED BY <1>2, <1>3

(* The files of the other exporters stand as they were.                    *)
LEMMA OthersQuiet ==
    ASSUME NEW a, NEW o, Works(a, o), NEW b \in Native, b # a, Quiet(b), lost => lost'
    PROVE  Quiet(b)'
BY QuietKept DEF Works, Rewritten

(* off leaves no exporter on behind it, and a failed on none it restored.  *)
LEMMA SilentKept ==
    ASSUME TypeOK, OnRecord, Silent, [Next]_vars
    PROVE  Silent'
<1>0. lost => lost'
  BY LostStays
<1> DEFINE Loud(b) == cmd.pc = "save" /\ b = Now /\ cmd.ok
<1>1. ASSUME settings' = settings
      PROVE  \A b \in Native : Quiet(b) => Quiet(b)'
  BY <1>0, <1>1, QuietKept
<1>2. CASE Begins
  <2>1. \A b \in Native : Quiet(b) => Quiet(b)'
    BY <1>1, <1>2 DEF Begins
  <2>2. cmd'.name = "off" => \A b \in Native : ~Visited(b)'
    BY <1>2 DEF Begins, Visited
  <2>q. QED BY <1>2, <2>1, <2>2 DEF Begins, Silent
<1>3. CASE Rests \/ LoseState
  <2>1. /\ \A b \in Native : Quiet(b) => Quiet(b)'
        /\ UNCHANGED <<cmd, clean>> /\ (marker' => marker)
    BY <1>1, <1>3 DEF Rests, LoseState
  <2>q. QED BY <2>1 DEF Silent, Visited, Now
<1>4. CASE Edits
  <2>1. \A b \in Native : Quiet(b) => Quiet(b)'
    BY <1>0, <1>4, EditsKeep, QuietKept
  <2>2. UNCHANGED <<cmd, clean, marker>>
    BY <1>4 DEF Edits
  <2>q. QED BY <2>1, <2>2 DEF Silent, Visited, Now
<1>5. CASE Hooks
  <2>1. cmd.name \in {"setup", "uninstall"} /\ cmd'.name = cmd.name /\ UNCHANGED <<marker, clean>>
        /\ \A b \in Native : OursIn(settings'[OtelFile(b)]) = OursIn(settings[OtelFile(b)])
    BY <1>5, HooksKeep DEF HookKept
  <2>2. \A b \in Native : Quiet(b) => Quiet(b)'
    BY <1>0, <2>1, QuietKept
  <2>q. QED BY <2>1, <2>2 DEF Silent
<1>6. CASE Exporter
  <2>1. cmd.name \in {"setup", "uninstall"} /\ clean' = clean
    BY <1>6, ExporterWorks
  <2>2. PICK o : /\ Works(Now, o)
                 /\ cmd.name = "uninstall" => Removed(Now, settings[OtelFile(Now)], cmd.held[Now], o)
    BY <1>6, ExporterWorks
  <2>3. cmd'.name = cmd.name /\ marker' = marker /\ settings'[OtelFile(Now)] = o.file
    BY <2>2 DEF Works, Rewritten
  <2>4. cmd.name = "uninstall" => \A b \in Native : Quiet(b) => Quiet(b)'
    BY <1>0, <2>2, <2>3, QuietKept, OthersQuiet DEF Removed
  <2>q. QED BY <2>1, <2>3, <2>4 DEF Silent
<1>7. CASE Switch
  <2>1. /\ cmd.pc = "otel" /\ cmd.name \in {"off", "on"} /\ Now \in cmd.todo /\ Now \in Native
        /\ UNCHANGED <<marker, clean>>
    BY <1>7, SwitchWorks
  <2>2. CASE /\ cmd.name = "on" /\ settings' = settings
             /\ Passed(cmd, Now, cmd') /\ cmd'.failed = cmd.failed
    <3>1. cmd'.name = "on" /\ cmd'.pc = "otel" /\ cmd'.restored = cmd.restored
      BY <2>2 DEF Passed
    <3>q. QED BY <1>1, <2>1, <2>2, <3>1 DEF Silent
  <2>3. ASSUME NEW o, Works(Now, o), cmd'.failed <=> cmd.failed \/ ~o.ok, cmd'.ok = o.ok,
               cmd'.restored = cmd.restored, cmd'.pc = "save", cmd'.todo = cmd.todo,
               cmd.name = "off" => Removed(Now, settings[OtelFile(Now)], cmd.held[Now], o)
        PROVE  Silent'
    <3>1. cmd'.name = cmd.name /\ Now' = Now
      BY <2>3 DEF Works, Now
    <3>2. \A b \in Native : b # Now /\ Quiet(b) => Quiet(b)'
      BY <1>0, <2>3, OthersQuiet
    <3>3. CASE cmd.name = "off"
      <4>1. ASSUME ~cmd'.failed, NEW b \in Native, Visited(b)'
            PROVE  Quiet(b)'
        <5>1. CASE b = Now
          BY <1>0, <2>1, <2>3, <3>3, <4>1, <5>1, RemovedQuiet
        <5>2. CASE b # Now
          <6>1. Visited(b) /\ ~cmd.failed
            BY <2>3, <3>1, <4>1, <5>2 DEF Visited
          <6>q. QED BY <3>2, <3>3, <5>2, <6>1 DEF Silent
        <5>q. QED BY <5>1, <5>2
      <4>q. QED BY <3>1, <3>3, <4>1 DEF Silent
    <3>4. CASE cmd.name = "on"
      <4>1. ASSUME clean', NEW b \in Native, ~(b \in cmd'.restored), ~(b = Now /\ o.ok)
            PROVE  Quiet(b)'
        <5>1. Quiet(b)
          BY <2>1, <2>3, <3>4, <4>1 DEF Silent
        <5>2. CASE b # Now
          BY <3>2, <5>1, <5>2
        <5>3. CASE b = Now
          <6>1. settings'[OtelFile(Now)] = settings[OtelFile(Now)]
            BY <2>3, <4>1, <5>3 DEF Works, Handled, Rewritten
          <6>q. QED BY <1>0, <5>1, <5>3, <6>1, QuietKept
        <5>q. QED BY <5>2, <5>3
      <4>2. \A b \in Native : (cmd'.pc = "save" /\ b = Now' /\ cmd'.ok) <=> (b = Now /\ o.ok)
        BY <2>3, <3>1
      <4>3. cmd'.name = "on" /\ \A b \in Native : clean' => Quiet(b)' \/ b \in cmd'.restored \/ (b = Now /\ o.ok)
        BY <3>1, <3>4, <4>1
      <4>q. QED BY <4>2, <4>3 DEF Silent
    <3>q. QED BY <2>1, <3>3, <3>4
  <2>q. QED BY <1>7, <2>2, <2>3, SwitchWorks
<1>8. CASE SwitchThrows \/ SaveThrows
  <2>1. /\ Passed(cmd, Now, cmd') /\ cmd'.failed = TRUE /\ cmd.name \in {"off", "on"}
        /\ UNCHANGED <<settings, marker>>
    BY <1>8, ThrowIs
  <2>2. cmd'.name = cmd.name /\ cmd'.pc = "otel" /\ cmd'.restored = cmd.restored
    BY <2>1 DEF Passed
  <2>3. cmd.name = "on" /\ clean' => clean /\ (cmd.pc = "save" => ~cmd.ok)
    BY <1>8 DEF SwitchThrows, SaveThrows
  <2>q. QED BY <1>1, <2>1, <2>2, <2>3 DEF Silent
<1>9. CASE SaveOne
  <2>1. UNCHANGED <<settings, marker, clean>>
    BY <1>9 DEF SaveOne, Steps
  <2>2. /\ Now \in cmd.todo /\ Now \in Native /\ cmd.name \in {"off", "on"} /\ cmd.pc = "save"
        /\ cmd'.name = cmd.name /\ cmd'.todo = cmd.todo \ {Now} /\ cmd'.pc = "otel"
        /\ cmd'.restored = (IF cmd.name = "on" /\ cmd.ok THEN cmd.restored \union {Now} ELSE cmd.restored)
        /\ cmd'.failed = cmd.failed
    BY <1>9, SaveOneIs
  <2>3. \A b \in Native : Visited(b)' => Visited(b)
    BY <2>2 DEF Visited
  <2>q. QED BY <1>1, <2>1, <2>2, <2>3 DEF Silent
<1>10. CASE RollBack /\ cmd.restored # {}
  <2>1. /\ Restored \in cmd.restored /\ cmd.name = "on" /\ cmd.pc # "save"
        /\ cmd'.name = "on" /\ cmd'.restored = cmd.restored \ {Restored}
    BY <1>10, RollBackWorks DEF Rolled
  <2>2. PICK o : /\ Works(Restored, o) /\ clean' = (clean /\ o.ok)
                 /\ Removed(Restored, settings[OtelFile(Restored)], cmd.held[Restored], o)
    BY <1>10, RollBackWorks
  <2>3. ASSUME clean', NEW b \in Native, b \notin cmd'.restored
        PROVE  Quiet(b)'
    <3>1. CASE b = Restored
      BY <1>0, <2>1, <2>2, <2>3, <3>1, RemovedQuiet
    <3>2. CASE b # Restored
      <4>1. Quiet(b)
        BY <2>1, <2>2, <2>3, <3>2 DEF Silent
      <4>q. QED BY <1>0, <2>2, <3>2, <4>1, OthersQuiet
    <3>q. QED BY <3>1, <3>2
  <2>q. QED BY <2>1, <2>3 DEF Silent
<1>11. CASE RollBackThrows
  BY <1>11, ThrownBack DEF Rolled, Silent
<1>12. CASE EndPlain
  BY <1>1, <1>12, IdleIs DEF EndPlain, Silent
<1>13. CASE EndPurge \/ EndOn
  BY <1>13, IdleIs DEF EndPurge, EndOn, Silent
<1>14. CASE EndOff
  <2>1. cmd.todo = {} /\ cmd.name = "off" /\ clean' = ~cmd.failed /\ settings' = settings /\ cmd'.name = "idle"
    BY <1>14, FinishedIs, IdleIs DEF EndOff
  <2>q. QED BY <1>1, <2>1 DEF Silent, Visited
<1>15. CASE RollBack /\ cmd.restored = {}
  <2>1. cmd.pc # "save" /\ cmd.name = "on" /\ UNCHANGED <<settings, clean>> /\ cmd'.name = "idle"
    BY <1>15, FinishedIs, IdleIs DEF RollBack
  <2>q. QED BY <1>1, <1>15, <2>1 DEF Silent
<1>16. CASE Crash
  <2>1. /\ clean' = (clean /\ cmd.name \notin {"off", "on"}) /\ UNCHANGED <<settings, marker>>
        /\ cmd'.name = "idle" /\ cmd.name \in {"idle", "setup", "uninstall", "off", "on"}
    BY <1>16, IdleIs, CommandIs DEF Crash, TypeOK
  <2>q. QED BY <1>1, <2>1 DEF Silent
<1>q. QED BY <1>2, <1>3, <1>4, <1>5, <1>6, <1>7, <1>8, <1>9, <1>10, <1>11, <1>12, <1>13, <1>14, <1>15, <1>16, StepIs

-----------------------------------------------------------------------------
(* Following.                                                              *)
LEMMA FollowsAre == \A a, c : Follows(a, c) <=> FollowsIn(settings[OtelFile(a)], Desired(a, c))
BY DEF Follows, FollowsIn

(* One whose configuration succeeded says what it should.                  *)
LEMMA ConfiguredFollows ==
    ASSUME TypeOK, OnRecord, ~lost, NEW a, NEW o, Works(a, o), o.ok, cmd.name \in {"setup", "on"},
           Configured(a, settings[OtelFile(a)], cmd.held[a], cmd.config, o)
    PROVE  FollowsIn(settings'[OtelFile(a)], Desired(a, cmd.config))
<1>1. settings'[OtelFile(a)] = o.file /\ a \in Native
  BY DEF Works, Rewritten
<1>2. a = "codex" \/ OursIn(settings[OtelFile(a)]) \subseteq cmd.held[a].owned
  BY <1>1 DEF OnRecord, Record, Forgotten, Native, OtelFile
<1>q. QED BY <1>1, <1>2 DEF Configured

(* Whether an exporter is to follow the configuration.                     *)
Due(a) == IF cmd.name = "setup" THEN a \in detected ELSE HooksInstalled(settings[a])
Bound == cmd.name \in {"setup", "on"} /\ ~cmd.failed /\ touched = {} /\ ~lost

(* What setup and on passed without a failure says what it should.         *)
LEMMA FollowingKept ==
    ASSUME TypeOK, OnRecord, Following, [Next]_vars
    PROVE  Following'
<1> SUFFICES ASSUME Bound', NEW b \in Native, Visited(b)', Due(b)'
             PROVE  FollowsIn(settings'[OtelFile(b)], Desired(b, cmd'.config))
  BY DEF Following, Bound, Due, Follows, FollowsIn
<1>0. ~lost /\ b \in Files /\ \A a, c : Follows(a, c) <=> FollowsIn(settings[OtelFile(a)], Desired(a, c))
  BY LostStays, FollowsAre DEF Bound, Native, Files
<1>1. Bound => (Visited(b) /\ Due(b) => Follows(b, cmd.config))
  BY DEF Following, Bound, Due
<1>2. CASE Begins
  BY <1>2 DEF Begins, Visited, Due, Bound
<1>3. CASE Rests
  <2>1. Bound /\ Visited(b) /\ Due(b) /\ settings' = settings /\ cmd' = cmd
    BY <1>3 DEF Rests, Bound, Visited, Due, Now
  <2>q. QED BY <1>0, <1>1, <2>1
<1>4. CASE Edits
  BY <1>4 DEF Edits, Bound
<1>5. CASE LoseState
  BY <1>5 DEF LoseState, Bound
<1>6. CASE Hooks
  <2>1. \A path \in Files : settings'[path].env = settings[path].env
    BY <1>6, HooksChange
  <2>2. UNCHANGED <<lost, touched, detected>> /\ cmd.pc = "hooks" /\ Now \in cmd.todo
        /\ cmd.name \in {"setup", "uninstall"}
    BY <1>6, HooksKeep
  <2>3. PICK o : HookKept(o)
    BY <1>6, HooksKeep
  <2>4. cmd'.name = cmd.name /\ cmd'.config = cmd.config /\ (cmd'.failed <=> cmd.failed \/ ~o.ok)
        /\ cmd'.pc \in {"hooks", "otel"}
    BY <2>3 DEF HookKept
  <2>5. Bound /\ Visited(b) /\ Due(b)
    BY <2>2, <2>3, <2>4 DEF HookKept, Bound, Visited, Due
  <2>6. FollowsIn(settings[OtelFile(b)], Desired(b, cmd.config))
    BY <1>0, <1>1, <2>5
  <2>7. settings'[OtelFile(b)].env = settings[OtelFile(b)].env
    BY <2>1, OtelFileIs
  <2>q. QED BY <2>4, <2>6, <2>7 DEF FollowsIn, OursIn
<1>7. CASE Exporter
  <2>1. /\ cmd.pc = "otel" /\ cmd'.pc = "hooks" /\ cmd'.todo = cmd.todo \ {Now}
        /\ cmd.name \in {"setup", "uninstall"}
    BY <1>7, ExporterWorks
  <2>2. PICK o : /\ Works(Now, o)
                 /\ cmd'.failed <=> cmd.failed \/ ~o.ok
                 /\ cmd.name = "setup" =>
                        Configured(Now, settings[OtelFile(Now)], cmd.held[Now], cmd.config, o)
    BY <1>7, ExporterWorks
  <2>3. cmd'.name = cmd.name /\ cmd'.config = cmd.config /\ detected' = detected /\ touched' = touched
    BY <2>2 DEF Works
  <2>4. cmd.name = "setup" /\ Bound /\ o.ok
    BY <1>0, <2>1, <2>2, <2>3 DEF Bound
  <2>5. CASE b = Now
    BY <1>0, <2>2, <2>3, <2>4, <2>5, ConfiguredFollows
  <2>6. CASE b # Now
    <3>1. Visited(b) /\ Due(b) /\ settings'[OtelFile(b)] = settings[OtelFile(b)]
      BY <2>1, <2>2, <2>3, <2>4, <2>6 DEF Visited, Due, Works, Rewritten
    <3>q. QED BY <1>0, <1>1, <2>3, <2>4, <3>1
  <2>q. QED BY <2>5, <2>6
<1>8. CASE Switch
  <2>1. /\ cmd.pc = "otel" /\ cmd.name \in {"off", "on"} /\ Now \in cmd.todo /\ Now \in Native
        /\ UNCHANGED <<detected, touched, lost>>
    BY <1>8, SwitchWorks
  <2>2. CASE /\ ~HooksInstalled(settings[Now]) /\ settings' = settings
             /\ Passed(cmd, Now, cmd') /\ cmd'.failed = cmd.failed
    <3>1. cmd'.name = cmd.name /\ cmd'.config = cmd.config /\ cmd'.pc = "otel" /\ cmd'.todo = cmd.todo \ {Now}
      BY <2>2 DEF Passed
    <3>2. Bound /\ Due(b) /\ b # Now /\ Visited(b)
      BY <2>1, <2>2, <3>1 DEF Bound, Due, Visited
    <3>q. QED BY <1>0, <1>1, <2>2, <3>1, <3>2
  <2>3. ASSUME NEW o, Works(Now, o), cmd'.failed <=> cmd.failed \/ ~o.ok, cmd'.todo = cmd.todo,
               cmd.name = "on" => Configured(Now, settings[OtelFile(Now)], cmd.held[Now], cmd.config, o)
        PROVE  FollowsIn(settings'[OtelFile(b)], Desired(b, cmd'.config))
    <3>1. cmd'.name = cmd.name /\ cmd'.config = cmd.config /\ Now' = Now
      BY <2>3 DEF Works, Now
    <3>2. cmd.name = "on" /\ Bound /\ o.ok
      BY <1>0, <2>1, <2>3, <3>1 DEF Bound
    <3>3. CASE b = Now
      BY <1>0, <2>3, <3>1, <3>2, <3>3, ConfiguredFollows
    <3>4. CASE b # Now
      <4>1. settings'[OtelFile(b)] = settings[OtelFile(b)] /\ settings'[b].hooks = settings[b].hooks
        BY <1>0, <2>3, <3>4 DEF Works, Rewritten
      <4>2. Visited(b) /\ Due(b)
        BY <2>3, <3>1, <3>2, <3>4, <4>1 DEF Visited, Due, HooksInstalled
      <4>q. QED BY <1>0, <1>1, <3>1, <3>2, <4>1, <4>2
    <3>q. QED BY <3>3, <3>4
  <2>q. QED BY <1>8, <2>2, <2>3, SwitchWorks
<1>9. CASE SwitchThrows \/ SaveThrows
  BY <1>9, ThrowIs DEF Bound
<1>10. CASE SaveOne
  <2>1. UNCHANGED <<settings, detected, touched, lost>>
    BY <1>10 DEF SaveOne, Steps
  <2>2. /\ Now \in cmd.todo /\ cmd.pc = "save" /\ cmd'.name = cmd.name /\ cmd'.todo = cmd.todo \ {Now}
        /\ cmd'.pc = "otel" /\ cmd'.failed = cmd.failed /\ cmd'.config = cmd.config
    BY <1>10, SaveOneIs
  <2>3. Bound /\ Visited(b) /\ Due(b)
    BY <2>1, <2>2 DEF Bound, Visited, Due
  <2>q. QED BY <1>0, <1>1, <2>1, <2>2, <2>3
<1>11. CASE (RollBack /\ cmd.restored # {}) \/ RollBackThrows
  <2>1. cmd'.failed = cmd.failed /\ cmd.failed
    BY <1>11, RollBackWorks, ThrownBack DEF Rolled
  <2>q. QED BY <2>1 DEF Bound
<1>12. CASE EndPlain \/ EndPurge \/ EndOff \/ EndOn \/ Crash \/ (RollBack /\ cmd.restored = {})
  BY <1>12, IdleIs DEF EndPlain, EndPurge, EndOff, EndOn, Crash, RollBack, Bound
<1>q. QED BY <1>2, <1>3, <1>4, <1>5, <1>6, <1>7, <1>8, <1>9, <1>10, <1>11, <1>12, StepIs

-----------------------------------------------------------------------------
(* The inductive invariant.                                                *)
Inv == TypeOK /\ Untaken /\ OnRecord /\ Legacy /\ ModeOnRecord /\ Saved /\ Silent /\ Following

(* The machines considered satisfy the invariant.                          *)
LEMMA InitInv == Init => Inv
<1> SUFFICES ASSUME Init
             PROVE  Inv
  OBVIOUS
<1>1. TypeOK /\ cmd.name = "idle" /\ Record = state /\ lost = FALSE /\ marker = FALSE /\ ~Forgotten
  BY InitTypes, IdleIs DEF Init, Record, Forgotten
<1>2. PICK s \in Scenes : settings = s.settings /\ born = s.settings
  BY DEF Init
<1>3. \A path \in Files : OursIn(settings[path]) = {}
  BY <1>2, SetupAssumption DEF IsScene, OursIn
<1>4. OnRecord /\ Legacy
  BY <1>3 DEF OnRecord, Legacy, Files
<1>5. ModeOnRecord
  <2>1. "codex" \in Agents
    BY NativeIs DEF Native
  <2>2. ~state["codex"].prior
    BY <2>1, GoneIs DEF Init, NoRecord
  <2>q. QED BY <1>1, <1>2, <2>2 DEF ModeOnRecord, Agree, Toml
<1>6. Untaken /\ Saved /\ Silent /\ Following
  BY <1>1 DEF Untaken, Saved, Silent, Following
<1>q. QED BY <1>1, <1>4, <1>5, <1>6 DEF Inv

(* Every step keeps it.                                                    *)
LEMMA StepInv == Inv /\ [Next]_vars => Inv'
BY StepTypes, UntakenKept, OnRecordKept, LegacyKept, ModeKept, SavedKept, SilentKept, FollowingKept DEF Inv

(* The inductive invariant of setup, off, on and uninstall.                *)
THEOREM Invariance == Spec => []Inv
BY InitInv, StepInv, PTL DEF Spec

-----------------------------------------------------------------------------
(* Every variable keeps its type, and a command is where its name allows.  *)
THEOREM TypeCorrect == Spec => []TypeOK
BY Invariance, PTL DEF Inv

(* While the machine is off no exporter of AgentWatch's is left switched   *)
(* on, whatever off, on and uninstall tried and however they ended (but    *)
(* for one whose record was lost, or whose work back failed).              *)
THEOREM SilentWhileOffHolds == Spec => []SilentWhileOff
<1>1. Inv => SilentWhileOff
  BY DEF Inv, Silent, Quiet, SilentWhileOff, IsDisabled
<1>q. QED BY <1>1, Invariance, PTL

(* A setup or on that succeeds leaves each exporter as its configuration   *)
(* wants it.                                                               *)
THEOREM ExporterFollowsConfigHolds == Spec => []ExporterFollowsConfig
<1>1. Inv => ExporterFollowsConfig
  BY DEF Inv, Following, Visited, Finished, ExporterFollowsConfig
<1>q. QED BY <1>1, Invariance, PTL

(* A config.toml that was made private for the bearer's sake is made       *)
(* readable again when the block goes, whichever command removes it.       *)
THEOREM ModeRestoredHolds == Spec => []ModeRestored
<1>1. Inv => ModeRestored
  BY DEF Inv, ModeOnRecord, Agree, Toml, Record, ModeRestored
<1>q. QED BY <1>1, Invariance, PTL

(* What status and doctor report off is off.                               *)
THEOREM ReportedOffIsOffHolds == Spec => []ReportedOffIsOff
<1>1. ASSUME Inv
      PROVE  ReportedOffIsOff
  <2>1. SUFFICES ASSUME cmd.name = "idle", ~lost, NEW a \in Native, ~Wanted(a, LoadConfig),
                        InspectsConfigured(a, settings[OtelFile(a)], state[a], LoadConfig)
                 PROVE  OursIn(settings[OtelFile(a)]) = {}
    BY DEF ReportedOffIsOff, Sends
  <2> DEFINE f == settings[OtelFile(a)]
  <2>2. IsFile(OtelFile(a), f) /\ f.env \in [DOMAIN f.env -> Marked]
    BY <1>1, OtelFileIs, FileIs DEF Inv, TypeOK, AreFiles
  <2>3. CASE a = "codex"
    <3>1. DOMAIN f.env \subseteq {"otel"} /\ ~HasBlock(f)
      BY <2>1, <2>2, <2>3, FileIs DEF InspectsConfigured, InspectCodex, OtelFile
    <3>q. QED BY <3>1 DEF HasBlock, OursIn
  <2>4. CASE a # "codex"
    <3>1. OtelFile(a) = a /\ InspectDisabled(a, f, state[a])
      BY <2>1, <2>4 DEF InspectsConfigured, InspectClaude, InspectGemini, OtelFile, Native
    <3>2. OursIn(f) \subseteq state[a].owned
      BY <1>1, <2>1, <2>4, <3>1 DEF Inv, OnRecord, Record, Forgotten, Native
    <3>3. "helper" \notin DOMAIN f.env /\ (f.state = "missing" => DOMAIN f.env = {})
      BY <2>2, <2>4, <3>1, FileIs, NativeIs DEF Keys, Native
    <3>q. QED BY <3>1, <3>2, <3>3 DEF InspectDisabled, Leftover, OursIn
  <2>q. QED BY <2>3, <2>4
<1>q. QED BY <1>1, Invariance, PTL

-----------------------------------------------------------------------------
(* No step of a command takes what the user set.                           *)
LEMMA HooksUsers ==
    ASSUME TypeOK, Hooks, NEW path \in Files
    PROVE  /\ settings'[path].env = settings[path].env /\ settings'[path].helper = settings[path].helper
           /\ \A e \in Events : "user" \in settings[path].hooks[e] => "user" \in settings'[path].hooks[e]
<1>1. PICK o : /\ Hooked(Now, settings[Now], cmd.held[Now], o)
               /\ settings' = [settings EXCEPT ![Now] = o.file]
  BY HooksIs
<1>2. Now \in Files /\ AreFiles(settings) /\ IsFile(Now, o.file)
  BY <1>1, HooksIs, NativeIs DEF TypeOK, Hooked
<1>3. settings'[Now] = o.file /\ \A other \in Files : other # Now => settings'[other] = settings[other]
  BY <1>1, <1>2, FilesKept
<1>4. CASE path = Now
  BY <1>1, <1>3, <1>4 DEF Hooked
<1>5. CASE path # Now
  BY <1>3, <1>5
<1>q. QED BY <1>4, <1>5

(* What one write of a file leaves of the user's.                          *)
UsersLeft(a, e, f, g) ==
    /\ (a = "gemini" /\ ~e.there) \/ Unchanged(f, g, Protected(a, f, e, cmd.config))
    /\ \A event \in Events : "user" \in f.hooks[event] => "user" \in g.hooks[event]
    /\ f.helper = "user" => g.helper = "user"

(* Nor does what is done to an exporter.                                   *)
LEMMA ExportersUsers ==
    ASSUME TypeOK, NEW a \in Native, NEW o, Handled(a, settings[OtelFile(a)], cmd.held[a], cmd.config, o),
           NEW new, new = [settings EXCEPT ![OtelFile(a)] = o.file],
           NEW path \in Files, NEW agent, agent = (IF path = "codex.toml" THEN "codex" ELSE path)
    PROVE  UsersLeft(agent, cmd.held[agent], settings[path], new[path])
<1>1. DOMAIN settings = Files /\ OtelFile(a) \in Files
  BY OtelFileIs DEF TypeOK, AreFiles
<1>2. CASE path = OtelFile(a)
  <2>1. agent = a
    BY <1>2 DEF OtelFile, Native
  <2>2. new[path] = o.file
    BY <1>1, <1>2
  <2>q. QED BY <1>2, <2>1, <2>2 DEF Handled, UsersLeft
<1>3. CASE path # OtelFile(a)
  <2>1. new[path] = settings[path]
    BY <1>1, <1>3
  <2>q. QED BY <2>1 DEF UsersLeft, Unchanged, Protected, StillSays, Set
<1>q. QED BY <1>2, <1>3

(* No command removes or changes what the user set, but where the record   *)
(* or, without one, the guess takes it for AgentWatch's.                   *)
THEOREM UsersKeptHolds == Spec => UsersKept
<1>1. ASSUME TypeOK, [Next]_vars, mishaps' = mishaps, settings' # settings, NEW path \in Files, NEW agent,
             agent = (IF path = "codex.toml" THEN "codex" ELSE path)
      PROVE  UsersLeft(agent, cmd.held[agent], settings[path], settings'[path])
  <2>1. CASE Hooks
    BY <1>1, <2>1, HooksUsers DEF UsersLeft, Unchanged, Protected, StillSays, Set
  <2>2. ~Edits
    BY <1>1 DEF Edits, TypeOK
  <2>3. CASE Exporter
    BY <1>1, <2>3, ExporterIs, ExportersUsers
  <2>4. CASE Switch
    BY <1>1, <2>4, SwitchIs, ExportersUsers
  <2>5. CASE RollBack
    <3>1. cmd.restored # {}
      BY <1>1, <2>5 DEF RollBack
    <3>q. QED BY <1>1, <2>5, <3>1, RollBackIs, ExportersUsers
  <2>6. Hooks \/ Edits \/ Exporter \/ Switch \/ RollBack
    BY <1>1, StepIs DEF Begins, Rests, SwitchThrows, SaveOne, SaveThrows, EndPlain, EndPurge, EndOff,
         EndOn, RollBackThrows, Crash, LoseState
  <2>q. QED BY <2>1, <2>2, <2>3, <2>4, <2>5, <2>6
<1>2. TypeOK /\ [Next]_vars =>
        [mishaps' = mishaps /\ settings' # settings =>
            \A path \in DOMAIN settings :
                LET f == settings[path]
                    g == settings'[path]
                    agent == IF path = "codex.toml" THEN "codex" ELSE path
                    entry == cmd.held[agent]
                IN  /\ \/ path = "gemini" /\ ~entry.there
                       \/ \A k \in Protected(agent, f, entry, cmd.config) : StillSays(f, g, k)
                    /\ \A e \in Events : "user" \in f.hooks[e] => "user" \in g.hooks[e]
                    /\ f.helper = "user" => g.helper = "user"]_vars
  <2>1. SUFFICES ASSUME TypeOK, [Next]_vars, mishaps' = mishaps, settings' # settings, NEW path \in Files
                 PROVE  LET f == settings[path]
                            g == settings'[path]
                            agent == IF path = "codex.toml" THEN "codex" ELSE path
                            entry == cmd.held[agent]
                        IN  /\ \/ path = "gemini" /\ ~entry.there
                               \/ \A k \in Protected(agent, f, entry, cmd.config) : StillSays(f, g, k)
                            /\ \A e \in Events : "user" \in f.hooks[e] => "user" \in g.hooks[e]
                            /\ f.helper = "user" => g.helper = "user"
    BY DEF TypeOK, AreFiles
  <2> DEFINE agent == IF path = "codex.toml" THEN "codex" ELSE path
  <2>2. UsersLeft(agent, cmd.held[agent], settings[path], settings'[path])
    BY <1>1, <2>1
  <2>3. agent = "gemini" => path = "gemini"
    OBVIOUS
  <2>q. QED BY <2>2, <2>3 DEF UsersLeft, Unchanged
<1>q. QED BY <1>2, TypeCorrect, PTL DEF UsersKept, Spec

-----------------------------------------------------------------------------
(* What a hook makes of the configuration.                                 *)

(* No URL of the parsed configuration is a bad one.                        *)
LEMMA LoadedIs ==
    ASSUME IsStored(file)
    PROVE  /\ IsConfig(LoadConfig)
           /\ \A f \in UrlFields : LoadConfig.urls[f] # Bad
           /\ \A r \in DOMAIN LoadConfig.roots : \A f \in RootUrlFields : LoadConfig.roots[r].urls[f] # Bad
           /\ file.state # "ok" => LoadConfig = DefaultConfig
           /\ file.state = "ok" => LoadConfig = ConfigSchema(file.raw)
<1>1. IsConfig(LoadConfig) /\ IsConfig(file.raw)
  BY LoadIs DEF IsStored
<1>2. CASE file.state = "ok"
  <2> DEFINE c == file.raw
             s == ConfigSchema(c)
  <2>1. /\ s.urls = Parsed(c.urls) /\ DOMAIN s.roots = DOMAIN c.roots
        /\ \A r \in DOMAIN c.roots : s.roots[r].urls = Parsed(c.roots[r].urls)
    BY <1>1, Schema
  <2>2. c.urls \in [UrlFields -> Value] /\ \A r \in DOMAIN c.roots : c.roots[r].urls \in [RootUrlFields -> Value]
    BY <1>1, ConfigIs, IdentityIs
  <2>3. \A f \in UrlFields : s.urls[f] # Bad
    BY <2>1, <2>2, Parses
  <2>4. \A r \in DOMAIN s.roots : \A f \in RootUrlFields : s.roots[r].urls[f] # Bad
    BY <2>1, <2>2, Parses
  <2>q. QED BY <1>1, <1>2, <2>3, <2>4 DEF LoadConfig
<1>3. CASE file.state # "ok"
  <2>1. \A f \in UrlFields : DefaultConfig.urls[f] # Bad
    BY DEF DefaultConfig, Bad, None
  <2>q. QED BY <1>1, <1>3, <2>1, DefaultIsConfig DEF LoadConfig
<1>q. QED BY <1>2, <1>3

(* The configuration of a root.                                            *)
LEMMA WithoutIs ==
    ASSUME NEW c, IsConfig(c), NEW i \in Identity
    PROVE  LET w == WithoutDestination(c, i)
               base == i.urls.endpoint
               route == IF base # None THEN None ELSE Refused
           IN  /\ IsConfig(w) /\ w.consent = c.consent /\ w.content = c.content /\ w.git = c.git
               /\ w.otel = c.otel /\ w.roots = c.roots /\ w.urls.endpoint = c.urls.endpoint
               /\ \A f \in UrlFields : w.urls[f] \in {c.urls[f], None, Refused}
               /\ Named(c, i) => /\ w.urls.eventsUrl = route /\ w.urls.otlpUrl = route
                                 /\ base # None /\ ~SameEndpoint(base, c.urls.endpoint) =>
                                        w.urls.enforcementUrl = None
<1> DEFINE w == WithoutDestination(c, i)
           base == i.urls.endpoint
           route == IF base # None THEN None ELSE Refused
           dropped == base # None /\ ~SameEndpoint(base, c.urls.endpoint)
           p == [c EXCEPT !.urls.eventsUrl = route, !.urls.otlpUrl = route,
                          !.urls.enforcementUrl =
                              IF base # None /\ ~SameEndpoint(base, c.urls.endpoint) THEN None ELSE @]
<1>1. c.urls \in [UrlFields -> Value] /\ UrlFields = {"endpoint", "eventsUrl", "otlpUrl", "enforcementUrl"}
  BY ConfigIs DEF UrlFields, RootUrlFields
<1>2. CASE ~Named(c, i)
  BY <1>2 DEF WithoutDestination
<1>3. CASE Named(c, i)
  <2>1. w = p
    BY <1>3 DEF WithoutDestination
  <2> HIDE DEF dropped, route
  <2>2. DOMAIN c = {"urls", "token", "roots", "consent", "content", "git", "otel"}
    BY ConfigIs
  <2>3. /\ DOMAIN p = DOMAIN c /\ p = [x \in DOMAIN p |-> p[x]]
        /\ p.token = c.token /\ p.roots = c.roots /\ p.consent = c.consent /\ p.content = c.content
        /\ p.git = c.git /\ p.otel = c.otel
    BY <2>2
  <2>4. /\ p.urls.endpoint = c.urls.endpoint
        /\ p.urls.eventsUrl = route /\ p.urls.otlpUrl = route
        /\ p.urls.enforcementUrl = IF dropped THEN None ELSE c.urls.enforcementUrl
        /\ DOMAIN p.urls = UrlFields /\ p.urls = [x \in UrlFields |-> p.urls[x]]
    BY <1>1, <2>2 DEF dropped
  <2> HIDE DEF p, w
  <2>5. route \in {None, Refused} /\ None \in Value /\ Refused \in Value
    BY Values DEF route
  <2>6. \A f \in UrlFields : p.urls[f] \in {c.urls[f], None, Refused}
    BY <1>1, <2>4, <2>5
  <2>7. p.urls \in [UrlFields -> Value]
    BY <1>1, <2>4, <2>5, <2>6
  <2>8. IsConfig(p)
    BY <2>3, <2>7, ConfigIs
  <2>q. QED BY <2>1, <2>3, <2>4, <2>6, <2>8 DEF w, route, dropped
<1>q. QED BY <1>2, <1>3

(* A root's own values over the machine's.                                 *)
LEMMA AppliedIs ==
    ASSUME NEW c, IsConfig(c), NEW i \in Identity
    PROVE  LET e == ApplyRoot(c, i)
               w == WithoutDestination(c, i)
           IN  /\ IsConfig(e) /\ e.consent = c.consent /\ e.content = c.content /\ e.git = c.git
               /\ e.otel = c.otel
               /\ \A f \in UrlFields :
                     e.urls[f] = (IF f \in RootUrlFields /\ i.urls[f] # None THEN i.urls[f] ELSE w.urls[f])
<1> DEFINE w == WithoutDestination(c, i)
           urls == LaidOver(w.urls, i.urls)
           token == IF i.token # None THEN i.token ELSE w.token
           e == [w EXCEPT !.urls = urls, !.token = token]
<1>1. /\ IsConfig(w) /\ w.consent = c.consent /\ w.content = c.content /\ w.git = c.git /\ w.otel = c.otel
  BY WithoutIs
<1> HIDE DEF w
<1>2. /\ DOMAIN w = {"urls", "token", "roots", "consent", "content", "git", "otel"}
      /\ w.urls \in [UrlFields -> Value] /\ w.token \in Value
  BY <1>1, ConfigIs
<1>3. i.urls \in [RootUrlFields -> Value] /\ i.token \in Value /\ RootUrlFields \subseteq UrlFields
  BY IdentityIs DEF UrlFields
<1>4. /\ urls \in [UrlFields -> Value]
      /\ \A f \in UrlFields :
            urls[f] = (IF f \in RootUrlFields /\ i.urls[f] # None THEN i.urls[f] ELSE w.urls[f])
  BY <1>2, <1>3 DEF LaidOver
<1> HIDE DEF urls, token
<1>5. token \in Value
  BY <1>2, <1>3 DEF token
<1>6. /\ DOMAIN e = DOMAIN w /\ e = [x \in DOMAIN e |-> e[x]] /\ e.urls = urls /\ e.token = token
      /\ e.roots = w.roots /\ e.consent = w.consent /\ e.content = w.content /\ e.git = w.git /\ e.otel = w.otel
  BY <1>2
<1>7. ApplyRoot(c, i) = e
  BY DEF ApplyRoot, urls, token, w
<1> HIDE DEF e
<1>8. IsConfig(e)
  BY <1>1, <1>2, <1>4, <1>5, <1>6, ConfigIs
<1>q. QED BY <1>1, <1>4, <1>6, <1>7, <1>8 DEF w

(* A folder's root is one the configuration names.                         *)
LEMMA SelectedIs ==
    ASSUME NEW roots, DOMAIN roots \subseteq Roots, NEW cwd \in Cwds
    PROVE  SelectRoot(roots, cwd) = NoRoot \/ SelectRoot(roots, cwd) \in DOMAIN roots
<1>1. Enclosing[cwd] \in Seq(Roots)
  BY SetupAssumption
<1>2. CASE \E i \in DOMAIN Enclosing[cwd] : Enclosing[cwd][i] \in DOMAIN roots
  <2>1. FirstIn(Enclosing[cwd], DOMAIN roots) \in DOMAIN roots
    BY <1>1, <1>2, FirstInIs
  <2>q. QED BY <1>2, <2>1 DEF SelectRoot
<1>3. CASE ~\E i \in DOMAIN Enclosing[cwd] : Enclosing[cwd][i] \in DOMAIN roots
  BY <1>3 DEF SelectRoot
<1>q. QED BY <1>2, <1>3

(* A root's destination laid over the machine's.                           *)
LEMMA OverriddenIs ==
    ASSUME IsStored(file), NEW cwd \in Cwds
    PROVE  /\ IsConfig(ApplyRootOverride(LoadConfig, cwd))
           /\ \A f \in UrlFields : ApplyRootOverride(LoadConfig, cwd).urls[f] # Bad
           /\ file.state # "ok" => ApplyRootOverride(LoadConfig, cwd) = LoadConfig
<1> DEFINE c == LoadConfig
           root == SelectRoot(c.roots, cwd)
<1>1. /\ IsConfig(c) /\ \A f \in UrlFields : c.urls[f] # Bad
      /\ \A r \in DOMAIN c.roots : \A f \in RootUrlFields : c.roots[r].urls[f] # Bad
      /\ file.state # "ok" => c = DefaultConfig
  BY LoadedIs
<1>2. DOMAIN c.roots \subseteq Roots /\ c.roots \in [DOMAIN c.roots -> Identity]
  BY <1>1, ConfigIs
<1>3. root = NoRoot \/ root \in DOMAIN c.roots
  BY <1>2, SelectedIs
<1>4. NoRoot \notin DOMAIN c.roots
  BY <1>2, SetupAssumption
<1> HIDE DEF c
<1>5. CASE root = NoRoot
  <2>1. ApplyRootOverride(c, cwd) = c
    BY <1>5 DEF ApplyRootOverride
  <2>q. QED BY <1>1, <2>1 DEF c
<1>6. CASE root \in DOMAIN c.roots
  <2> DEFINE i == c.roots[root]
  <2>1. ApplyRootOverride(c, cwd) = ApplyRoot(c, i)
    BY <1>4, <1>6 DEF ApplyRootOverride
  <2>2. i \in Identity /\ \A f \in RootUrlFields : i.urls[f] # Bad
    BY <1>1, <1>2, <1>6
  <2>3. DOMAIN c.roots # {} /\ (file.state # "ok" => FALSE)
    BY <1>1, <1>6, DefaultIsConfig
  <2> HIDE DEF i, root
  <2>4. /\ IsConfig(ApplyRoot(c, i))
        /\ \A f \in UrlFields : WithoutDestination(c, i).urls[f] \in {c.urls[f], None, Refused}
        /\ \A f \in UrlFields : ApplyRoot(c, i).urls[f] =
              (IF f \in RootUrlFields /\ i.urls[f] # None THEN i.urls[f] ELSE WithoutDestination(c, i).urls[f])
    BY <1>1, <2>2, AppliedIs, WithoutIs
  <2>5. None # Bad /\ Refused # Bad
    BY DEF None, Refused, Bad
  <2>6. \A f \in UrlFields : ApplyRoot(c, i).urls[f] # Bad
    BY <1>1, <2>2, <2>4, <2>5
  <2>q. QED BY <2>1, <2>3, <2>4, <2>6 DEF c
<1>q. QED BY <1>3, <1>5, <1>6

(* A repository's file names no destination, and turns no flag on.         *)
LEMMA NarrowedIs ==
    ASSUME NEW base, NEW repo
    PROVE  LET n == WithoutWidenedCapture(base, WithoutGlobalOnly(repo))
           IN  /\ \A k \in GlobalOnly : k \notin DOMAIN n
               /\ \A k \in Flags : k \in DOMAIN n /\ n[k] = "on" => base[k]
<1> DEFINE r == WithoutGlobalOnly(repo)
           n == WithoutWidenedCapture(base, r)
<1>1. DOMAIN r = DOMAIN repo \ GlobalOnly
  BY DEF WithoutGlobalOnly, Restrict
<1> HIDE DEF r
<1>2. /\ DOMAIN n = {k \in DOMAIN r : ~(k \in Flags /\ r[k] = "on" /\ ~base[k])}
      /\ \A k \in DOMAIN n : n[k] = r[k]
  BY DEF WithoutWidenedCapture, Restrict
<1> HIDE DEF n
<1>3. \A k \in GlobalOnly : k \notin DOMAIN n
  BY <1>1, <1>2
<1>4. \A k \in Flags : k \in DOMAIN n /\ n[k] = "on" => base[k]
  BY <1>2
<1>q. QED BY <1>3, <1>4 DEF n, r

(* A repository's file laid over a configuration, global-only keys         *)
(* removed.                                                                *)
LEMMA OverlayIs ==
    ASSUME NEW base, IsConfig(base), NEW repo, \A k \in GlobalOnly : k \notin DOMAIN repo
    PROVE  LET o == Overlay(base, repo)
           IN  /\ IsConfig(o) /\ o.urls = base.urls /\ o.token = base.token /\ o.consent = base.consent
               /\ o.otel = base.otel
               /\ o.content = (IF "content" \in DOMAIN repo THEN repo["content"] = "on" ELSE base.content)
               /\ o.git = (IF "git" \in DOMAIN repo THEN repo["git"] = "on" ELSE base.git)
<1> DEFINE content == IF "content" \in DOMAIN repo THEN repo["content"] = "on" ELSE base.content
           git == IF "git" \in DOMAIN repo THEN repo["git"] = "on" ELSE base.git
           urls == [f \in UrlFields |-> IF f \in DOMAIN repo THEN repo[f] ELSE base.urls[f]]
           o == [base EXCEPT !.content = content, !.git = git,
                             !.consent = IF "consent" \in DOMAIN repo THEN repo["consent"] = "on" ELSE @,
                             !.token = IF "token" \in DOMAIN repo THEN repo["token"] ELSE @,
                             !.urls = urls]
<1>1. Overlay(base, repo) = o
  BY DEF Overlay
<1>2. /\ DOMAIN base = {"urls", "token", "roots", "consent", "content", "git", "otel"}
      /\ base.content \in BOOLEAN /\ base.git \in BOOLEAN /\ base.urls \in [UrlFields -> Value]
  BY ConfigIs
<1>3. content \in BOOLEAN /\ git \in BOOLEAN
  BY <1>2
<1>4. urls = base.urls
  BY <1>2 DEF GlobalOnly, UrlFields, RootUrlFields
<1> HIDE DEF urls
<1>5. "consent" \notin DOMAIN repo /\ "token" \notin DOMAIN repo
  BY DEF GlobalOnly
<1> HIDE DEF content, git
<1>6. /\ DOMAIN o = DOMAIN base /\ o = [x \in DOMAIN o |-> o[x]]
      /\ o.content = content /\ o.git = git /\ o.consent = base.consent /\ o.token = base.token
      /\ o.urls = base.urls /\ o.roots = base.roots /\ o.otel = base.otel
  BY <1>2, <1>4, <1>5
<1> HIDE DEF o
<1>7. IsConfig(o)
  BY <1>3, <1>6, ConfigIs
<1>q. QED BY <1>1, <1>6, <1>7 DEF content, git

(* Parsing what was parsed changes nothing.                                *)
LEMMA ParsedTwice ==
    ASSUME NEW D, NEW urls \in [D -> Value], \A f \in D : urls[f] # Bad
    PROVE  Parsed(urls) = urls
BY DEF Parsed, DeliverableUrl

(* A repository's own file only takes content away.                        *)
THEOREM RepoOnlyNarrowsHolds == Spec => []RepoOnlyNarrows
<1>1. ASSUME TypeOK, NEW cwd \in Cwds, NEW repo
      PROVE  Narrows(LoadEffectiveConfig(cwd, repo), ApplyRootOverride(LoadConfig, cwd))
  <2> DEFINE own == ApplyRootOverride(LoadConfig, cwd)
             narrowed == WithoutWidenedCapture(own, WithoutGlobalOnly(repo))
             laid == Overlay(own, narrowed)
  <2>1. /\ IsConfig(own) /\ \A f \in UrlFields : own.urls[f] # Bad
        /\ file.state # "ok" => own = LoadConfig
    BY <1>1, OverriddenIs DEF TypeOK
  <2> HIDE DEF own
  <2>2. Narrows(own, own)
    BY DEF Narrows
  <2>3. CASE file.state # "ok"
    <3>1. LoadEffectiveConfig(cwd, repo) = own
      BY <2>1, <2>3 DEF LoadEffectiveConfig
    <3>q. QED BY <2>2, <3>1 DEF own
  <2>4. CASE file.state = "ok" /\ \E k \in DOMAIN narrowed : narrowed[k] = "junk"
    <3>1. LoadEffectiveConfig(cwd, repo) = own
      BY <2>4 DEF LoadEffectiveConfig, MergeRepoConfig, own
    <3>q. QED BY <2>2, <3>1 DEF own
  <2>5. CASE file.state = "ok" /\ ~\E k \in DOMAIN narrowed : narrowed[k] = "junk"
    <3>1. LoadEffectiveConfig(cwd, repo) = ConfigSchema(laid)
      BY <2>5 DEF LoadEffectiveConfig, MergeRepoConfig, own
    <3>2. /\ \A k \in GlobalOnly : k \notin DOMAIN narrowed
          /\ \A k \in Flags : k \in DOMAIN narrowed /\ narrowed[k] = "on" => own[k]
      BY NarrowedIs
    <3> HIDE DEF narrowed
    <3>3. /\ IsConfig(laid) /\ laid.urls = own.urls /\ laid.token = own.token /\ laid.consent = own.consent
          /\ laid.otel = own.otel
          /\ laid.content = (IF "content" \in DOMAIN narrowed THEN narrowed["content"] = "on" ELSE own.content)
          /\ laid.git = (IF "git" \in DOMAIN narrowed THEN narrowed["git"] = "on" ELSE own.git)
      BY <2>1, <3>2, OverlayIs
    <3>4. (laid.content => own.content) /\ (laid.git => own.git)
      BY <3>2, <3>3 DEF Flags
    <3> HIDE DEF laid
    <3>5. LET s == ConfigSchema(laid)
          IN  /\ s.urls = Parsed(laid.urls) /\ s.token = laid.token
              /\ s.consent = laid.consent /\ s.content = (laid.content /\ laid.consent)
              /\ s.git = laid.git /\ s.otel = laid.otel
      BY <3>3, Schema
    <3>6. Parsed(own.urls) = own.urls
      BY <2>1, ConfigIs, ParsedTwice
    <3>7. Narrows(ConfigSchema(laid), own)
      BY <3>3, <3>4, <3>5, <3>6 DEF Narrows
    <3>q. QED BY <3>1, <3>7 DEF own
  <2>q. QED BY <2>3, <2>4, <2>5
<1>2. TypeOK => RepoOnlyNarrows
  BY <1>1 DEF RepoOnlyNarrows
<1>q. QED BY <1>2, TypeCorrect, PTL

-----------------------------------------------------------------------------
(* The bearer of a root that names a destination of its own goes there.    *)
LEMMA OwnRoutes ==
    ASSUME NEW c, IsConfig(c), NEW i \in Identity, OwnDestination(c.urls, i.urls)
    PROVE  LET e == ApplyRoot(c, i)
           IN  /\ EventsUrl(e) \in OwnUrl(i.urls, "eventsUrl", "events")
               /\ OtlpBaseUrl(e) \in OwnUrl(i.urls, "otlpUrl", "otlp")
               /\ i.urls.endpoint \notin {None, c.urls.endpoint} =>
                      EnforcementUrl(e) \in {None, Derived(i.urls.endpoint, "decision")}
<1> DEFINE e == ApplyRoot(c, i)
           w == WithoutDestination(c, i)
           base == i.urls.endpoint
           route == IF base # None THEN None ELSE Refused
<1>0. None # Refused
  BY DEF None, Refused
<1>1. Named(c, i)
  BY <1>0 DEF OwnDestination, Named, SameEndpoint
<1>2. /\ w.urls.eventsUrl = route /\ w.urls.otlpUrl = route /\ w.urls.endpoint = c.urls.endpoint
      /\ base # None /\ ~SameEndpoint(base, c.urls.endpoint) => w.urls.enforcementUrl = None
  BY <1>1, WithoutIs
<1>3. \A f \in UrlFields :
          e.urls[f] = (IF f \in RootUrlFields /\ i.urls[f] # None THEN i.urls[f] ELSE w.urls[f])
  BY AppliedIs
<1> HIDE DEF e, w
<1>4. /\ base # None => e.urls.endpoint = base
      /\ e.urls.eventsUrl = (IF i.urls.eventsUrl # None THEN i.urls.eventsUrl ELSE route)
      /\ e.urls.otlpUrl = (IF i.urls.otlpUrl # None THEN i.urls.otlpUrl ELSE route)
      /\ e.urls.enforcementUrl = w.urls.enforcementUrl
  BY <1>2, <1>3 DEF UrlFields, RootUrlFields
<1>5. EventsUrl(e) \in OwnUrl(i.urls, "eventsUrl", "events")
  BY <1>0, <1>4 DEF EventsUrl, Route, FromBase, OwnUrl, Given
<1>6. OtlpBaseUrl(e) \in OwnUrl(i.urls, "otlpUrl", "otlp")
  BY <1>0, <1>4 DEF OtlpBaseUrl, Route, FromBase, OwnUrl, Given
<1>7. ASSUME base \notin {None, c.urls.endpoint}
      PROVE  EnforcementUrl(e) \in {None, Derived(base, "decision")}
  BY <1>0, <1>2, <1>4, <1>7 DEF EnforcementUrl, FromBase, Given, SameEndpoint
<1>q. QED BY <1>5, <1>6, <1>7 DEF e

(* A root's bearer is sent to the root's own destination or nowhere.       *)
THEOREM BearerKeptHolds == Spec => []BearerKept
<1>1. ASSUME TypeOK
      PROVE  BearerKept
  <2> DEFINE c == LoadConfig
  <2>1. IsConfig(c) /\ DOMAIN c.roots \subseteq Roots /\ c.roots \in [DOMAIN c.roots -> Identity]
    BY <1>1, LoadedIs, ConfigIs DEF TypeOK
  <2> HIDE DEF c
  <2>2. ASSUME NEW r \in DOMAIN c.roots, OwnDestination(c.urls, c.roots[r].urls)
        PROVE  LET e == ApplyRoot(c, c.roots[r])
                   root == c.roots[r].urls
               IN  /\ EventsUrl(e) \in OwnUrl(root, "eventsUrl", "events")
                   /\ OtlpBaseUrl(e) \in OwnUrl(root, "otlpUrl", "otlp")
                   /\ root.endpoint \notin {None, c.urls.endpoint} =>
                          EnforcementUrl(e) \in {None, Derived(root.endpoint, "decision")}
    BY <2>1, <2>2, OwnRoutes
  <2>3. ASSUME NEW r \in DOMAIN c.roots, NEW cwd \in Cwds, SelectRoot(c.roots, cwd) = r, OtelHeaders(cwd) # None
        PROVE  OtlpBaseUrl(c) = OtlpBaseUrl(ApplyRoot(c, c.roots[r]))
    <3>1. ApplyRootOverride(c, cwd) = ApplyRoot(c, c.roots[r])
      BY <2>1, <2>3, SetupAssumption DEF ApplyRootOverride
    <3>2. SharesOtlpCollector(c, ApplyRootOverride(c, cwd))
      BY <2>3 DEF OtelHeaders, c
    <3>q. QED BY <3>1, <3>2 DEF SharesOtlpCollector
  <2>q. QED BY <2>2, <2>3 DEF BearerKept, c
<1>q. QED BY <1>1, TypeCorrect, PTL

-----------------------------------------------------------------------------
(* What setup writes back.                                                 *)
LEMMA BackAsWritten ==
    ASSUME NEW D, NEW raw \in [D -> Value]
    PROVE  RefusedFrom(raw, Parsed(raw)) = raw
<1>1. DOMAIN Parsed(raw) = D /\ \A f \in D : Parsed(raw)[f] = DeliverableUrl(raw[f])
  BY Parses
<1>2. \A f \in D : RefusedFrom(raw, Parsed(raw))[f] = raw[f]
  BY <1>1 DEF RefusedFrom, DeliverableUrl, Bad, None
<1>q. QED BY <1>1, <1>2 DEF RefusedFrom

(* What was refused goes back only where setup put nothing in its place.   *)
LEMMA BackChanged ==
    ASSUME NEW D, NEW raw \in [D -> Value], NEW previous, NEW endpoint \in Value, Given(endpoint),
           NEW urls, urls = TransitionDestination(Parsed(raw), previous, endpoint),
           NEW f \in D
    PROVE  LET new == RefusedFrom(raw, urls)[f]
           IN  IF f = "endpoint" THEN new = endpoint
               ELSE IF raw[f] \in {Bad, Refused} THEN new = raw[f]
               ELSE SameEndpoint(previous, endpoint) \/ new = None
<1>1. DOMAIN Parsed(raw) = D /\ Parsed(raw)[f] = DeliverableUrl(raw[f])
  BY Parses
<1>2. /\ DOMAIN urls = D
      /\ urls[f] = IF f = "endpoint" THEN endpoint
                   ELSE IF Parsed(raw)[f] = Refused \/ SameEndpoint(previous, endpoint) THEN Parsed(raw)[f]
                   ELSE None
  BY <1>1 DEF TransitionDestination
<1>3. RefusedFrom(raw, urls)[f] = IF urls[f] = Refused /\ raw[f] # None THEN raw[f] ELSE urls[f]
  BY <1>2 DEF RefusedFrom
<1>q. QED BY <1>1, <1>2, <1>3 DEF DeliverableUrl, Given, Bad, None, Refused

(* The identity that is enrolled, and the others.                          *)
LEMMA EnrolledBack ==
    ASSUME TypeOK, file.state = "ok", NEW opts, IsOption(opts), Enrollable(LoadConfig, opts),
           NEW new, new = SaveConfig(Enrolled(LoadConfig, opts)).raw, NEW id \in Identities(file.raw)
    PROVE  /\ new.content = file.raw.content /\ new.consent = file.raw.consent /\ id \in Identities(new)
           /\ id # opts.root => UrlsOf(new, id) = UrlsOf(file.raw, id)
           /\ id = opts.root =>
                UrlsOf(new, id) = RefusedFrom(UrlsOf(file.raw, id),
                                              TransitionDestination(Parsed(UrlsOf(file.raw, id)),
                                                                    Previous(LoadConfig, id), Endpoint(LoadConfig, opts)))
<1> DEFINE raw == file.raw
           base == LoadConfig
           urls == TransitionDestination(Stored(base, opts.root).urls,
                                         Previous(base, opts.root), Endpoint(base, opts))
           config == Enrolled(base, opts)
<1>1. IsConfig(raw) /\ base = ConfigSchema(raw)
  BY LoadedIs DEF TypeOK, IsStored
<1>2. /\ IsConfig(base) /\ base.urls = Parsed(raw.urls) /\ base.consent = raw.consent
      /\ DOMAIN base.roots = DOMAIN raw.roots
      /\ \A r \in DOMAIN raw.roots : base.roots[r].urls = Parsed(raw.roots[r].urls)
  <2> HIDE DEF raw, base
  <2>q. QED BY <1>1, Schema
<1>3. /\ raw.urls \in [UrlFields -> Value] /\ NoRoot \notin DOMAIN raw.roots
      /\ \A r \in DOMAIN raw.roots : raw.roots[r].urls \in [RootUrlFields -> Value]
  BY <1>1, ConfigIs, IdentityIs, SetupAssumption
<1> HIDE DEF base
<1>4. /\ IsConfig(config) /\ config.consent = base.consent
      /\ config.urls = (IF opts.root = NoRoot THEN urls ELSE base.urls)
      /\ DOMAIN config.roots = DOMAIN base.roots \union (IF opts.root = NoRoot THEN {} ELSE {opts.root})
      /\ \A r \in DOMAIN config.roots :
            config.roots[r].urls = (IF r = opts.root THEN urls ELSE base.roots[r].urls)
  BY <1>2, EnrolledIs
<1>5. new = SaveConfig(config).raw
  BY DEF base
<1> HIDE DEF config, urls
<1>6. /\ new.content = raw.content /\ new.consent = config.consent
      /\ new.urls = RefusedFrom(raw.urls, config.urls)
      /\ DOMAIN new.roots = DOMAIN config.roots
      /\ \A r \in DOMAIN config.roots :
            new.roots[r].urls = IF r \in DOMAIN raw.roots
                                THEN RefusedFrom(raw.roots[r].urls, config.roots[r].urls)
                                ELSE config.roots[r].urls
  BY <1>1, <1>4, <1>5, SavedIs
<1>7. id = NoRoot \/ id \in DOMAIN raw.roots
  BY DEF Identities
<1>8. id \in Identities(new)
  BY <1>2, <1>4, <1>6, <1>7 DEF Identities
<1>9. ASSUME id # opts.root
      PROVE  UrlsOf(new, id) = UrlsOf(raw, id)
  <2>1. CASE id = NoRoot
    <3>1. new.urls = RefusedFrom(raw.urls, Parsed(raw.urls))
      BY <1>2, <1>4, <1>6, <1>9, <2>1
    <3>q. QED BY <1>3, <2>1, <3>1, BackAsWritten DEF UrlsOf
  <2>2. CASE id # NoRoot
    <3>1. new.roots[id].urls = RefusedFrom(raw.roots[id].urls, Parsed(raw.roots[id].urls))
      BY <1>2, <1>4, <1>6, <1>7, <1>9, <2>2
    <3>2. raw.roots[id].urls \in [RootUrlFields -> Value]
      BY <1>3, <1>7, <2>2
    <3>3. new.roots[id].urls = raw.roots[id].urls
      BY <3>1, <3>2, BackAsWritten
    <3>q. QED BY <2>2, <3>3 DEF UrlsOf
  <2>q. QED BY <2>1, <2>2
<1>10. ASSUME id = opts.root
       PROVE  UrlsOf(new, id) = RefusedFrom(UrlsOf(raw, id), urls)
  BY <1>2, <1>3, <1>4, <1>6, <1>7, <1>10 DEF UrlsOf
<1>11. Stored(base, id).urls = Parsed(UrlsOf(raw, id))
  BY <1>2, <1>7 DEF Stored, UrlsOf
<1>q. QED BY <1>2, <1>4, <1>6, <1>8, <1>9, <1>10, <1>11 DEF urls, base

(* setup changes one identity, and of it no bad URL and no route that does *)
(* not belong to the backend it leaves.                                    *)
THEOREM SetupKeepsWhatWasWrittenHolds == Spec => SetupKeepsWhatWasWritten
<1>1. ASSUME TypeOK, [Next]_vars, cmd.name = "idle", cmd'.name = "setup"
      PROVE  \E opts \in Options(detected) : BeginSetup(opts)
  <2>1. cmd' # cmd /\ cmd.pc = "done"
    BY <1>1 DEF TypeOK, Placed
  <2>2. ~(Hooks \/ Exporter \/ Switch \/ SwitchThrows \/ SaveOne \/ SaveThrows
           \/ EndPlain \/ EndPurge \/ EndOff \/ EndOn \/ RollBack \/ RollBackThrows)
    BY <2>1 DEF Hooks, Exporter, Switch, SwitchThrows, SaveOne, SaveThrows, EndPlain, EndPurge, EndOff, EndOn,
         RollBack, RollBackThrows, Finished
  <2>3. ~Crash
    BY <1>1, IdleIs DEF Crash
  <2>4. ~Others
    BY <1>1, EditsAre DEF Others, Edits, LoseState, EditConfig, BreakConfig
  <2>5. ASSUME NEW name \in {"uninstall", "off", "on"}, NEW todo, NEW config, NEW purge,
               Begin(name, todo, config, purge)
        PROVE  FALSE
    BY <1>1, <2>5 DEF Begin, Idle
  <2>6. ~(BeginOff \/ BeginOn \/ OnUnenrolled)
    BY <1>1, <2>5 DEF BeginOff, BeginOn, OnUnenrolled
  <2>7. \A agents, purge : ~BeginUninstall(agents, purge)
    BY <2>5 DEF BeginUninstall
  <2>8. UNCHANGED vars => FALSE
    BY <2>1 DEF vars
  <2>q. QED BY <1>1, <2>2, <2>3, <2>4, <2>6, <2>7, <2>8 DEF Next, Commands
<1>2. ASSUME TypeOK, [Next]_vars, cmd.name = "idle", cmd'.name = "setup", file.state = "ok"
      PROVE  LET old == file.raw
                 new == file'.raw
                 changed == {id \in Identities(old) : UrlsOf(new, id) # UrlsOf(old, id)}
             IN  /\ new.content = old.content /\ new.consent = old.consent
                 /\ Identities(old) \subseteq Identities(new)
                 /\ Cardinality(changed) <= 1
                 /\ \A id \in changed : \A f \in DOMAIN UrlsOf(old, id) \ {"endpoint"} :
                        IF UrlsOf(old, id)[f] \in {Bad, Refused} THEN UrlsOf(new, id)[f] = UrlsOf(old, id)[f]
                        ELSE BaseOf(old, id) # BaseOf(new, id) => UrlsOf(new, id)[f] = None
  <2> DEFINE old == file.raw
             new == file'.raw
             changed == {id \in Identities(old) : UrlsOf(new, id) # UrlsOf(old, id)}
  <2>1. PICK opts \in Options(detected) : BeginSetup(opts)
    BY <1>1, <1>2
  <2>2. IsOption(opts) /\ Enrollable(LoadConfig, opts) /\ new = SaveConfig(Enrolled(LoadConfig, opts)).raw
    BY <1>2, <2>1, SetupAssumption DEF BeginSetup, TypeOK
  <2> HIDE DEF new
  <2>3. \A id \in Identities(old) :
           /\ new.content = old.content /\ new.consent = old.consent /\ id \in Identities(new)
           /\ id # opts.root => UrlsOf(new, id) = UrlsOf(old, id)
           /\ id = opts.root =>
                UrlsOf(new, id) = RefusedFrom(UrlsOf(old, id),
                                              TransitionDestination(Parsed(UrlsOf(old, id)),
                                                                    Previous(LoadConfig, id), Endpoint(LoadConfig, opts)))
    BY <1>2, <2>2, EnrolledBack
  <2>4. NoRoot \in Identities(old)
    BY DEF Identities
  <2>5. changed \subseteq {opts.root}
    BY <2>3
  <2>6. Cardinality(changed) <= 1
    <3> HIDE DEF changed
    <3>1. changed = {} \/ changed = {opts.root}
      BY <2>5
    <3>2. Cardinality({}) = 0 /\ Cardinality({opts.root}) = 1
      BY FS_EmptySet, FS_Singleton
    <3>q. QED BY <3>1, <3>2
  <2>7. ASSUME NEW id \in changed, NEW f \in DOMAIN UrlsOf(old, id) \ {"endpoint"}
        PROVE  IF UrlsOf(old, id)[f] \in {Bad, Refused} THEN UrlsOf(new, id)[f] = UrlsOf(old, id)[f]
               ELSE BaseOf(old, id) # BaseOf(new, id) => UrlsOf(new, id)[f] = None
    <3> DEFINE raw == UrlsOf(old, id)
               previous == Previous(LoadConfig, id)
               endpoint == Endpoint(LoadConfig, opts)
               urls == TransitionDestination(Parsed(raw), previous, endpoint)
               D == IF id = NoRoot THEN UrlFields ELSE RootUrlFields
    <3>1. id = opts.root /\ id \in Identities(old) /\ UrlsOf(new, id) = RefusedFrom(raw, urls)
      BY <2>3, <2>5
    <3>2. /\ raw \in [D -> Value] /\ "endpoint" \in D
          /\ LoadConfig.urls = Parsed(old.urls) /\ DOMAIN LoadConfig.roots = DOMAIN old.roots
          /\ \A r \in DOMAIN old.roots : LoadConfig.roots[r].urls = Parsed(old.roots[r].urls)
          /\ IsConfig(LoadConfig) /\ IsConfig(old)
      <4>1. IsConfig(old) /\ LoadConfig = ConfigSchema(old) /\ IsConfig(LoadConfig)
        BY <1>2, LoadedIs DEF TypeOK, IsStored
      <4>2. raw \in [D -> Value]
        BY <3>1, <4>1, ConfigIs, IdentityIs DEF UrlsOf, Identities
      <4>q. QED BY <4>1, <4>2, Schema DEF UrlFields, RootUrlFields
    <3>3. endpoint \in Value /\ Given(endpoint)
      <4>1. LoadConfig.urls["endpoint"] \in Value /\ Stored(LoadConfig, opts.root).urls["endpoint"] \in Value
        BY <2>2, <3>2, ConfigIs, StoredIs DEF IsOption, UrlFields, RootUrlFields
      <4>2. Endpoint(LoadConfig, opts) \in Value
        BY <2>2, <4>1 DEF Endpoint, Inherited, IsOption
      <4>q. QED BY <2>2, <4>2 DEF Enrollable
    <3> HIDE DEF previous, endpoint, urls, raw, D
    <3>4. \A g \in D : IF g = "endpoint" THEN RefusedFrom(raw, urls)[g] = endpoint
                       ELSE IF raw[g] \in {Bad, Refused} THEN RefusedFrom(raw, urls)[g] = raw[g]
                       ELSE SameEndpoint(previous, endpoint) \/ RefusedFrom(raw, urls)[g] = None
      <4>1. urls = TransitionDestination(Parsed(raw), previous, endpoint)
        BY DEF urls
      <4>q. QED BY <3>2, <3>3, <4>1, BackChanged
    <3>5. UrlsOf(new, id).endpoint = endpoint /\ BaseOf(new, id) = endpoint
      BY <3>1, <3>2, <3>3, <3>4 DEF BaseOf, Given
    <3>6. SameEndpoint(previous, endpoint) => BaseOf(old, id) = endpoint
      <4>1. previous = LET own == Parsed(raw)["endpoint"]
                       IN  IF own = None THEN Parsed(old.urls)["endpoint"] ELSE own
        BY <3>1, <3>2 DEF Previous, Inherited, Stored, UrlsOf, Identities, previous, raw
      <4>2. /\ Parsed(raw)["endpoint"] = DeliverableUrl(raw["endpoint"])
            /\ Parsed(old.urls)["endpoint"] = DeliverableUrl(old.urls["endpoint"])
        <5>1. old.urls \in [UrlFields -> Value] /\ "endpoint" \in UrlFields
          BY <3>2, ConfigIs DEF UrlFields, RootUrlFields
        <5>q. QED BY <3>2, <5>1, Parses
      <4>3. BaseOf(old, id) = IF raw["endpoint"] = None THEN old.urls["endpoint"] ELSE raw["endpoint"]
        BY DEF BaseOf, raw
      <4>q. QED BY <4>1, <4>2, <4>3 DEF SameEndpoint, Given, DeliverableUrl, None, Refused, Bad
    <3>q. QED BY <3>1, <3>2, <3>4, <3>5, <3>6 DEF raw
  <2>q. QED BY <2>3, <2>4, <2>6, <2>7 DEF new
<1>3. TypeOK /\ [Next]_vars =>
        [cmd.name = "idle" /\ cmd'.name = "setup" /\ file.state = "ok" =>
            LET old == file.raw
                new == file'.raw
                changed == {id \in Identities(old) : UrlsOf(new, id) # UrlsOf(old, id)}
            IN  /\ new.content = old.content /\ new.consent = old.consent
                /\ Identities(old) \subseteq Identities(new)
                /\ Cardinality(changed) <= 1
                /\ \A id \in changed : \A f \in DOMAIN UrlsOf(old, id) \ {"endpoint"} :
                       IF UrlsOf(old, id)[f] \in {Bad, Refused} THEN UrlsOf(new, id)[f] = UrlsOf(old, id)[f]
                       ELSE BaseOf(old, id) # BaseOf(new, id) => UrlsOf(new, id)[f] = None]_vars
  BY <1>2
<1>q. QED BY <1>3, TypeCorrect, PTL DEF SetupKeepsWhatWasWritten, Spec
=============================================================================
