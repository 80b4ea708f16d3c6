------------------------------- MODULE Config -------------------------------
(***************************************************************************)
(* ~/.agentwatch/config.json and what a hook makes of it: the schema, the  *)
(* project roots, a repository's own file, and what setup writes back      *)
(* (src/src/config/).                                                      *)
(*                                                                         *)
(* A URL is a tuple: the empty one is an absent field, Bad a URL the edge  *)
(* does not send to, Refused the null that Bad is parsed into.  Of the     *)
(* capture flags two stand for the rest: content, one of those that need   *)
(* the machine's consent, and git, which does not.                         *)
(***************************************************************************)
EXTENDS Naturals, FiniteSets, Sequences, Functions

CONSTANTS
    Cwds,       \* folders a hook may run in
    Enclosing   \* per folder: the roots around it, innermost first

VARIABLES
    file        \* config.json as it stands on disk

None == <<>>
Bad == <<"bad">>
Refused == <<"null">>
RootUrlFields == {"endpoint", "eventsUrl", "otlpUrl"}
UrlFields == RootUrlFields \union {"enforcementUrl"}

Given(url) == url \notin {None, Refused}
Derived(base, path) == base \o <<path>>

-----------------------------------------------------------------------------
(* The schema: a bad URL becomes null, and without the machine's consent   *)
(* the content flags are off.                                              *)
DeliverableUrl(url) == IF url = Bad THEN Refused ELSE url
Parsed(urls) == [f \in DOMAIN urls |-> DeliverableUrl(urls[f])]

Gated(config) == [config EXCEPT !.content = @ /\ config.consent]

WithParsed(part) == [part EXCEPT !.urls = Parsed(@)]

ConfigSchema(raw) ==
    Gated([WithParsed(raw) EXCEPT !.roots = [r \in DOMAIN @ |-> WithParsed(@[r])]])

DefaultConfig ==
    [urls |-> [f \in UrlFields |-> None], token |-> None, roots |-> <<>>,
     consent |-> FALSE, content |-> FALSE, git |-> TRUE, otel |-> {"logs"}]

LoadConfig == IF file.state = "ok" THEN ConfigSchema(file.raw) ELSE DefaultConfig

-----------------------------------------------------------------------------
(* Where a configuration sends.  A refused route is sent nowhere; only the *)
(* decision endpoint falls back to the base all the same.                  *)
FromBase(config, path) ==
    IF Given(config.urls.endpoint) THEN Derived(config.urls.endpoint, path) ELSE None

Route(config, field, path) ==
    IF config.urls[field] = Refused THEN None
    ELSE IF config.urls[field] # None THEN config.urls[field]
    ELSE FromBase(config, path)

EventsUrl(config) == Route(config, "eventsUrl", "events")
OtlpBaseUrl(config) == Route(config, "otlpUrl", "otlp")
EnforcementUrl(config) ==
    IF Given(config.urls.enforcementUrl) THEN config.urls.enforcementUrl ELSE FromBase(config, "decision")

(* otel-headers hands a root's bearer out only for the machine's collector.*)
SharesOtlpCollector(machine, identity) ==
    OtlpBaseUrl(identity) # None /\ OtlpBaseUrl(identity) = OtlpBaseUrl(machine)

ToolContentConsented(config) == config.consent /\ config.content

(* normalizeEndpoint is left out: no two bases differ by a slash only.     *)
SameEndpoint(left, right) == Given(left) /\ left = right

-----------------------------------------------------------------------------
(* Roots: the innermost one around the folder, if any is configured.       *)
NoRoot == "machine"

(* Of what is in a list and in a set, the first in the list.               *)
FirstIn(list, set) ==
    list[CHOOSE i \in DOMAIN list :
            list[i] \in set /\ \A j \in DOMAIN list : list[j] \in set => i <= j]

SelectRoot(roots, cwd) ==
    IF \E i \in DOMAIN Enclosing[cwd] : Enclosing[cwd][i] \in DOMAIN roots
    THEN FirstIn(Enclosing[cwd], DOMAIN roots) ELSE NoRoot

(* A root that names a destination of its own takes no route from the      *)
(* machine: derived from its own base, or none.                            *)
NamedInFull(config, override) ==        \* a mutant
    \E f \in RootUrlFields : Given(override.urls[f]) /\ override.urls[f] # config.urls[f]

Named(config, override) ==
    \E f \in RootUrlFields :
        /\ override.urls[f] # None
        /\ IF f = "endpoint" THEN ~SameEndpoint(override.urls[f], config.urls[f])
           ELSE override.urls[f] = Refused \/ override.urls[f] # config.urls[f]

WithoutDestination(config, override) ==
    LET base == override.urls.endpoint
        route == IF base # None THEN None ELSE Refused
    IN  IF ~Named(config, override) THEN config
        ELSE [config EXCEPT !.urls.eventsUrl = route, !.urls.otlpUrl = route,
                            !.urls.enforcementUrl =
                                IF base # None /\ ~SameEndpoint(base, config.urls.endpoint) THEN None ELSE @]

LaidOver(urls, over) ==
    [f \in DOMAIN urls |-> IF f \in DOMAIN over /\ over[f] # None THEN over[f] ELSE urls[f]]

ApplyRoot(config, override) ==
    LET base == WithoutDestination(config, override)
    IN  [base EXCEPT !.urls = LaidOver(@, override.urls),
                     !.token = IF override.token # None THEN override.token ELSE @]

ApplyRootOverride(config, cwd) ==
    LET root == SelectRoot(config.roots, cwd)
    IN  IF root = NoRoot THEN config ELSE ApplyRoot(config, config.roots[root])

-----------------------------------------------------------------------------
(* A repository's file is a function from the keys it has to their values; *)
(* a flag's value is "on", "off", or "junk", which no schema takes.        *)
Flags == {"content", "git"}
GlobalOnly == {"endpoint", "eventsUrl", "otlpUrl", "enforcementUrl", "token", "roots", "consent", "otel"}

WithoutRouting(repo) == Restrict(repo, DOMAIN repo \ {"endpoint", "token", "roots"})      \* a mutant

WithoutGlobalOnly(repo) == Restrict(repo, DOMAIN repo \ GlobalOnly)

WithoutWidenedCapture(base, repo) ==
    Restrict(repo, {k \in DOMAIN repo : ~(k \in Flags /\ repo[k] = "on" /\ ~base[k])})

Overlay(base, repo) ==
    LET Flag(k) == IF k \in DOMAIN repo THEN repo[k] = "on" ELSE base[k]
        Url(f) == IF f \in DOMAIN repo THEN repo[f] ELSE base.urls[f]
    IN  [base EXCEPT !.content = Flag("content"), !.git = Flag("git"),
                     !.consent = IF "consent" \in DOMAIN repo THEN repo["consent"] = "on" ELSE @,
                     !.token = IF "token" \in DOMAIN repo THEN repo["token"] ELSE @,
                     !.urls = [f \in UrlFields |-> Url(f)]]

MergeRepoConfig(base, repo) ==
    LET narrowed == WithoutWidenedCapture(base, WithoutGlobalOnly(repo))
    IN  IF \E k \in DOMAIN narrowed : narrowed[k] = "junk" THEN base
        ELSE ConfigSchema(Overlay(base, narrowed))

LoadEffectiveConfig(cwd, repo) ==
    IF file.state # "ok" THEN LoadConfig
    ELSE MergeRepoConfig(ApplyRootOverride(LoadConfig, cwd), repo)

-----------------------------------------------------------------------------
(* saveConfig writes the flags and the refused URLs as the user wrote them,*)
(* not as the schema made them.                                            *)
AsParsed(raw, urls) == urls        \* a mutant

RefusedFrom(raw, urls) ==
    [f \in DOMAIN urls |-> IF urls[f] = Refused /\ raw[f] # None THEN raw[f] ELSE urls[f]]

SaveConfig(config) ==
    LET raw == file.raw
        Root(r) == IF r \in DOMAIN raw.roots
                   THEN [config.roots[r] EXCEPT !.urls = RefusedFrom(raw.roots[r].urls, @)]
                   ELSE config.roots[r]
    IN  [state |-> "ok",
         raw |-> IF file.state # "ok" THEN config
                 ELSE [config EXCEPT !.content = raw.content,
                                     !.urls = RefusedFrom(raw.urls, @),
                                     !.roots = [r \in DOMAIN @ |-> Root(r)]]]

(* transitionDestination: routes belong to the base they were set for; a   *)
(* refused one stays refused.                                              *)
TransitionDestination(urls, previous, endpoint) ==
    [f \in DOMAIN urls |->
        IF f = "endpoint" THEN endpoint
        ELSE IF urls[f] = Refused \/ SameEndpoint(previous, endpoint) THEN urls[f]
        ELSE None]

(***************************************************************************)
(* What setup makes of the stored configuration and its options: root      *)
(* (NoRoot for the machine), endpoint, token, otel (None where not given). *)
(***************************************************************************)
NoOverride == [urls |-> [f \in RootUrlFields |-> None], token |-> None]

Stored(base, root) ==
    IF root = NoRoot THEN [urls |-> base.urls, token |-> base.token]
    ELSE IF root \in DOMAIN base.roots THEN base.roots[root] ELSE NoOverride

(* What enroll falls back to: a root inherits a base it does not name.     *)
Inherited(base, root) ==
    LET own == Stored(base, root).urls.endpoint
    IN  IF own = None THEN base.urls.endpoint ELSE own

Endpoint(base, opts) == IF opts.endpoint # None THEN opts.endpoint ELSE Inherited(base, opts.root)
Token(base, opts) ==
    IF opts.token # None \/ opts.root # NoRoot THEN opts.token ELSE base.token

Enrollable(base, opts) ==
    /\ Given(Endpoint(base, opts))
    /\ opts.root # NoRoot => base.token # None /\ opts.otel = None /\ Token(base, opts) # None

Previous(base, root) ==
    IF root # NoRoot /\ root \notin DOMAIN base.roots THEN None ELSE Inherited(base, root)

Enrolled(base, opts) ==
    LET urls == TransitionDestination(Stored(base, opts.root).urls,
                                      Previous(base, opts.root), Endpoint(base, opts))
        identity == [urls |-> urls, token |-> Token(base, opts)]
        enrolled == IF opts.root = NoRoot THEN [base EXCEPT !.urls = urls, !.token = identity.token]
                    ELSE [base EXCEPT !.roots =
                            [r \in DOMAIN @ \union {opts.root} |-> IF r = opts.root THEN identity ELSE @[r]]]
    IN  [enrolled EXCEPT !.otel = IF opts.otel = None THEN @ ELSE opts.otel[1]]

=============================================================================
