--------------------------- MODULE AgentSettings ---------------------------
(***************************************************************************)
(* What AgentWatch writes into the coding agents' own settings: its hooks  *)
(* (providers/*/*.hooks.ts, shared/hook-config.ts) and their OpenTelemetry *)
(* exporters (claude.otel.ts, codex.otel.ts, gemini.otel.ts), and what it  *)
(* records of that (shared/install-record.ts).                             *)
(*                                                                         *)
(* Every operation reads one file, decides, and replaces it.  An outcome   *)
(* is [ok, file, entry]: whether it succeeded, the file and the agent's    *)
(* record after it; an operation that returns no install state leaves the  *)
(* record as it was.                                                       *)
(***************************************************************************)
EXTENDS Config

CONSTANTS
    Order       \* the agents, in the order of the providers' list

(* Claude and Gemini keep hooks and exporter in one file, Codex in two.    *)
Files == {"claude", "codex", "codex.toml", "gemini", "cursor", "antigravity"}
OtelFile(agent) == IF agent = "codex" THEN "codex.toml" ELSE agent
Native == {"claude", "codex", "gemini"}        \* agents with an exporter
Agents == {Order[i] : i \in 1..Len(Order)}

(***************************************************************************)
(* A settings file.  hooks: per event the handlers registered; env: the    *)
(* telemetry keys that are set (for Codex one, its [otel] table; AgentWatch*)
(* marks its own).  A value is a tuple, with Users before what the user    *)
(* set: a mark that no code sees, for all it compares is the Text.         *)
(* state: "invalid" cannot be parsed, "rejected" has keys Codex rejects,   *)
(* "broken" a block whose markers do not match.  helper is Claude's source *)
(* of the bearer, and a leftover of older releases in Gemini's file.       *)
(***************************************************************************)
Events == {"kept", "dropped"}      \* registered by this release, or once
Users == <<"user">>
UserSet(text) == Users \o text
ByUser(value) == value # <<>> /\ value[1] = "user"
Text(value) == IF ByUser(value) THEN Tail(value) ELSE value

Keys == {"switch", "content", "exporters", "beta", "endpoint", "headers", "otel"}
NoEnv == [k \in {} |-> None]
SetIn(env, over) ==
    [k \in DOMAIN env \union DOMAIN over |-> IF k \in DOMAIN over THEN over[k] ELSE env[k]]

(* What install-state.json has of an agent; prior is the mode its file had *)
(* before AgentWatch made it private.                                      *)
Gone == [there |-> FALSE, hooks |-> FALSE, owned |-> {}, prior |-> FALSE]

Readable(f) == f.state \in {"missing", "ok"}
Same(f, entry) == [ok |-> TRUE, file |-> f, entry |-> entry]
Refuses(f, entry) == [ok |-> FALSE, file |-> f, entry |-> entry]
Written(f, entry) == [ok |-> TRUE, file |-> [f EXCEPT !.state = "ok"], entry |-> entry]

-----------------------------------------------------------------------------
(* install-record.ts                                                       *)
ForgetsOwned(entry) == [entry EXCEPT !.there = TRUE, !.hooks = TRUE, !.owned = {}]       \* a mutant

WithHookInstall(entry) ==
    [entry EXCEPT !.there = TRUE, !.hooks = TRUE, !.owned = IF entry.there THEN @ ELSE {}]
WithoutHookInstall(entry) == [entry EXCEPT !.hooks = FALSE]

WithOtelInstallLast(entry, owned, prior) ==     \* a mutant: the last tightening wins
    [entry EXCEPT !.there = TRUE, !.owned = owned, !.prior = prior]

(* The first tightening's mode is the file's own.                          *)
WithOtelInstall(entry, owned, prior) ==
    [entry EXCEPT !.there = TRUE, !.owned = owned, !.prior = @ \/ prior]
WithoutOtelInstall(entry) ==
    IF entry.there THEN [entry EXCEPT !.owned = {}, !.prior = FALSE] ELSE entry

-----------------------------------------------------------------------------
(* Hooks: ours replace ours, what an older release registered is swept.    *)
Ours(handlers) == handlers \ {"user"}

RegisterOurHandlers(hooks) ==
    [e \in Events |-> (hooks[e] \ Ours(hooks[e])) \union (IF e = "kept" THEN {"ours"} ELSE {})]
StripOurHandlers(hooks) == [e \in Events |-> hooks[e] \ Ours(hooks[e])]
HooksInstalled(f) == \E e \in Events : Ours(f.hooks[e]) # {}

InstallHooks(agent, f, entry) ==
    IF ~Readable(f) THEN Refuses(f, entry)
    ELSE Written([f EXCEPT !.hooks = RegisterOurHandlers(@)], WithHookInstall(entry))

(* Gemini and Antigravity forget the agent, its exporter's record with it. *)
Forgets(agent) == agent \in {"gemini", "antigravity"}

UninstallHooks(agent, f, entry) ==
    LET forgotten == IF Forgets(agent) THEN Gone ELSE entry
        empty == ~Forgets(agent) /\ \A e \in Events : f.hooks[e] = {}
    IN  IF f.state = "invalid" THEN Refuses(f, entry)
        ELSE IF f.state = "missing" \/ empty THEN Same(f, forgotten)
        ELSE [ok |-> TRUE, file |-> [f EXCEPT !.hooks = StripOurHandlers(@)],
              entry |-> IF Forgets(agent) THEN Gone ELSE WithoutHookInstall(entry)]

-----------------------------------------------------------------------------
(* What each agent's exporter is to say under a configuration.  Codex's    *)
(* signals both carry content, of Gemini's the logs do; Gemini's traces    *)
(* are never safe.                                                         *)
SafeCodexSignals(config) == IF ToolContentConsented(config) THEN config.otel \ {"metrics"} ELSE {}
SafeGeminiSignals(config) ==
    config.otel \ ({"traces"} \union IF ToolContentConsented(config) THEN {} ELSE {"logs"})

SafeSignals(agent, config) ==
    CASE agent = "claude" -> config.otel
      [] agent = "codex" -> SafeCodexSignals(config)
      [] agent = "gemini" -> SafeGeminiSignals(config)

On(signal, signals) == IF signal \in signals THEN "otlp" ELSE "none"
Exporters(signals) == <<On("logs", signals), On("traces", signals), On("metrics", signals)>>
Bearer(config) == config.token # None

Wanted(agent, config) == SafeSignals(agent, config) # {}
Configurable(agent, config) == Wanted(agent, config) /\ OtlpBaseUrl(config) # None

(* The keys Claude and Gemini have in common.                              *)
OtelEnv(base, signals) ==
    [k \in {"switch", "content", "exporters", "endpoint"} |->
        CASE k = "exporters" -> Exporters(signals) [] k = "endpoint" -> base [] OTHER -> <<k>>]

DesiredClaude(config) ==
    SetIn(OtelEnv(OtlpBaseUrl(config), config.otel),
          IF "traces" \in config.otel THEN [k \in {"beta"} |-> <<k>>] ELSE NoEnv)
DesiredGemini(config) ==
    SetIn(OtelEnv(OtlpBaseUrl(config), SafeGeminiSignals(config)),
          IF Bearer(config) THEN [k \in {"headers"} |-> config.token] ELSE NoEnv)
RenderBlock(config) ==
    [k \in {"otel"} |-> OtlpBaseUrl(config) \o config.token \o Exporters(SafeCodexSignals(config))]

Desired(agent, config) ==
    IF ~Configurable(agent, config) THEN NoEnv
    ELSE CASE agent = "claude" -> DesiredClaude(config)
           [] agent = "codex" -> RenderBlock(config)
           [] agent = "gemini" -> DesiredGemini(config)

(* CONTENT_LOG_OFF is ours to override, whatever it says.                  *)
ForeignKeys(env, desired, owned) ==
    {k \in DOMAIN desired \intersect DOMAIN env : Text(env[k]) # desired[k] /\ k \notin owned \union {"content"}}

KeepsStale(env, desired, owned) == SetIn(env, desired)       \* a mutant

(* Owned keys that are no longer wanted go.                                *)
NextEnv(env, desired, owned) ==
    SetIn(Restrict(env, DOMAIN env \ (owned \ DOMAIN desired)), desired)

-----------------------------------------------------------------------------
WithoutOurs(helper) == IF helper = "ours" THEN "none" ELSE helper

(* Claude: removed is what was recorded, or without a record what stands   *)
(* as it would be written now, whoever wrote it.  Its helper carries the   *)
(* bearer.                                                                 *)
RemovableUnchecked(env, recorded, desired) ==       \* a mutant: whatever the value
    (IF recorded # {} THEN recorded ELSE DOMAIN desired) \intersect DOMAIN env

RemovableEnvKeys(env, recorded, desired) ==
    IF recorded # {} THEN recorded \intersect DOMAIN env
    ELSE {k \in DOMAIN desired \intersect DOMAIN env : Text(env[k]) = desired[k]}

UninstallClaude(f, entry, config) ==
    LET removable == RemovableEnvKeys(f.env, entry.owned, Desired("claude", config))
    IN  IF f.state = "missing" THEN Same(f, entry)
        ELSE IF f.state = "invalid" THEN Refuses(f, entry)
        ELSE Written([f EXCEPT !.env = Restrict(@, DOMAIN @ \ removable),
                               !.helper = WithoutOurs(@)],
                     WithoutOtelInstall(entry))

ConfigureClaude(f, entry, config) ==
    LET desired == Desired("claude", config)
    IN  IF ~Wanted("claude", config) THEN UninstallClaude(f, entry, config)
        ELSE IF ~Configurable("claude", config) \/ ~Readable(f) THEN Refuses(f, entry)
        ELSE IF ForeignKeys(f.env, desired, entry.owned) # {} THEN Refuses(f, entry)
        ELSE IF Bearer(config) /\ f.helper = "user" THEN Refuses(f, entry)
        ELSE Written([f EXCEPT !.env = NextEnv(@, desired, entry.owned),
                               !.helper = IF Bearer(config) THEN "ours" ELSE @],
                     WithOtelInstall(entry, DOMAIN desired \union (IF Bearer(config) THEN {"helper"} ELSE {}), FALSE))

-----------------------------------------------------------------------------
(* Gemini: the bearer is in the file, which becomes private.  Without a    *)
(* record every key it ever wrote is taken for its own.                    *)
LegacyOwnedKeys == {"switch", "content", "exporters", "endpoint", "headers"}

Shared(f, prior) == IF prior THEN FALSE ELSE f.private

UninstallGemini(f, entry) ==
    LET removable == IF entry.there THEN entry.owned ELSE LegacyOwnedKeys
        next == [f EXCEPT !.env = Restrict(@, DOMAIN @ \ removable), !.helper = WithoutOurs(@)]
    IN  IF f.state = "missing" THEN Same(f, entry)
        ELSE IF f.state = "invalid" THEN Refuses(f, entry)
        ELSE Written([next EXCEPT !.private = IF next # f THEN Shared(f, entry.prior) ELSE @],
                     WithoutOtelInstall(entry))

ConfigureGemini(f, entry, config) ==
    LET desired == Desired("gemini", config)
        next == [f EXCEPT !.env = NextEnv(@, desired, entry.owned), !.helper = WithoutOurs(@)]
        tightens == Bearer(config) /\ next # f
    IN  IF ~Wanted("gemini", config) THEN UninstallGemini(f, entry)
        ELSE IF ~Configurable("gemini", config) \/ ~Readable(f) THEN Refuses(f, entry)
        ELSE IF ForeignKeys(f.env, desired, entry.owned) # {} THEN Refuses(f, entry)
        ELSE Written([next EXCEPT !.private = @ \/ tightens],
                     WithOtelInstall(entry, DOMAIN desired, tightens /\ f.state = "ok" /\ ~f.private))

-----------------------------------------------------------------------------
(* Codex: one marked block.  Its own tables inside the markers are put     *)
(* back, which is all of the text surgery that is left out here.           *)
HasBlock(f) == "otel" \in DOMAIN f.env /\ ~ByUser(f.env["otel"])

UninstallCodex(f, entry) ==
    IF f.state = "missing" \/ ~HasBlock(f) THEN Same(f, entry)
    ELSE IF f.state = "broken" THEN Refuses(f, entry)
    ELSE [ok |-> TRUE, file |-> [f EXCEPT !.env = NoEnv, !.private = Shared(f, entry.prior)],
          entry |-> WithoutOtelInstall(entry)]

ConfigureCodex(f, entry, config) ==
    LET desired == Desired("codex", config)
    IN  IF ~Wanted("codex", config) THEN UninstallCodex(f, entry)
        ELSE IF ~Configurable("codex", config) \/ f.state = "broken" THEN Refuses(f, entry)
        ELSE IF desired = f.env THEN Same(f, entry)
        ELSE IF ~Readable(f) \/ ("otel" \in DOMAIN f.env /\ ~HasBlock(f)) THEN Refuses(f, entry)
        ELSE Written([f EXCEPT !.env = desired, !.private = @ \/ Bearer(config)],
                     WithOtelInstall(entry, {"otel"}, Bearer(config) /\ f.state = "ok" /\ ~f.private))

-----------------------------------------------------------------------------
UninstallOtel(agent, f, entry, config) ==
    CASE agent = "claude" -> UninstallClaude(f, entry, config)
      [] agent = "codex" -> UninstallCodex(f, entry)
      [] agent = "gemini" -> UninstallGemini(f, entry)

Configure(agent, f, entry, config) ==
    CASE agent = "claude" -> ConfigureClaude(f, entry, config)
      [] agent = "codex" -> ConfigureCodex(f, entry, config)
      [] agent = "gemini" -> ConfigureGemini(f, entry, config)

(* inspect: whether the exporter stands as the configuration wants it, as  *)
(* status and doctor report it.                                            *)
Leftover(f, owned) ==
    \E k \in owned : IF k = "helper" THEN f.helper # "none" ELSE k \in DOMAIN f.env

Says(f, desired) == \A k \in DOMAIN desired : k \in DOMAIN f.env /\ Text(f.env[k]) = desired[k]

InspectDisabled(agent, f, entry) ==
    \/ f.state = "missing"
    \/ /\ f.state = "ok"
       /\ ~Leftover(f, entry.owned)
       /\ agent = "gemini" => f.helper # "ours"

InspectClaude(f, entry, config) ==
    IF ~Wanted("claude", config) THEN InspectDisabled("claude", f, entry)
    ELSE Configurable("claude", config) /\ f.state = "ok" /\ Says(f, Desired("claude", config))

InspectCodex(f, config) ==
    IF ~Wanted("codex", config) THEN ~HasBlock(f)
    ELSE /\ Configurable("codex", config) /\ HasBlock(f)
         /\ f.state \in {"ok", "invalid"} /\ Says(f, Desired("codex", config))

InspectGemini(f, entry, config) ==
    IF ~Wanted("gemini", config) THEN InspectDisabled("gemini", f, entry)
    ELSE /\ Configurable("gemini", config) /\ f.helper # "ours"
         /\ f.state = "ok" /\ Says(f, Desired("gemini", config))

InspectsConfigured(agent, f, entry, config) ==
    CASE agent = "claude" -> InspectClaude(f, entry, config)
      [] agent = "codex" -> InspectCodex(f, config)
      [] agent = "gemini" -> InspectGemini(f, entry, config)

=============================================================================
