------------------------------ MODULE MCSetup ------------------------------
(* The instances of Setup that TLC checks.                                 *)
EXTENDS Setup, TLC

MCOrder == <<"claude", "codex", "gemini", "cursor", "antigravity">>
MCCwds == {"home", "work"}
MCRoots == {"inner", "outer"}
MCEnclosing == [home |-> <<>>, work |-> <<"inner", "outer">>]

-----------------------------------------------------------------------------
Fresh == [state |-> "missing", hooks |-> [e \in Events |-> {}], env |-> NoEnv,
          helper |-> "none", private |-> FALSE]
Ok == [Fresh EXCEPT !.state = "ok"]
Other == <<"bad">>
Mine(k) == k :> UserSet(Other)
Alike(k) == k :> UserSet(<<k>>)
Machine == [p \in Files |-> Fresh]

MCWords ==
    {"a", "b", "c", "t", "r", "route", "bad", "null", "events", "otlp", "decision", "none",
     "switch", "content", "beta"}
BaseA == <<"a">>
BaseB == <<"b">>
RouteC == <<"c">>
Tok == <<"t">>

Missing == [state |-> "missing", raw |-> DefaultConfig]
Enroll(config) == [state |-> "ok", raw |-> [config EXCEPT !.urls.endpoint = BaseA, !.token = Tok]]
Consented == [DefaultConfig EXCEPT !.consent = TRUE, !.content = TRUE, !.otel = {"logs", "traces"}]

Scene(agents, files, config) ==
    [detected |-> agents, settings |-> files @@ Machine, config |-> config]

(* One machine for the configuration, one per agent for its settings.      *)
RootB == [urls |-> [f \in RootUrlFields |-> IF f = "endpoint" THEN BaseB ELSE None], token |-> <<"r">>]
Rooted == [DefaultConfig EXCEPT !.roots = ("outer" :> RootB)]

ConfigScenes ==
    {Scene({"cursor"}, "cursor" :> Ok, Missing),
     Scene({"cursor"}, "cursor" :> Ok, Enroll([Rooted EXCEPT !.content = TRUE, !.urls.enforcementUrl = RouteC]))}

AgentScenes ==
    {Scene({"claude"}, "claude" :> [Ok EXCEPT !.hooks["kept"] = {"user"}], Enroll(Consented)),
     Scene({"claude"}, "claude" :> [Ok EXCEPT !.env = Mine("content")], Enroll(DefaultConfig)),
     Scene({"claude"}, "claude" :> [Ok EXCEPT !.env = Mine("endpoint") @@ Alike("switch")], Enroll(DefaultConfig)),
     Scene({"codex"}, "codex" :> [Ok EXCEPT !.hooks["dropped"] = {"user", "ours"}] @@ "codex.toml" :> Ok, Enroll(Consented)),
     Scene({"codex", "antigravity"}, "codex.toml" :> [Ok EXCEPT !.private = TRUE], Enroll(Consented)),
     Scene({"gemini"}, "gemini" :> [Ok EXCEPT !.helper = "ours"], Enroll(Consented)),
     Scene({"claude", "gemini"}, "claude" :> Ok @@ "gemini" :> [Ok EXCEPT !.env = Mine("endpoint")],
           Enroll([Consented EXCEPT !.otel = {"metrics"}]))}

MCScenes == ConfigScenes \union AgentScenes

Plain == [root |-> NoRoot, endpoint |-> None, token |-> None, otel |-> None]
MCOptions(agents) ==
    {Plain, [Plain EXCEPT !.endpoint = BaseB, !.token = Tok]}
    \union IF agents = {"cursor"}
           THEN {[Plain EXCEPT !.root = "inner", !.token = <<"r">>],
                 [Plain EXCEPT !.root = "outer", !.endpoint = BaseA, !.token = <<"r">>]}
           ELSE {[Plain EXCEPT !.otel = <<{}>>], [Plain EXCEPT !.otel = <<{"logs"}>>]}

(* A user sets a key to something else, or to just what AgentWatch would.  *)
MCChosen(k) ==
    {Other} \union (CASE k \in {"switch", "beta"} -> {<<k>>}
                      [] k = "exporters" -> {Exporters({"logs", "traces"})}
                      [] OTHER -> {})

MCRepoFiles ==
    {("content" :> "on"), ("git" :> "off") @@ ("content" :> "on"), ("git" :> "on") @@ ("consent" :> "on"),
     ("git" :> "junk") @@ ("content" :> "off"),
     ("endpoint" :> RouteC) @@ ("token" :> <<"x">>), ("otlpUrl" :> RouteC) @@ ("eventsUrl" :> Bad)}
=============================================================================
