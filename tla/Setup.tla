------------------------------- MODULE Setup -------------------------------
(***************************************************************************)
(* The commands that change the configuration and the agents' settings:    *)
(* cli/setup.ts, toggle.ts (off and on) and uninstall.ts.  They walk the   *)
(* agents one file at a time, thread the install state from one to the     *)
(* next, and keep it on disk at their end, off and on after every agent.   *)
(*                                                                         *)
(* In between users and agents edit the same files, commands die, and the  *)
(* install state may be lost.  One command runs at a time.                 *)
(***************************************************************************)
EXTENDS AgentSettings

CONSTANTS
    Words,          \* what URLs, tokens and AgentWatch's settings are made of
    Roots,          \* folders that may be project roots
    Scenes,         \* the machines considered: agents, settings, config.json
    Chosen(_),      \* what users may set a telemetry key to
    Options(_),     \* what setup may be called with, given the agents there are
    RepoFiles,      \* files a repository may carry
    MaxCommands,    \* bound: commands run
    MaxMishaps      \* bound: edits by others, crashes, failed writes, losses

VARIABLES
    detected,   \* agents present on this machine
    settings,   \* their settings files
    state,      \* install-state.json, per agent
    marker,     \* disabled.json is there
    cmd,        \* the command being run
    ran         \* commands so far

(* History, read by no action.                                             *)
VARIABLES
    born,       \* the settings files as they were first
    lost,       \* an install record was lost, or never written
    clean,      \* the last off or on left no exporter it could not reach
    touched,    \* files others edited since the command began
    mishaps

vars == <<file, detected, settings, state, marker, cmd, ran, born, lost, clean, touched, mishaps>>

(* What the files hold: of what a user set, any value, AgentWatch's own    *)
(* included, behind the mark.  On the machines considered AgentWatch has   *)
(* no telemetry key yet.                                                   *)
Value == Seq(Words)
Marked == Seq(Words \union {"user"})

Identity == [urls : [RootUrlFields -> Value], token : Value]
ConfigOver(roots) ==
    [urls : [UrlFields -> Value], token : Value, roots : [roots -> Identity], consent : BOOLEAN,
     content : BOOLEAN, git : BOOLEAN, otel : SUBSET {"logs", "traces", "metrics"}]
IsConfig(c) == DOMAIN c.roots \subseteq Roots /\ c \in ConfigOver(DOMAIN c.roots)
IsStored(f) == f \in [state : {"missing", "ok", "invalid"}, raw : {f.raw}] /\ IsConfig(f.raw)

FileOver(env) ==
    [state : {"missing", "ok", "invalid", "rejected", "broken"}, hooks : [Events -> SUBSET {"user", "ours"}],
     env : [env -> Marked], helper : {"none", "user", "ours"}, private : BOOLEAN]
IsFile(path, f) ==
    /\ f \in FileOver(DOMAIN f.env)
    /\ DOMAIN f.env \subseteq (IF path = "codex.toml" THEN {"otel"} ELSE Keys \ {"otel"})
    /\ f.state = "missing" => DOMAIN f.env = {}
AreFiles(files) == DOMAIN files = Files /\ \A path \in Files : IsFile(path, files[path])

IsScene(s) ==
    /\ s.detected \subseteq Agents /\ IsStored(s.config) /\ AreFiles(s.settings)
    /\ \A path \in Files : \A k \in DOMAIN s.settings[path].env : ByUser(s.settings[path].env[k])

IsOption(o) ==
    /\ o.root \in Roots \union {NoRoot} /\ o.endpoint \in Value /\ o.token \in Value
    /\ o.otel # None => o.otel[1] \subseteq {"logs", "traces", "metrics"}

ASSUME SetupAssumption ==
    /\ "user" \notin Words
    /\ {"bad", "null", "events", "otlp", "decision", "none", "switch", "content", "beta", "route"}
          \subseteq Words
    /\ NoRoot \notin Roots /\ Enclosing \in [Cwds -> Seq(Roots)]
    /\ Order \in Seq(Files) /\ Agents = Files \ {"codex.toml"}
    /\ \A s \in Scenes : IsScene(s)
    /\ \A k \in Keys : Chosen(k) \subseteq Value
    /\ \A agents \in SUBSET Agents : \A o \in Options(agents) : IsOption(o)

NoRecord == [a \in Agents |-> Gone]

(* A command: the agents it still goes to and, once it failed, restored;   *)
(* held is the install state it carries along, ok its last outcome.        *)
Idle == [name |-> "idle", pc |-> "done", todo |-> {}, held |-> NoRecord, failed |-> FALSE,
         ok |-> TRUE, restored |-> {}, config |-> DefaultConfig, purge |-> FALSE]

Init ==
    /\ \E s \in Scenes :
        /\ detected = s.detected /\ settings = s.settings /\ file = s.config
        /\ born = s.settings
    /\ state = NoRecord
    /\ marker = FALSE
    /\ cmd = Idle /\ ran = 0
    /\ lost = FALSE /\ clean = TRUE /\ touched = {} /\ mishaps = 0

IsDisabled == marker

(* The bearer that Claude's exporter, which sends to the machine's         *)
(* collector, gets from otel-headers in a folder.                          *)
OtelHeaders(cwd) ==
    LET rooted == ApplyRootOverride(LoadConfig, cwd)
    IN  IF ~IsDisabled /\ SharesOtlpCollector(LoadConfig, rooted) THEN rooted.token ELSE None

Mishap == mishaps < MaxMishaps /\ mishaps' = mishaps + 1

-----------------------------------------------------------------------------
(* The start of a command.                                                 *)
Begin(name, todo, config, purge) ==
    /\ cmd = Idle /\ ran < MaxCommands /\ ran' = ran + 1
    /\ cmd' = [Idle EXCEPT !.name = name, !.pc = IF name \in {"setup", "uninstall"} THEN "hooks" ELSE "otel",
                           !.todo = todo, !.held = state, !.config = config, !.purge = purge]
    /\ touched' = {}
    /\ UNCHANGED <<detected, settings, state, born, lost, mishaps>>

(* setup writes the configuration before it goes to the agents.            *)
BeginSetup(opts) ==
    /\ ~IsDisabled /\ file.state # "invalid" /\ detected # {}
    /\ Enrollable(LoadConfig, opts)
    /\ LET config == Enrolled(LoadConfig, opts)
       IN  file' = SaveConfig(config) /\ Begin("setup", detected, config, FALSE)
    /\ UNCHANGED <<marker, clean>>

(* --purge counts only without --agent.                                    *)
BeginUninstall(agents, purge) ==
    /\ purge => agents = Agents
    /\ Begin("uninstall", agents, LoadConfig, purge)
    /\ UNCHANGED <<file, marker, clean>>

(* off names every exporter there is, whatever it knows of them.           *)
BeginOff ==
    /\ Begin("off", Agents \intersect Native, LoadConfig, FALSE)
    /\ marker' = TRUE
    /\ UNCHANGED <<file, clean>>

BeginOn ==
    /\ IsDisabled /\ file.state = "ok"
    /\ Begin("on", Agents \intersect Native, LoadConfig, FALSE)
    /\ UNCHANGED <<file, marker, clean>>

(* A machine that was never enrolled has nothing to restore.               *)
OnUnenrolled ==
    /\ cmd = Idle /\ IsDisabled /\ file.state = "missing"
    /\ marker' = FALSE
    /\ UNCHANGED <<file, detected, settings, state, cmd, ran, born, lost, clean, touched, mishaps>>

-----------------------------------------------------------------------------
(* The commands go through the agents in one order.                        *)
Now == FirstIn(Order, cmd.todo)

Took(path, outcome, next) ==
    /\ settings' = [settings EXCEPT ![path] = outcome.file]
    /\ cmd' = [next EXCEPT !.held[Now] = outcome.entry, !.failed = @ \/ ~outcome.ok, !.ok = outcome.ok]

Steps == UNCHANGED <<file, detected, marker, ran, born, lost, clean, touched, mishaps>>
Onward == [cmd EXCEPT !.pc = "hooks", !.todo = @ \ {Now}]      \* on to the next agent

Hooks ==
    /\ cmd.pc = "hooks" /\ cmd.todo # {}
    /\ LET f == settings[Now]
           outcome == IF cmd.name = "setup" THEN InstallHooks(Now, f, cmd.held[Now])
                      ELSE UninstallHooks(Now, f, cmd.held[Now])
       IN  Took(Now, outcome, IF Now \in Native THEN [cmd EXCEPT !.pc = "otel"] ELSE Onward)
    /\ UNCHANGED state /\ Steps

(* An agent that was forgotten with its hooks has no record to try its     *)
(* exporter again by.                                                      *)
Exporter ==
    /\ cmd.pc = "otel" /\ cmd.todo # {}
    /\ cmd.name \in {"setup", "uninstall"}
    /\ LET path == OtelFile(Now)
           f == settings[path]
           outcome == IF cmd.name = "setup" THEN Configure(Now, f, cmd.held[Now], cmd.config)
                      ELSE UninstallOtel(Now, f, cmd.held[Now], cmd.config)
       IN  /\ Took(path, outcome, Onward)
           /\ lost' = (lost \/ (cmd.name = "uninstall" /\ Forgets(Now) /\ ~cmd.held[Now].there /\ ~outcome.ok))
    /\ UNCHANGED <<file, detected, state, marker, ran, born, clean, touched, mishaps>>

(* off and on: an agent whose hooks are gone is not restored.              *)
SkippedByOn == cmd.name = "on" /\ ~HooksInstalled(settings[Now])

Switch ==
    /\ cmd.pc = "otel" /\ cmd.todo # {} /\ cmd.name \in {"off", "on"}
    /\ IF SkippedByOn THEN cmd' = [cmd EXCEPT !.todo = @ \ {Now}] /\ UNCHANGED settings
       ELSE LET path == OtelFile(Now)
                f == settings[path]
                outcome == IF cmd.name = "on" THEN Configure(Now, f, cmd.held[Now], cmd.config)
                           ELSE UninstallOtel(Now, f, cmd.held[Now], cmd.config)
            IN  Took(path, outcome, [cmd EXCEPT !.pc = "save"])
    /\ UNCHANGED state /\ Steps

(* The write of an agent's file throws: off and on go on to the next.      *)
SwitchThrows ==
    /\ cmd.pc = "otel" /\ cmd.todo # {} /\ cmd.name \in {"off", "on"} /\ ~SkippedByOn
    /\ Mishap
    /\ cmd' = [cmd EXCEPT !.todo = @ \ {Now}, !.failed = TRUE]
    /\ UNCHANGED <<file, detected, settings, state, marker, ran, born, lost, clean, touched>>

SaveOne ==
    /\ cmd.pc = "save"
    /\ state' = cmd.held
    /\ cmd' = [cmd EXCEPT !.pc = "otel", !.todo = @ \ {Now},
                          !.restored = IF cmd.name = "on" /\ cmd.ok THEN @ \union {Now} ELSE @]
    /\ UNCHANGED settings /\ Steps

(* So does the write of the install state; the agent does not count as     *)
(* restored, and a failed on leaves its exporter where it is.              *)
SaveThrows ==
    /\ cmd.pc = "save" /\ Mishap
    /\ cmd' = [cmd EXCEPT !.pc = "otel", !.todo = @ \ {Now}, !.failed = TRUE]
    /\ clean' = (clean /\ (cmd.name = "on" => ~cmd.ok))
    /\ UNCHANGED <<file, detected, settings, state, marker, ran, born, lost, touched>>

-----------------------------------------------------------------------------
(* The end of a command.                                                   *)
Finished == cmd.todo = {} /\ cmd.pc \in {"hooks", "otel"}

EndPlain ==
    /\ Finished /\ cmd.name \in {"setup", "uninstall"} /\ ~cmd.purge
    /\ state' = cmd.held
    /\ cmd' = Idle
    /\ UNCHANGED <<settings, file, detected, marker, ran, born, lost, clean, touched, mishaps>>

(* uninstall --purge also removes the configuration, the marker with it.   *)
EndPurge ==
    /\ Finished /\ cmd.purge
    /\ state' = NoRecord
    /\ file' = [state |-> "missing", raw |-> DefaultConfig]
    /\ marker' = FALSE /\ clean' = TRUE
    /\ cmd' = Idle
    /\ lost' = (lost \/ \E a \in Agents : cmd.held[a].there /\ cmd.held[a].owned # {})
    /\ UNCHANGED <<settings, detected, ran, born, touched, mishaps>>

EndOff ==
    /\ Finished /\ cmd.name = "off"
    /\ clean' = ~cmd.failed
    /\ cmd' = Idle
    /\ lost' = (lost \/ cmd.held # state)
    /\ UNCHANGED <<settings, state, file, detected, marker, ran, born, touched, mishaps>>

EndOn ==
    /\ Finished /\ cmd.name = "on" /\ ~cmd.failed
    /\ marker' = FALSE
    /\ cmd' = Idle
    /\ UNCHANGED <<settings, state, file, detected, ran, born, lost, clean, touched, mishaps>>

NoRollBack ==       \* a mutant
    /\ Finished /\ cmd.name = "on" /\ cmd.failed
    /\ cmd' = Idle /\ lost' = (lost \/ cmd.held # state)
    /\ UNCHANGED <<settings, state, clean, file, detected, marker, ran, born, touched, mishaps>>

(* A failed on takes back what it restored and leaves the marker.          *)
RollBack ==
    /\ Finished /\ cmd.name = "on" /\ cmd.failed
    /\ IF cmd.restored = {}
       THEN cmd' = Idle /\ lost' = (lost \/ cmd.held # state) /\ UNCHANGED <<settings, state, clean>>
       ELSE LET a == FirstIn(Order, cmd.restored)
                path == OtelFile(a)
                outcome == UninstallOtel(a, settings[path], cmd.held[a], cmd.config)
            IN  /\ settings' = [settings EXCEPT ![path] = outcome.file]
                /\ state' = [cmd.held EXCEPT ![a] = outcome.entry]
                /\ cmd' = [cmd EXCEPT !.restored = @ \ {a}, !.held[a] = outcome.entry]
                /\ clean' = (clean /\ outcome.ok)
                /\ UNCHANGED lost
    /\ UNCHANGED <<file, detected, marker, ran, born, touched, mishaps>>

RollBackThrows ==
    /\ Finished /\ cmd.name = "on" /\ cmd.failed /\ cmd.restored # {}
    /\ Mishap
    /\ cmd' = [cmd EXCEPT !.restored = @ \ {FirstIn(Order, @)}]
    /\ clean' = FALSE
    /\ UNCHANGED <<file, detected, settings, state, marker, ran, born, lost, touched>>

(* A command dies, or a write of setup's or uninstall's throws.            *)
Crash ==
    /\ cmd # Idle /\ Mishap
    /\ cmd' = Idle
    /\ lost' = (lost \/ cmd.held # state)
    /\ clean' = (clean /\ cmd.name \notin {"off", "on"})
    /\ UNCHANGED <<file, detected, settings, state, marker, ran, born, touched>>

-----------------------------------------------------------------------------
(* Others.                                                                 *)
Edited(path, f) ==
    /\ Mishap
    /\ settings' = [settings EXCEPT ![path] = f]
    /\ touched' = touched \union {path}
    /\ UNCHANGED <<file, detected, state, marker, cmd, ran, born, lost, clean>>

Usable(path) == settings[path].state = "ok"

SetKey(path, k, text) ==
    /\ Usable(path) /\ (k = "otel") = (path = "codex.toml")
    /\ Edited(path, [settings[path] EXCEPT !.env = SetIn(@, [j \in {k} |-> UserSet(text)])])
SetHelper == Usable("claude") /\ Edited("claude", [settings["claude"] EXCEPT !.helper = "user"])
Damage(path, how) == Usable(path) /\ Edited(path, [settings[path] EXCEPT !.state = how])
Repair(path) ==
    /\ settings[path].state \in {"invalid", "broken", "rejected"}
    /\ Edited(path, [settings[path] EXCEPT !.state = "ok"])
DropHooks(path) ==
    /\ Usable(path) /\ HooksInstalled(settings[path])
    /\ Edited(path, [settings[path] EXCEPT !.hooks = StripOurHandlers(@)])

LoseState ==
    /\ Mishap
    /\ state # NoRecord
    /\ state' = NoRecord
    /\ lost' = TRUE
    /\ UNCHANGED <<file, detected, settings, marker, cmd, ran, born, clean, touched>>

(* The user edits config.json: a URL by hand, the consent, a flag.         *)
EditConfig(raw) ==
    /\ cmd = Idle /\ file.state = "ok" /\ Mishap
    /\ file' = [file EXCEPT !.raw = raw]
    /\ UNCHANGED <<detected, settings, state, marker, cmd, ran, born, lost, clean, touched>>

(* config.json loses its last brace, or has it back.                       *)
BreakConfig ==
    /\ cmd = Idle /\ file.state \in {"ok", "invalid"}
    /\ file.state = "ok" => Mishap
    /\ file.state = "invalid" => UNCHANGED mishaps
    /\ file' = [file EXCEPT !.state = IF @ = "ok" THEN "invalid" ELSE "ok"]
    /\ UNCHANGED <<detected, settings, state, marker, cmd, ran, born, lost, clean, touched>>

ByHand ==
    LET raw == file.raw
    IN  {[raw EXCEPT !.consent = ~@], [raw EXCEPT !.content = ~@],
         [raw EXCEPT !.urls.endpoint = Bad], [raw EXCEPT !.urls.eventsUrl = Bad],
         [raw EXCEPT !.urls.otlpUrl = <<"route">>], [raw EXCEPT !.urls.enforcementUrl = <<"route">>]}
        \union {[raw EXCEPT !.roots[r].urls[f] = u] :
                    r \in DOMAIN raw.roots, f \in RootUrlFields, u \in {None, Bad, <<"route">>}}

-----------------------------------------------------------------------------
Commands ==
    \/ \E opts \in Options(detected) : BeginSetup(opts)
    \/ \E purge \in BOOLEAN : BeginUninstall(Agents, purge)
    \/ \E a \in detected : BeginUninstall({a}, FALSE)
    \/ BeginOff \/ BeginOn \/ OnUnenrolled
    \/ Hooks \/ Exporter \/ Switch \/ SwitchThrows \/ SaveOne \/ SaveThrows
    \/ EndPlain \/ EndPurge \/ EndOff \/ EndOn \/ RollBack \/ RollBackThrows \/ Crash

Others ==
    \/ \E path \in DOMAIN settings, k \in Keys : \E text \in Chosen(k) : SetKey(path, k, text)
    \/ SetHelper
    \/ \E path \in DOMAIN settings :
        \/ Damage(path, "invalid") \/ Repair(path) \/ DropHooks(path)
        \/ path = "codex" /\ Damage(path, "rejected")
        \/ path = "codex.toml" /\ HasBlock(settings[path]) /\ Damage(path, "broken")
    \/ LoseState
    \/ \E raw \in ByHand : EditConfig(raw)
    \/ BreakConfig

Next == Commands \/ Others

Spec == Init /\ [][Next]_vars

-----------------------------------------------------------------------------
(* Types.  A record that is gone owns nothing, and a mode to restore is    *)
(* kept with the keys that made the file private.                          *)
Entry == [there : BOOLEAN, hooks : BOOLEAN, owned : SUBSET (Keys \union {"helper"}), prior : BOOLEAN]
Sound(e) == (e.owned # {} => e.there) /\ (e.prior => e.owned # {})
IsRecord(r) == r \in [Agents -> Entry] /\ \A a \in Agents : Sound(r[a])

IsCommand(c) ==
    c \in [name : {"idle", "setup", "uninstall", "off", "on"}, pc : {"done", "hooks", "otel", "save"},
           todo : SUBSET Agents, held : {c.held}, failed : BOOLEAN, ok : BOOLEAN,
           restored : SUBSET (Agents \intersect Native), config : {c.config}, purge : BOOLEAN]

(* Where a command of each name can be.                                    *)
Placed(c) ==
    /\ c.name = "idle" <=> c.pc = "done"
    /\ c.name = "idle" => c.todo = {}
    /\ c.name \in {"setup", "uninstall"} => c.pc \in {"hooks", "otel"}
    /\ c.name \in {"off", "on"} => c.pc \in {"otel", "save"} /\ c.todo \subseteq Native
    /\ c.pc = "save" => c.todo # {}
    /\ c.name \in {"setup", "uninstall"} /\ c.pc = "otel" => c.todo # {} /\ FirstIn(Order, c.todo) \in Native

TypeOK ==
    /\ IsStored(file) /\ detected \subseteq Agents
    /\ AreFiles(settings) /\ DOMAIN born = Files
    /\ IsRecord(state)
    /\ IsCommand(cmd) /\ Placed(cmd) /\ IsRecord(cmd.held) /\ IsConfig(cmd.config)
    /\ marker \in BOOLEAN /\ lost \in BOOLEAN /\ clean \in BOOLEAN
    /\ touched \subseteq Files /\ ran \in Nat /\ mishaps \in Nat

-----------------------------------------------------------------------------
(* Properties of the configuration.                                        *)

(* A repository's file can only take content away: whatever it says, and   *)
(* wherever the hook runs, its events go where they went without it, under *)
(* the same bearer and consent (loadEffectiveConfig).                      *)
Narrows(eff, own) ==
    /\ eff.urls = own.urls /\ eff.token = own.token
    /\ eff.otel = own.otel /\ eff.consent = own.consent
    /\ eff.content => own.content
    /\ eff.git => own.git

RepoOnlyNarrows ==
    \A cwd \in Cwds, repo \in RepoFiles :
        Narrows(LoadEffectiveConfig(cwd, repo), ApplyRootOverride(LoadConfig, cwd))

(* A root that names a destination of its own has its bearer sent there or *)
(* nowhere, never to the machine's collector or past a URL it got wrong    *)
(* (applyRootOverride, withoutDestination, otel-headers).                  *)
OwnDestination(machine, root) == \E f \in RootUrlFields : root[f] # None /\ root[f] # machine[f]

OwnUrl(root, field, path) ==
    {None} \union (IF Given(root[field]) THEN {root[field]}
                   ELSE IF root[field] = None /\ Given(root.endpoint) THEN {Derived(root.endpoint, path)} ELSE {})

BearerKept ==
    \A r \in DOMAIN LoadConfig.roots :
        LET machine == LoadConfig.urls
            root == LoadConfig.roots[r].urls
            effective == ApplyRoot(LoadConfig, LoadConfig.roots[r])
        IN  OwnDestination(machine, root) =>
                /\ EventsUrl(effective) \in OwnUrl(root, "eventsUrl", "events")
                /\ OtlpBaseUrl(effective) \in OwnUrl(root, "otlpUrl", "otlp")
                /\ root.endpoint \notin {None, machine.endpoint} =>
                       EnforcementUrl(effective) \in {None, Derived(root.endpoint, "decision")}
                /\ \A cwd \in Cwds : SelectRoot(LoadConfig.roots, cwd) = r /\ OtelHeaders(cwd) # None =>
                       OtlpBaseUrl(LoadConfig) \in OwnUrl(root, "otlpUrl", "otlp")

(* setup changes one identity only, keeps the content flag and every bad   *)
(* URL but the endpoint it replaces as the user wrote them, and takes no   *)
(* route of a previous backend to another one (saveConfig,                 *)
(* transitionDestination).                                                 *)
Identities(raw) == {NoRoot} \union DOMAIN raw.roots
UrlsOf(raw, id) == IF id = NoRoot THEN raw.urls ELSE raw.roots[id].urls
BaseOf(raw, id) == IF UrlsOf(raw, id).endpoint = None THEN raw.urls.endpoint ELSE UrlsOf(raw, id).endpoint

SetupKeepsWhatWasWritten ==
    [][cmd.name = "idle" /\ cmd'.name = "setup" /\ file.state = "ok" =>
        LET old == file.raw
            new == file'.raw
            changed == {id \in Identities(old) : UrlsOf(new, id) # UrlsOf(old, id)}
        IN  /\ new.content = old.content /\ new.consent = old.consent
            /\ Identities(old) \subseteq Identities(new)
            /\ Cardinality(changed) <= 1
            /\ \A id \in changed : \A f \in DOMAIN UrlsOf(old, id) \ {"endpoint"} :
                   IF UrlsOf(old, id)[f] \in {Bad, Refused} THEN UrlsOf(new, id)[f] = UrlsOf(old, id)[f]
                   ELSE BaseOf(old, id) # BaseOf(new, id) => UrlsOf(new, id)[f] = None]_vars

-----------------------------------------------------------------------------
(* Properties of the agents' settings.                                     *)
Set(f) == {k \in DOMAIN f.env : ByUser(f.env[k])}
OursIn(f) == {k \in DOMAIN f.env : ~ByUser(f.env[k])}
Sends(agent) == (OursIn(settings[OtelFile(agent)]) \intersect {"switch", "otel"}) # {}

(* No command removes or changes what the user set, hooks and helper       *)
(* included, but prompt logging, a key AgentWatch has on record as its own *)
(* and, where it has no keys of Claude's on record, one that stands just   *)
(* as it would write it now: the guess takes that, whoever set it          *)
(* (foreignKeys, removableEnvKeys, withoutOurHandlers).  Gemini without a  *)
(* record is left out.  OnlyOwnedRemoved is about both.                    *)
Guessed(agent, f, entry, config) ==
    {k \in Set(f) : /\ agent = "claude" /\ entry.owned = {}
                    /\ k \in DOMAIN Desired("claude", config)
                    /\ Text(f.env[k]) = Desired("claude", config)[k]}

Protected(agent, f, entry, config) ==
    Set(f) \ ({"content"} \union entry.owned \union Guessed(agent, f, entry, config))

StillSays(f, g, k) == k \in DOMAIN g.env /\ Text(g.env[k]) = Text(f.env[k])

UsersKept ==
    [][mishaps' = mishaps /\ settings' # settings =>
        \A path \in DOMAIN settings :
            LET f == settings[path]
                g == settings'[path]
                agent == IF path = "codex.toml" THEN "codex" ELSE path
                entry == cmd.held[agent]
            IN  /\ \/ path = "gemini" /\ ~entry.there
                   \/ \A k \in Protected(agent, f, entry, cmd.config) : StillSays(f, g, k)
                /\ \A e \in Events : "user" \in f.hooks[e] => "user" \in g.hooks[e]
                /\ f.helper = "user" => g.helper = "user"]_vars

(* While the machine is off no exporter of AgentWatch's is left switched   *)
(* on, whatever was tried since: a failed on takes its work back.  Only    *)
(* without its record may what Claude or Gemini exports be overlooked.     *)
SilentWhileOff ==
    IsDisabled /\ cmd.name = "idle" /\ clean =>
        \A a \in Native : Sends(a) => a # "codex" /\ lost

(* A setup or on that reports success leaves every exporter saying just    *)
(* what the configuration and the consent say now, nothing of an earlier   *)
(* one, and none where it is to be off.                                    *)
Follows(agent, config) ==
    LET f == settings[OtelFile(agent)]
        desired == Desired(agent, config)
    IN  /\ OursIn(f) = DOMAIN desired
        /\ \A k \in DOMAIN desired : f.env[k] = desired[k]

ExporterFollowsConfig ==
    Finished /\ cmd.name \in {"setup", "on"} /\ ~cmd.failed /\ touched = {} /\ ~lost =>
        \A a \in Native :
            (IF cmd.name = "setup" THEN a \in detected ELSE HooksInstalled(settings[a])) => Follows(a, cmd.config)

(* A config.toml that was readable by others before AgentWatch put the     *)
(* bearer in it is so again once the block is gone (otelPriorMode).        *)
ModeRestored ==
    LET f == settings["codex.toml"]
    IN  cmd.name = "idle" /\ ~lost /\ f.state = "ok" /\ "otel" \notin DOMAIN f.env =>
            (f.private => born["codex.toml"].private \/ born["codex.toml"].state = "missing")

(* Where status and doctor report an exporter off as configured, none of   *)
(* ours is on (inspect, and the owned keys setup recorded).                *)
ReportedOffIsOff ==
    cmd.name = "idle" /\ ~lost =>
        \A a \in Native :
            ~Wanted(a, LoadConfig)
                /\ InspectsConfigured(a, settings[OtelFile(a)], state[a], LoadConfig) => ~Sends(a)

(* docs/ENTERPRISE_DEPLOYMENT.md:43: uninstall "removes exactly the keys   *)
(* and hook entries the install state recorded as owned", and              *)
(* claude.otel.ts:217: "user-owned telemetry config is never removed".     *)
(* Refuted twice where setup left an exporter alone because of a key of    *)
(* the user's.  Gemini: uninstalling the hooks forgets the record, and the *)
(* exporter's uninstall then takes every key it ever wrote for its own.    *)
(* Claude: no keys are on record, and the other keys of the user's that    *)
(* stand as AgentWatch would write them are taken for its own.             *)
OnlyOwnedRemoved ==
    cmd.name = "uninstall" /\ mishaps = 0 =>
        \A a \in Native :
            state[a].there => Set(born[OtelFile(a)]) \ ({"content"} \union state[a].owned)
                                  \subseteq Set(settings[OtelFile(a)])

=============================================================================
