---------------------------- MODULE HookPipeline ----------------------------
(***************************************************************************)
(* The stages of pipeline/hook-pipeline.ts over one session: context,      *)
(* nomination, the prompt gate, turn tracking, delivery and the snapshot,  *)
(* as far as they say which repository a turn is about.                    *)
(*                                                                         *)
(* Tool calls run in parallel.  A tool hook lists the session's files in   *)
(* one step and writes each record, with a fingerprint taken then, in a    *)
(* later one.  Checkouts change, move, appear and vanish at any moment.    *)
(* A prompt's and a Stop's hook are one step each; how Stops of a session  *)
(* overlap is TurnClose's subject, what the gate answers Enforcement's.    *)
(***************************************************************************)
EXTENDS WorkCheckout

CONSTANTS
    Layouts,        \* the machines considered, with the files they start with
    Calls,          \* tool calls: the checkouts a command, a file, a window name
    Worked,         \* the checkouts that change in this instance
    Remotes,        \* what a checkout's remote may become
    MaxTurns,       \* bound: prompts
    MaxMishaps      \* bound: changes of checkouts and of the agent's folder,
                    \* failed writes, git timeouts and failed closes

(* Where a checkout may be cloned from, and what a report may call it.     *)
Hosts == (Remotes \union UNION {{l.disk[c].remote : c \in Checkouts} : l \in Layouts}) \ {None}
Repository == Checkouts \union Hosts

Checkout == [there : BOOLEAN, head : Nat, tree : Nat, dirty : Nat, branch : {"on", "off"},
             remote : Hosts \union {None}, policy : Policy]

ASSUME PipelineAssumption ==
    /\ \A c \in Calls : /\ {c.shell, c.file, c.open} \subseteq Checkouts \union {None}
                        /\ c.access \in {"read", "edit", None}
    /\ \A l \in Layouts : /\ l.dirs \in Layout /\ l.cwd \in Folders
                          /\ l.disk \in [Checkouts -> Checkout] /\ l.world \in 0..MaxMishaps
    /\ Worked \subseteq Checkouts
    /\ "lost" \notin Folders \union {None}
    /\ MaxTurns \in Nat /\ MaxMishaps \in Nat

VARIABLES
    cwd,        \* the folder the agent sits in
    turn,       \* the prompt being worked on
    busy,       \* it has not been stopped
    clock,      \* event timestamps; only those of one turn are compared
    call,       \* per call: how far it is, its turn, event and planned writes
    asked,      \* the repository and branch the gate last asked about
    report,     \* what the last closed turn reported
    shot        \* the checkout its snapshot was taken in

(* History, read by no action.                                             *)
VARIABLES
    named,      \* per checkout: as it was when this turn first recorded it
    raced,      \* checkouts two hooks of this turn both took for unseen
    began,      \* the folder the session began in, or "lost" once start.json
                \* could not be written as it should
    closedIn,   \* of the last close: that folder, or "lost" also where the
                \* close could not read the file, its cwd, and the checkouts
                \* whose policy git did not give it
    changed,    \* checkouts, with their repository, reported as changed in
                \* this session
    world, faults

hooks == <<clock, call>>
outcome == <<asked, report, shot, closedIn>>
vars == <<layout, disk, files, began, cwd, turn, busy, hooks, outcome, named, raced, changed, world, faults>>

NoQuestion == [repository |-> None, root |-> None]
Idle == [pc |-> "idle", turn |-> 0, at |-> 0, plan |-> {}, cwd |-> None]
Unnamed == [c \in Checkouts |-> NoFingerprint]

Init ==
    /\ \E l \in Layouts : layout = l.dirs /\ disk = l.disk /\ cwd = l.cwd /\ world = l.world
    /\ start = None /\ began = None /\ memo = None /\ records = {}
    /\ turn = 0 /\ busy = FALSE /\ clock = 0
    /\ call = [c \in Calls |-> Idle]
    /\ asked = NoQuestion /\ report = NoReport /\ shot = None /\ closedIn = None
    /\ named = Unnamed /\ raced = {} /\ changed = {}
    /\ faults = 0

Fails == world + faults < MaxMishaps /\ faults' = faults + 1
Works == UNCHANGED faults

-----------------------------------------------------------------------------
(* The world: the agent's commands, the developer, other sessions.         *)
Lasts == busy \/ turn < MaxTurns         \* there is more to see
Moves == Lasts /\ world + faults < MaxMishaps /\ world' = world + 1

(* What a checkout was before the session knew of any is its initial disk. *)
Known == memo # None \/ \E r \in records : r.kind = "checkout"
         \/ \E c \in Calls : call[c].plan # {}

World(c, state) ==
    /\ Moves /\ Known
    /\ disk' = [disk EXCEPT ![c] = state]
    /\ UNCHANGED <<layout, files, began, cwd, turn, busy, hooks, outcome, named, raced, changed, faults>>

Touch(c) == disk[c].there /\ World(c, [disk[c] EXCEPT !.dirty = @ + 1])
Commit(c) ==
    disk[c].there /\ World(c, [disk[c] EXCEPT !.head = @ + 1, !.tree = @ + 1, !.dirty = 0])
Amend(c) ==         \* HEAD moves with no file to show for it
    disk[c].there /\ disk[c].head # EmptyTree /\ World(c, [disk[c] EXCEPT !.head = @ + 1])
Detach(c) == disk[c].there /\ disk[c].branch = "on" /\ World(c, [disk[c] EXCEPT !.branch = "off"])
Reclone(c, remote) ==
    disk[c].there /\ remote # disk[c].remote /\ World(c, [disk[c] EXCEPT !.remote = remote])
Linked(c) == layout.main[c] # c
AddWorktree(c) == Linked(c) /\ ~disk[c].there /\ World(c, [disk[c] EXCEPT !.there = TRUE])
RemoveWorktree(c) == Linked(c) /\ disk[c].there /\ World(c, [disk[c] EXCEPT !.there = FALSE])
DeleteBranch(c) ==
    Linked(c) /\ ~disk[c].there /\ disk[c].branch = "on" /\ World(c, [disk[c] EXCEPT !.branch = "off"])

(* A lasting cd: the next hook reports another folder.                     *)
Cd(f) ==
    /\ f # cwd /\ Moves
    /\ cwd' = f
    /\ UNCHANGED <<layout, disk, files, began, turn, busy, hooks, outcome, named, raced, changed, faults>>

-----------------------------------------------------------------------------
(* rememberStart: the first hook to create start.json decides.  The file   *)
(* is created first and written after: when that fails there is none, or   *)
(* one that no later hook rewrites and none can read.                      *)
RememberStart ==
    /\ start' = IF start = None THEN cwd ELSE start
    /\ began' = IF began = None THEN cwd ELSE began

LoseStart ==
    /\ start = None /\ Fails
    /\ start' \in {None, "torn"} /\ began' = "lost"

(* rememberStartSafely: a hook goes on whatever became of it.  One mishap  *)
(* a hook: smooth says whether the rest of the hook meets with none.       *)
RememberStartSafely(smooth) ==
    \/ RememberStart /\ IF smooth THEN Works ELSE Fails
    \/ smooth /\ LoseStart

(* A hook is killed while it writes start.json, before it does more.       *)
StartHookKilled ==
    /\ Lasts /\ LoseStart
    /\ UNCHANGED <<layout, disk, memo, records, cwd, turn, busy, hooks, outcome, named, raced, changed, world>>

(* gateCheckout: the checkout the session last changed, where the asking   *)
(* folder's tenant governs it and HEAD is on a branch; else the folder's.  *)
ReadGateCheckout(c, repository) ==
    IF c = None \/ repository = None THEN NoQuestion
    ELSE IF ~disk[c].there \/ disk[c].branch # "on" THEN NoQuestion
    ELSE [repository |-> repository, root |-> c]

LastWorkAnywhere == memo       \* a mutant

LastWorkCheckout ==
    IF memo = None THEN None
    ELSE IF IsRemote(memo.repository) /\ layout.tenant[memo.root] = layout.tenant[cwd] THEN memo
    ELSE None

GateCheckout ==
    LET carried == IF LastWorkCheckout = None THEN NoQuestion
                   ELSE ReadGateCheckout(LastWorkCheckout.root, LastWorkCheckout.repository)
        folder == FolderRoot(cwd)
    IN  IF carried # NoQuestion THEN carried
        ELSE ReadGateCheckout(folder, IF folder = None THEN None ELSE disk[folder].remote)

PromptRecord == [kind |-> "prompt", turn |-> turn', at |-> clock', event |-> None, root |-> None,
                 via |-> None, named |-> FALSE, seq |-> None, baseline |-> NoFingerprint, access |-> None]

(* A prompt's hook: the gate asks, then the prompt is recorded.            *)
Prompt ==
    /\ ~busy /\ turn < MaxTurns
    /\ turn' = turn + 1 /\ busy' = TRUE /\ clock' = clock + 1
    /\ asked' = GateCheckout
    /\ RememberStartSafely(TRUE)
    /\ records' = Appended(PromptRecord)
    /\ report' = NoReport /\ shot' = None /\ closedIn' = None
    /\ UNCHANGED <<layout, disk, memo, cwd, call, named, raced, changed, world>>

-----------------------------------------------------------------------------
Event(c, phase, at) == [turn |-> call[c].turn, at |-> at, id |-> <<c, phase>>]

(* A tool's start hook lists the session's files and decides what to write,*)
(* by the start it reads; where it cannot read the file, by its folder.    *)
Origins == {Origin(cwd), cwd}

StartHook(c, origin) ==
    /\ busy /\ call[c].pc = "idle"
    /\ RememberStartSafely(origin = Origin(cwd))
    /\ clock' = clock + 1
    /\ call' = [call EXCEPT ![c] =
         [pc |-> "running", turn |-> turn, at |-> clock', cwd |-> cwd,
          plan |-> Plan(c, origin, cwd, [turn |-> turn, at |-> clock', id |-> <<c, "start">>], TRUE)]]
    /\ UNCHANGED <<layout, disk, memo, records, cwd, turn, busy, outcome, named, raced, changed, world>>

(* Its completion hook does so again, then records the call; with no       *)
(* checkout to write it is one step.                                       *)
Recorded(c, folder, at) ==
    /\ records' = Appended(ToolRecord(Event(c, "done", at), c, folder))
    /\ call' = [call EXCEPT ![c] = [Idle EXCEPT !.pc = "over"]]

DoneHook(c, origin) ==
    /\ busy /\ call[c].turn = turn /\ call[c].pc = "running" /\ call[c].plan = {}
    /\ RememberStartSafely(origin = Origin(cwd))
    /\ clock' = clock + 1
    /\ LET plan == Plan(c, origin, cwd, Event(c, "done", clock'), FALSE)
       IN  IF plan = {} THEN Recorded(c, cwd, clock')
           ELSE /\ call' = [call EXCEPT ![c] = [@ EXCEPT !.pc = "ending", !.at = clock', !.cwd = cwd, !.plan = plan]]
                /\ UNCHANGED records
    /\ UNCHANGED <<layout, disk, memo, cwd, turn, busy, outcome, named, raced, changed, world>>

(* One record is written, with the fingerprint git gives at that moment.   *)
WriteRecord(c, w) ==
    /\ w \in call[c].plan
    /\ \E base \in {NoFingerprint, IF w.seq = None \/ ~disk[w.root].there THEN NoFingerprint ELSE Fingerprint(w.root)} :
        /\ IF w.seq # None /\ disk[w.root].there /\ base = NoFingerprint THEN Fails ELSE Works
        /\ records' = Appended(CheckoutRecord(Event(c, IF call[c].pc = "running" THEN "start" ELSE "done", call[c].at), w, base))
        /\ named' = IF busy /\ call[c].turn = turn /\ ~named[w.root].known THEN [named EXCEPT ![w.root] = base] ELSE named
    /\ call' = [call EXCEPT ![c].plan = @ \ {w}]
    /\ raced' = IF busy /\ w.seq # None /\ \E r \in Sightings(call[c].turn) : r.root = w.root /\ r.seq # None
                THEN raced \union {w.root} ELSE raced
    /\ UNCHANGED <<layout, disk, start, began, memo, cwd, turn, busy, clock, outcome, changed, world>>

Ended(c) ==
    /\ call[c].pc = "ending" /\ call[c].plan = {}
    /\ Recorded(c, call[c].cwd, call[c].at)
    /\ UNCHANGED <<layout, disk, start, began, memo, cwd, turn, busy, clock, outcome, named, raced, changed, world, faults>>

-----------------------------------------------------------------------------
Own == {r \in records : r.turn = turn}

(* snapshot: where the summary names a repository and its policy says git. *)
SnapshotIn(r, folder) == IF r.repository = None \/ ~r.capture.git THEN None ELSE folder

(* The Stop's questions git may leave unanswered: one, or all of a checkout.*)
(* A policy is git's to tell only where the directory is gone.             *)
Silences(origin) ==
    LET carried == {m.root : m \in {memo} \ {None}}
        probed == Checkouts \intersect (CandidatesOf(Own, origin, cwd) \union carried)
        put == {q \in probed \X Questions : q[2] = "policy" => ~disk[q[1]].there}
    IN  {{}} \union {{q} : q \in put} \union {{q \in put : q[1] = c} : c \in probed}

Unread(slow) == {q[1] : q \in {x \in slow : x[2] = "policy"}}

Closed(known, unread) ==
    /\ closedIn' = [start |-> known, cwd |-> cwd, unread |-> unread]
    /\ asked' = NoQuestion /\ named' = Unnamed /\ raced' = {}

(* A Stop's hook: the turn is closed and reported, its records consumed.   *)
Stop(origin, slow) ==
    /\ busy
    /\ RememberStartSafely(origin = Origin(cwd) /\ slow = {})
    /\ busy' = FALSE /\ clock' = 0
    /\ LET r == ResolveWorkCheckout(Own, origin, cwd, slow)
       IN  /\ report' = IF Own = {} THEN NoReport ELSE Gated(r)
           /\ shot' = IF Own = {} THEN None ELSE SnapshotIn(r, r.root)
           /\ records' = records \ Own
           /\ IF Own # {} /\ r.evidence = "changed"
              THEN memo' = [root |-> r.root, repository |-> r.repository] /\ changed' = changed \union {<<r.root, r.repository>>}
              ELSE UNCHANGED <<memo, changed>>
    /\ Closed(IF origin = Origin(cwd) THEN began' ELSE "lost", Unread(slow))
    /\ UNCHANGED <<layout, disk, cwd, turn, call, world>>

(* rememberWorkCheckout fails after the summary was built.                 *)
StopForgetting ==
    /\ busy /\ Own # {} /\ Fails
    /\ busy' = FALSE /\ clock' = 0
    /\ RememberStart
    /\ LET r == ResolveWorkCheckout(Own, Origin(cwd), cwd, {})
       IN  /\ r.evidence = "changed"
           /\ report' = Gated(r) /\ shot' = SnapshotIn(r, r.root)
           /\ changed' = changed \union {<<r.root, r.repository>>}
    /\ records' = records \ Own
    /\ Closed(began', {})
    /\ UNCHANGED <<layout, disk, memo, cwd, turn, call, world>>

(* The close throws: fallbackSummary, from the Stop event alone.           *)
StopDegraded ==
    /\ busy /\ Fails
    /\ busy' = FALSE /\ clock' = 0
    /\ RememberStart
    /\ report' = Gated([StopGit(cwd) EXCEPT !.evidence = None])
    /\ shot' = SnapshotIn(report', FolderRoot(cwd))
    /\ Closed(began', {})
    /\ UNCHANGED <<layout, disk, memo, records, cwd, turn, call, changed, world>>

(* SessionEnd removes the directory; the agent may resume the session.     *)
SessionEnd ==
    /\ ~busy /\ Lasts /\ (records # {} \/ start # None)
    /\ start' = None /\ began' = None /\ memo' = None /\ records' = {}
    /\ changed' = {}
    /\ UNCHANGED <<layout, disk, cwd, turn, busy, hooks, outcome, named, raced, world, faults>>

-----------------------------------------------------------------------------
Next ==
    \/ \E c \in Worked : \/ Touch(c) \/ Commit(c) \/ Amend(c) \/ Detach(c)
                         \/ AddWorktree(c) \/ RemoveWorktree(c) \/ DeleteBranch(c)
                         \/ \E remote \in Remotes : Reclone(c, remote)
    \/ \E f \in Folders : Cd(f)
    \/ Prompt
    \/ \E c \in Calls, origin \in Origins : StartHook(c, origin) \/ DoneHook(c, origin)
    \/ \E c \in Calls : Ended(c)
    \/ \E c \in Calls : \E w \in call[c].plan : WriteRecord(c, w)
    \/ \E origin \in Origins : \E slow \in Silences(origin) : Stop(origin, slow)
    \/ StopForgetting \/ StopDegraded \/ SessionEnd \/ StartHookKilled

Spec == Init /\ [][Next]_vars

-----------------------------------------------------------------------------
(* The types of what hooks write, hold and report.                         *)
Write == [root : Checkouts, via : {"shell", "file", "cwd"}, named : BOOLEAN,
          seq : {None} \union 0..(MaxCheckouts - 1)]

Hook ==
    [pc : {"idle", "over"}, turn : {0}, at : {0}, cwd : {None}, plan : {{}}]
    \union [pc : {"running", "ending"}, turn : 1..MaxTurns, at : Nat, cwd : Folders, plan : SUBSET Write]

Fingerprints == [head : Nat, tree : Nat, dirty : Nat, attached : BOOLEAN, known : BOOLEAN]

Record == [kind : {"prompt", "checkout", "tool"}, turn : 1..MaxTurns, at : Nat,
           event : (Calls \X {"start", "done"}) \union {None}, root : Checkouts \union {None},
           via : {"shell", "file", "cwd", None}, named : BOOLEAN,
           seq : {None} \union 0..(MaxCheckouts - 1), baseline : Fingerprints,
           access : {"read", "edit", None}]

Named == [root : Checkouts, repository : Repository]

(* A report, like a question and the memo, names a checkout together with  *)
(* its repository, or neither.                                             *)
Reports ==
    [root : Checkouts, repository : Repository, branch : BOOLEAN, paths : SUBSET Checkouts,
     evidence : {"changed", "carried", "referenced", "cwd", None}, capture : Policy]
    \union
    [root : {None}, repository : {None}, branch : {FALSE}, paths : SUBSET Checkouts,
     evidence : {None}, capture : Policy]

(* The types of the files, the calls, the reports and the history; what a  *)
(* close reports is computed from all of the others (resolveWorkCheckout). *)
TypeOK ==
    /\ layout \in Layout /\ disk \in [Checkouts -> Checkout]
    /\ start \in Folders \union {None, "torn"} /\ began \in Folders \union {None, "lost"}
    /\ memo \in Named \union {None}
    /\ records \in SUBSET Record
    /\ cwd \in Folders /\ busy \in BOOLEAN /\ clock \in Nat
    /\ turn \in 0..MaxTurns /\ (busy => turn # 0)
    /\ call \in [Calls -> Hook]
    /\ asked \in Named \union {NoQuestion} /\ report \in Reports
    /\ shot \in Checkouts \union {None}
    /\ named \in [Checkouts -> Fingerprints] /\ raced \in SUBSET Checkouts
    /\ closedIn \in [start : Folders \union {"lost"}, cwd : Folders, unread : SUBSET Checkouts] \union {None}
    /\ changed \in SUBSET (Checkouts \X Repository)
    /\ world \in Nat /\ faults \in Nat /\ world + faults <= MaxMishaps

Closes == busy /\ ~busy'
Healthy == report'.evidence # None

AdmittedFor(c, origin, sitting) ==
    /\ layout.tenant[c] = layout.tenant[origin] /\ layout.tenant[c] = layout.tenant[sitting]
    /\ layout.tenant[c] # None \/ <<origin, c>> \in layout.near

(* As DATA_HANDLING.md has it, of every report: the folder the session     *)
(* started in decides which checkouts may be reported.  Where start.json   *)
(* could not be written, or the close not read it, some folder does, and   *)
(* still none but of the tenant the Stop is in.                            *)
StartDecides ==
    report.root # None =>
        \E f \in Folders : closedIn.start \in {f, "lost"} /\ AdmittedFor(report.root, f, closedIn.cwd)

(* What the close itself keeps: it names a checkout only of the tenant its *)
(* session started in and whose token this hook sends with; on a machine   *)
(* without roots only one at the start folder: whatever was named, carried *)
(* over or cd'ed into (work-checkout.ts admission, resolveWorkCheckout).   *)
TenantKept == report.evidence # None => StartDecides

(* The gate asks about the folder's own checkout or about one the asking   *)
(* folder's root governs (hook-pipeline.ts lastWorkCheckout).              *)
GovernedOnly ==
    [][~busy /\ busy' /\ asked'.root # None =>
        \/ asked'.root = FolderRoot(cwd)
        \/ layout.tenant[asked'.root] = layout.tenant[cwd]]_vars

(* A report and its snapshot say no more of a checkout than the file       *)
(* committed in it allows, even when the checkout is gone, as long as its  *)
(* branch is there and git reads the file from it (work-checkout.ts        *)
(* reportCheckout).                                                        *)
Unreadable(c) ==
    ~disk[c].there /\ (disk[c].branch # "on" \/ ~disk[layout.main[c]].there \/ c \in closedIn'.unread)

PolicyKept ==
    [][Closes => /\ \A c \in {report'.root, shot'} \ {None} : disk[c].policy.git \/ Unreadable(c)
                 /\ \A c \in report'.paths : disk[c].policy.files \/ Unreadable(c)]_vars

(* A turn that changed a checkout it had recorded reports a changed        *)
(* checkout, unless two parallel hooks both took it for unseen, more were  *)
(* first seen, in parallel, than a turn may name, or git did not answer.   *)
Differs(c) ==
    /\ named[c].known /\ disk[c].there /\ disk[c].head # EmptyTree
    /\ named[c].dirty # disk[c].dirty \/ named[c].head # disk[c].head

FirstSeen == {r.root : r \in {x \in Own : x.seq # None}}

ChangeIsReported ==
    [][Closes /\ Healthy /\ faults' = faults /\ EffectivePolicy(FolderRoot(cwd)).git
        /\ Cardinality(FirstSeen) <= MaxCheckouts
        /\ (\E c \in Checkouts \ raced : Differs(c) /\ AdmittedFor(c, Origin(cwd), cwd))
        => report'.evidence = "changed"]_vars

(* What is carried over was reported as changed earlier in this session,   *)
(* as the same repository.                                                 *)
CarriedWasChanged ==
    [][Closes /\ report'.evidence = "carried" => <<report'.root, report'.repository>> \in changed]_vars

=============================================================================
