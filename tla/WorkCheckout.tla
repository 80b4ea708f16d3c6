---------------------------- MODULE WorkCheckout ----------------------------
(***************************************************************************)
(* Which checkout a turn worked in: src/src/turns/work-checkout.ts with    *)
(* the fingerprints of git/fingerprint.ts and the session files of         *)
(* turn-state.ts.  Pure definitions over one session's files and one       *)
(* machine's checkouts; HookPipeline lets hooks and the world act on them. *)
(*                                                                         *)
(* A file is its checkout, a commit a number, a working tree the number of *)
(* its last change.  What git prints and how paths are normalised is left  *)
(* out; where a path really lies is given by the layout.                   *)
(***************************************************************************)
EXTENDS Naturals, FiniteSetsExt

CONSTANTS
    Checkouts,      \* git working copies, linked worktrees included
    Folders,        \* folders an agent may sit in
    MaxCheckouts,   \* MAX_TURN_CHECKOUTS
    None

Places == Checkouts \union Folders

(***************************************************************************)
(* A layout is what the machine's directories and its roots are:           *)
(*   at      the checkout a folder lies in (checkoutRootOf)                *)
(*   tenant  the project root that claims a place (selectRoot)             *)
(*   near    checkouts beneath a folder, or enclosing it                   *)
(*   main    the checkout a worktree shares its git directory with         *)
(*   above   the checkout enclosing this one's directory                   *)
(***************************************************************************)
Layout == [at : [Folders -> Checkouts \union {None}],
           tenant : [Places -> Checkouts \union {None}],
           near : SUBSET (Folders \X Checkouts),
           main : [Checkouts -> Checkouts],
           above : [Checkouts -> Checkouts \union {None}]]

ASSUME CheckoutAssumption ==
    /\ MaxCheckouts \in Nat \ {0}
    /\ None \notin Places \union {"changed", "carried", "referenced", "cwd"}
    /\ "torn" \notin Folders \union {None}
    /\ IsFiniteSet(Checkouts)

Policy == [git : BOOLEAN, files : BOOLEAN]
NoFingerprint == [head |-> 0, tree |-> 0, dirty |-> 0, attached |-> FALSE, known |-> FALSE]
EmptyTree == 0          \* head of an unborn branch; no commit has it

VARIABLES
    layout,
    disk,       \* per checkout: its directory, HEAD, tree, branch, remote, file
    start,      \* start.json: the folder the session began in, or "torn",
                \* a file that was created and never written to its end
    memo,       \* work-checkout.json: the session's last changed checkout
    records     \* the session's record files

files == <<start, memo, records>>

-----------------------------------------------------------------------------
(* The checkout a directory named as c's belongs to now: a directory that  *)
(* is not there resolves to the nearest one that is.                       *)
CheckoutRootOf(c) ==
    IF c = None THEN None
    ELSE IF disk[c].there THEN c
    ELSE IF layout.above[c] # None /\ disk[layout.above[c]].there THEN layout.above[c]
    ELSE None

FolderRoot(folder) == CheckoutRootOf(layout.at[folder])

(* A checkout without a remote is known by its folder's name.              *)
RepositoryIdentity(c, remote) == IF remote = None THEN c ELSE remote
IsRemote(repository) == repository \notin Places

(* The effective capture policy of a folder, from the file in its checkout.*)
EffectivePolicy(c) == IF c = None THEN [git |-> TRUE, files |-> TRUE] ELSE disk[c].policy

Fingerprint(c) ==
    [head |-> disk[c].head, tree |-> disk[c].tree, dirty |-> disk[c].dirty,
     attached |-> disk[c].branch = "on", known |-> TRUE]

-----------------------------------------------------------------------------
(* The start a hook asks by: readStart, or the hook's own folder where     *)
(* there is no file, or none that can be read.                             *)
Origin(cwd) == IF start \in Folders THEN start ELSE cwd

(* admission: a checkout of the tenant the session started in, while the   *)
(* hook's own folder is that tenant's too; without one, near the start.    *)
AdmitsWithoutRoots(origin, cwd, c) == <<origin, c>> \in layout.near \/ layout.tenant[c] # None   \* a mutant

Admits(origin, cwd, c) ==
    LET tenant == layout.tenant[origin]
    IN  /\ layout.tenant[cwd] = tenant
        /\ layout.tenant[c] = tenant
        /\ tenant # None \/ <<origin, c>> \in layout.near

(* nominate: what the shell command names, and the folders a window has    *)
(* open; nothing on a folder without git capture.                          *)
ShellRoot(call) == CheckoutRootOf(call.shell)
OpenRoot(call, starting) == IF starting THEN CheckoutRootOf(call.open) ELSE None

(* The checkout a file tool's path really lies in, as enriched.            *)
FileRoot(call, cwd) ==
    IF EffectivePolicy(FolderRoot(cwd)) = [git |-> TRUE, files |-> TRUE] THEN CheckoutRootOf(call.file) ELSE None

(* hookCandidates: the shell's, the file's, the cwd's, the open folder's;  *)
(* each root once, by the first that names it.                             *)
Sights(call, cwd, starting) ==
    << [root |-> ShellRoot(call), via |-> "shell"],
       [root |-> FileRoot(call, cwd), via |-> "file"],
       [root |-> IF starting THEN FolderRoot(cwd) ELSE None, via |-> "cwd"],
       [root |-> OpenRoot(call, starting), via |-> "cwd"] >>

HookCandidates(sights) ==
    {i \in 1..4 : sights[i].root # None /\ \A j \in 1..(i - 1) : sights[j].root # sights[i].root}

Names(call, cwd, starting) ==
    starting /\ (ShellRoot(call) # None \/ FileRoot(call, cwd) # None)

(* recordCheckouts, up to its writes: what one hook will write, decided    *)
(* from the names it listed.  seq is None for a vote.                      *)
Sightings(turn) == {r \in records : r.kind = "checkout" /\ r.turn = turn}

Plan(call, origin, cwd, event, starting) ==
    LET sights == Sights(call, cwd, starting)
        named == Names(call, cwd, starting)
        seen == {r.root : r \in Sightings(event.turn)}
        duplicate(i) == \E r \in Sightings(event.turn) : r.root = sights[i].root /\ r.event = event.id
        new == {i \in HookCandidates(sights) : ~duplicate(i) /\ Admits(origin, cwd, sights[i].root)}
        first == {i \in new : sights[i].root \notin seen}
        rank(i) == Cardinality(seen) + Cardinality({j \in first : j < i})
        votes == {i \in new \ first :
                    starting /\ (sights[i].via = "shell" \/ (sights[i].via = "cwd" /\ ~named))}
        write(i, seq) == [root |-> sights[i].root, via |-> sights[i].via, named |-> named, seq |-> seq]
    IN  IF ~EffectivePolicy(FolderRoot(cwd)).git THEN {}
        ELSE {write(i, rank(i)) : i \in {j \in first : rank(j) < MaxCheckouts}}
                \union {write(i, None) : i \in votes}

CheckoutRecord(event, w, baseline) ==
    [kind |-> "checkout", turn |-> event.turn, at |-> event.at, event |-> event.id,
     root |-> w.root, via |-> w.via, named |-> w.named, seq |-> w.seq, baseline |-> baseline,
     access |-> None]

(* toolRecord: the file's checkout as enriched for the hook's own folder.  *)
ToolRecord(event, call, cwd) ==
    LET root == FileRoot(call, cwd)
    IN  [kind |-> "tool", turn |-> event.turn, at |-> event.at, event |-> event.id,
         root |-> root, via |-> None, named |-> FALSE, seq |-> None,
         baseline |-> NoFingerprint, access |-> IF root = None THEN None ELSE call.access]

(* append: one file per event and checkout; a second write replaces it.    *)
Appended(r) ==
    {x \in records : ~(x.kind = r.kind /\ x.turn = r.turn /\ x.event = r.event /\ x.root = r.root)}
        \union {r}

-----------------------------------------------------------------------------
(* candidatesOf: what the records of a turn say of each admitted checkout. *)
Speaks(r) == r.kind = "checkout" \/ (r.kind = "tool" /\ r.access # None /\ r.root # None)

About(own, c) == {r \in own : r.root = c /\ Speaks(r)}

Earlier(x, y) == x.at < y.at

Lowers(own, c) ==       \* the records that lowered c's first sight, in turn
    LET seen == {r \in About(own, c) : r.seq # None}
    IN  {r \in seen : \A x \in seen : Earlier(x, r) => r.seq < x.seq}

Unseen == MaxCheckouts  \* Infinity, no seq reaches it: a root without a first sight

First(own, c) ==
    LET seqs == {r.seq : r \in Lowers(own, c)} IN IF seqs = {} THEN Unseen ELSE Min(seqs)

Baseline(own, c) ==
    LET known == {r \in Lowers(own, c) : r.baseline.known}
    IN  IF known = {} THEN NoFingerprint
        ELSE (CHOOSE r \in known : \A x \in known : x.at <= r.at).baseline

Order(own, c) ==
    LET times == {r.at : r \in About(own, c)} IN IF times = {} THEN Unseen ELSE Min(times)

(* In order of first sight, at most MAX_TURN_CHECKOUTS.                    *)
Before(x, y) == x.first < y.first \/ (x.first = y.first /\ x.order < y.order)

CandidatesOf(own, origin, cwd) ==
    LET named == {r.root : r \in {x \in own : Speaks(x)}}
        seen == {[root |-> c, first |-> First(own, c), order |-> Order(own, c)] :
                    c \in {d \in named : Admits(origin, cwd, d)}}
    IN  {x.root : x \in {y \in seen : Cardinality({z \in seen : Before(z, y)}) < MaxCheckouts}}

Edited(own, c) == {r \in About(own, c) : r.access = "edit"} # {}
Read(own, c) == {r \in About(own, c) : r.access = "read"} # {}
Votes(own, c) ==
    Cardinality({r \in About(own, c) : r.via = "shell" \/ (r.via = "cwd" /\ ~r.named)})

(***************************************************************************)
(* probe: what the Stop learns of a checkout by asking git, each question  *)
(* a call of its own.  slow are the questions that get no answer in time.  *)
(* A checkout whose directory is gone keeps its baseline; its branch is    *)
(* asked in the git directory it shared.                                   *)
(***************************************************************************)
Questions == {"head", "remote", "diff", "policy"}
Answered(c, question, slow) == <<c, question>> \notin slow

NoProbe == [closing |-> NoFingerprint, remote |-> None, commits |-> FALSE, moved |-> FALSE, vanished |-> FALSE]

ProbeDirtyOnly(c, base, slow) ==      \* a mutant
    [closing |-> Fingerprint(c), remote |-> disk[c].remote, moved |-> FALSE, commits |-> FALSE, vanished |-> FALSE]

ProbeStanding(c, base, slow) ==
    LET now == Fingerprint(c)
        moved == base.known /\ now.head # EmptyTree /\ base.head # now.head
    IN  IF ~Answered(c, "head", slow) THEN NoProbe
        ELSE [closing |-> now, moved |-> moved,
              remote |-> IF Answered(c, "remote", slow) THEN disk[c].remote ELSE None,
              commits |-> moved /\ base.tree # now.tree /\ Answered(c, "diff", slow), vanished |-> FALSE]

ProbeVanished(c, base, slow) ==
    LET shared == disk[layout.main[c]].there
        answers == shared /\ disk[c].branch = "on" /\ disk[c].head # EmptyTree /\ Answered(c, "head", slow)
        moved == answers /\ disk[c].head # base.head
        head == IF base.head = EmptyTree /\ answers THEN disk[c].head ELSE base.head
    IN  [closing |-> [base EXCEPT !.head = head], moved |-> moved,
         remote |-> IF shared /\ Answered(c, "remote", slow) THEN disk[layout.main[c]].remote ELSE None,
         commits |-> moved /\ base.tree # disk[c].tree /\ Answered(c, "diff", slow), vanished |-> TRUE]

Probe(c, base, slow) ==
    IF disk[c].there THEN ProbeStanding(c, base, slow)
    ELSE IF base.known /\ base.attached THEN ProbeVanished(c, base, slow) ELSE NoProbe

DirtyDelta(base, closing) == IF base.dirty # closing.dirty THEN {"dirty"} ELSE {}

(* dirtyDelta, the commits' files and the edits, as a set of what changed. *)
ChangedFiles(own, c, base, probe) ==
    IF ~probe.closing.known THEN {}
    ELSE (IF base.known /\ ~probe.vanished THEN DirtyDelta(base, probe.closing) ELSE {})
         \union (IF probe.commits THEN {"commit"} ELSE {})
         \union (IF Edited(own, c) THEN {"edit"} ELSE {})

(* A candidate with all the close weighs it by.                            *)
Weighed(own, c, base, slow) ==
    LET probe == Probe(c, base, slow)
        changes == ChangedFiles(own, c, base, probe)
    IN  [root |-> c, first |-> First(own, c), order |-> Order(own, c), probe |-> probe,
         change |-> IF changes # {} THEN Cardinality(changes) ELSE IF probe.moved THEN 1 ELSE 0,
         votes |-> Votes(own, c) + (IF Read(own, c) THEN 1 ELSE 0)]

(* best: the highest positive score, the first named winning a tie; which  *)
(* of two named by one hook came first is the directory's order.           *)
Best(candidates, Score(_)) ==
    {x \in candidates : /\ Score(x) > 0
                        /\ \A y \in candidates \ {x} :
                             Score(y) < Score(x) \/ (Score(y) = Score(x) /\ ~Before(y, x))}

-----------------------------------------------------------------------------
(* narrowedByBranch: for a vanished worktree, its main checkout's file and *)
(* what its branch committed, where git still answers for the branch; when *)
(* it does not, the main checkout's file alone.                            *)
NarrowedByBranch(loaded, c, slow) ==
    IF disk[layout.main[c]].there /\ disk[c].branch = "on" /\ Answered(c, "policy", slow)
    THEN [git |-> loaded.git /\ disk[c].policy.git, files |-> loaded.files /\ disk[c].policy.files]
    ELSE loaded

ReportPolicyLoaded(c, probe, slow) ==         \* a mutant
    EffectivePolicy(IF probe.vanished THEN CheckoutRootOf(layout.main[c]) ELSE c)

ReportPolicy(c, probe, slow) ==
    IF probe.vanished THEN NarrowedByBranch(EffectivePolicy(CheckoutRootOf(layout.main[c])), c, slow)
    ELSE EffectivePolicy(c)

(* keepingPathsIn: only the named checkout's own paths are kept.           *)
PathsIn(own, c) == {r.root : r \in {x \in own : x.kind = "tool" /\ x.root # None}} \intersect {c}

(***************************************************************************)
(* A report: what leaves the machine about where a turn worked.  capture   *)
(* is the policy delivery applies again.  root is never sent.              *)
(***************************************************************************)
NoReport == [root |-> None, repository |-> None, branch |-> FALSE, paths |-> {},
             evidence |-> None, capture |-> [git |-> TRUE, files |-> TRUE]]

ReportCheckout(own, c, evidence, probe, slow) ==
    LET policy == ReportPolicy(c, probe, slow)
        paths == IF policy.files THEN PathsIn(own, c) ELSE {}
    IN  IF ~policy.git THEN [NoReport EXCEPT !.paths = paths, !.capture = policy]
        ELSE [root |-> c, repository |-> RepositoryIdentity(c, probe.remote),
              branch |-> probe.closing.attached, paths |-> paths,
              evidence |-> evidence, capture |-> policy]

(* applyProductCapture, again, under the policy the report came with.      *)
Gated(r) ==
    [IF r.capture.git THEN r ELSE [NoReport EXCEPT !.paths = r.paths, !.capture = r.capture]
        EXCEPT !.paths = IF r.capture.files THEN @ ELSE {}]

(* stopEvent.git, as enriched for the folder the Stop ran in.              *)
StopGit(cwd) ==
    LET c == FolderRoot(cwd)
    IN  IF c = None \/ ~EffectivePolicy(c).git THEN NoReport
        ELSE [root |-> c, repository |-> RepositoryIdentity(c, disk[c].remote),
              branch |-> disk[c].branch = "on", paths |-> {}, evidence |-> "cwd",
              capture |-> EffectivePolicy(c)]

ReportFolder(own, origin, cwd) ==
    LET c == FolderRoot(cwd)
    IN  IF c = None \/ ~Admits(origin, cwd, c) THEN NoReport
        ELSE [StopGit(cwd) EXCEPT !.paths = IF EffectivePolicy(c).files THEN PathsIn(own, c) ELSE {}]

(* Carried only while it is still the repository that was remembered.      *)
StillThere(x) == x.probe.closing.known      \* a mutant

StillSame(x) ==
    x.probe.closing.known /\ RepositoryIdentity(x.root, x.probe.remote) = memo.repository

ResolveWorkCheckout(own, origin, cwd, slow) ==
    LET candidates == {Weighed(own, c, Baseline(own, c), slow) : c \in CandidatesOf(own, origin, cwd)}
        carried == IF memo = None \/ ~Admits(origin, cwd, memo.root) THEN {}
                   ELSE {x \in candidates : x.root = memo.root} \union
                        (IF \E x \in candidates : x.root = memo.root THEN {}
                         ELSE {Weighed({}, memo.root, NoFingerprint, slow)})
        reportable == {x \in candidates : x.probe.closing.known}
        byChange == Best(reportable, LAMBDA x : x.change)
        stillSame == {x \in carried : StillSame(x)}
        byVotes == Best(reportable, LAMBDA x : x.votes)
        Report(chosen, evidence) ==
            LET x == CHOOSE y \in chosen : TRUE IN ReportCheckout(own, x.root, evidence, x.probe, slow)
    IN  IF ~EffectivePolicy(FolderRoot(cwd)).git THEN NoReport
        ELSE IF byChange # {} THEN Report(byChange, "changed")
        ELSE IF stillSame # {} THEN Report(stillSame, "carried")
        ELSE IF byVotes # {} THEN Report(byVotes, "referenced")
        ELSE ReportFolder(own, origin, cwd)

=============================================================================
