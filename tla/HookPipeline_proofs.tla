------------------------- MODULE HookPipeline_proofs -------------------------
(***************************************************************************)
(* What a turn's close reports, for any folders, checkouts, remotes and    *)
(* bounds. A close reports nothing, the folder it ran in, a checkout its   *)
(* records name, or the one carried over (Resolved); gating then only      *)
(* takes away (GatedNames). The reports' properties follow from what each  *)
(* of the four may say, and the carried one's from MemoWasChanged.         *)
(* That a change is reported rests on what the records say of a checkout's *)
(* first sight (SightInv) and on the best of finitely many existing.       *)
(* The types come last: a report is computed from all the rest.            *)
(***************************************************************************)
EXTENDS HookPipeline, FiniteSetTheorems, WellFoundedInduction, TLAPS

(* What a close may report: nothing, the folder it ran in, a checkout its  *)
(* records name, or the one carried over.                                  *)
LEMMA Resolved ==
    ASSUME NEW own, NEW origin, NEW sitting, NEW slow
    PROVE  LET r == ResolveWorkCheckout(own, origin, sitting, slow)
           IN  \/ r = NoReport
               \/ r = ReportFolder(own, origin, sitting)
               \/ \E c \in CandidatesOf(own, origin, sitting), e \in {"changed", "referenced"} :
                    r = ReportCheckout(own, c, e, Probe(c, Baseline(own, c), slow), slow)
               \/ /\ memo # None /\ Admits(origin, sitting, memo.root)
                  /\ \E base \in {NoFingerprint, Baseline(own, memo.root)} :
                        LET p == Probe(memo.root, base, slow)
                        IN  /\ RepositoryIdentity(memo.root, p.remote) = memo.repository
                            /\ r = ReportCheckout(own, memo.root, "carried", p, slow)
<1> DEFINE candidates == {Weighed(own, c, Baseline(own, c), slow) : c \in CandidatesOf(own, origin, sitting)}
           carried == IF memo = None \/ ~Admits(origin, sitting, memo.root) THEN {}
                      ELSE {x \in candidates : x.root = memo.root} \union
                        (IF \E x \in candidates : x.root = memo.root THEN {}
                         ELSE {Weighed({}, memo.root, NoFingerprint, slow)})
           reportable == {x \in candidates : x.probe.closing.known}
           byChange == Best(reportable, LAMBDA x : x.change)
           stillSame == {x \in carried : StillSame(x)}
           byVotes == Best(reportable, LAMBDA x : x.votes)
           Report(chosen, evidence) ==
              LET x == CHOOSE y \in chosen : TRUE IN ReportCheckout(own, x.root, evidence, x.probe, slow)
<1>1. ResolveWorkCheckout(own, origin, sitting, slow) =
         IF ~EffectivePolicy(FolderRoot(sitting)).git THEN NoReport
         ELSE IF byChange # {} THEN Report(byChange, "changed")
         ELSE IF stillSame # {} THEN Report(stillSame, "carried")
         ELSE IF byVotes # {} THEN Report(byVotes, "referenced")
         ELSE ReportFolder(own, origin, sitting)
  BY DEF ResolveWorkCheckout
<1>2. byChange \subseteq candidates /\ byVotes \subseteq candidates
  BY DEF Best
<1>3. \A c, base, o : /\ Weighed(o, c, base, slow).root = c
                     /\ Weighed(o, c, base, slow).probe = Probe(c, base, slow)
  BY DEF Weighed
<1> HIDE DEF byChange, byVotes
<1>4. ASSUME NEW chosen, chosen \subseteq candidates, chosen # {}, NEW e
      PROVE  \E c \in CandidatesOf(own, origin, sitting) :
                Report(chosen, e) = ReportCheckout(own, c, e, Probe(c, Baseline(own, c), slow), slow)
  <2> DEFINE x == CHOOSE y \in chosen : TRUE
  <2>0. Report(chosen, e) = ReportCheckout(own, x.root, e, x.probe, slow)
    OBVIOUS
  <2>1. x \in candidates
    BY <1>4
  <2> HIDE DEF x, Report
  <2>2. PICK c \in CandidatesOf(own, origin, sitting) : x = Weighed(own, c, Baseline(own, c), slow)
    BY <2>1
  <2>3. x.root = c /\ x.probe = Probe(c, Baseline(own, c), slow)
    BY <2>2, <1>3
  <2> QED BY <2>0, <2>3
<1>5. ASSUME stillSame # {}
      PROVE  /\ memo # None /\ Admits(origin, sitting, memo.root)
             /\ \E base \in {NoFingerprint, Baseline(own, memo.root)} :
                  LET p == Probe(memo.root, base, slow)
                  IN  /\ RepositoryIdentity(memo.root, p.remote) = memo.repository
                      /\ Report(stillSame, "carried") = ReportCheckout(own, memo.root, "carried", p, slow)
  <2> DEFINE x == CHOOSE y \in stillSame : TRUE
  <2>0. Report(stillSame, "carried") = ReportCheckout(own, x.root, "carried", x.probe, slow)
    OBVIOUS
  <2>1. x \in carried /\ StillSame(x)
    BY <1>5
  <2> HIDE DEF x, Report, stillSame
  <2>2. memo # None /\ Admits(origin, sitting, memo.root)
    BY <2>1
  <2>3. \E base \in {NoFingerprint, Baseline(own, memo.root)} :
          x.root = memo.root /\ x.probe = Probe(memo.root, base, slow)
    <3>1. CASE x \in candidates /\ x.root = memo.root
      <4>1. PICK c \in CandidatesOf(own, origin, sitting) : x = Weighed(own, c, Baseline(own, c), slow)
        BY <3>1
      <4> QED BY <4>1, <3>1, <1>3
    <3>2. CASE x = Weighed({}, memo.root, NoFingerprint, slow)
      BY <3>2, <1>3
    <3> QED BY <2>1, <2>2, <3>1, <3>2
  <2> QED BY <2>0, <2>1, <2>2, <2>3 DEF StillSame
<1> HIDE DEF candidates, carried, stillSame, Report
<1> QED BY <1>1, <1>2, <1>4, <1>5

(* A candidate was admitted for the folder of the turn.                    *)
LEMMA CandidateAdmitted ==
    ASSUME NEW own, NEW origin, NEW sitting, NEW c \in CandidatesOf(own, origin, sitting)
    PROVE  Admits(origin, sitting, c)
<1> DEFINE roots == {r.root : r \in {x \in own : Speaks(x)}}
           seen == {[root |-> d, first |-> First(own, d), order |-> Order(own, d)] :
                        d \in {e \in roots : Admits(origin, sitting, e)}}
<1>1. CandidatesOf(own, origin, sitting) =
        {x.root : x \in {y \in seen : Cardinality({z \in seen : Before(z, y)}) < MaxCheckouts}}
  BY DEF CandidatesOf
<1>2. PICK y \in seen : c = y.root
  BY <1>1
<1>3. \E d \in roots : Admits(origin, sitting, d) /\ y.root = d
  BY <1>2
<1> QED BY <1>2, <1>3

(* So was every checkout a report is about.                                *)
LEMMA ResolvedAdmitted ==
    ASSUME NEW own, NEW origin, NEW sitting, NEW slow
    PROVE  LET r == ResolveWorkCheckout(own, origin, sitting, slow)
           IN  r.root # None => Admits(origin, sitting, r.root)
<1> DEFINE r == ResolveWorkCheckout(own, origin, sitting, slow)
<1>1. CASE r = NoReport
  BY <1>1 DEF NoReport
<1>2. CASE r = ReportFolder(own, origin, sitting)
  BY <1>2 DEF ReportFolder, StopGit, NoReport
<1>3. ASSUME NEW c, Admits(origin, sitting, c), NEW e, NEW p, r = ReportCheckout(own, c, e, p, slow)
      PROVE  r.root # None => Admits(origin, sitting, r.root)
  BY <1>3 DEF ReportCheckout, NoReport
<1> QED BY <1>1, <1>2, <1>3, Resolved, CandidateAdmitted

(* Gating takes away, it names nothing.                                    *)
LEMMA GatedNames ==
    ASSUME NEW r, DOMAIN r = DOMAIN NoReport
    PROVE  /\ Gated(r).root # None => Gated(r).root = r.root /\ r.capture.git
           /\ Gated(r).evidence # None => /\ Gated(r).root = r.root
                                         /\ Gated(r).repository = r.repository
                                         /\ Gated(r).evidence = r.evidence
           /\ Gated(r).repository # None => Gated(r).repository = r.repository
           /\ Gated(r).paths \subseteq r.paths
           /\ Gated(r).paths # {} => r.capture.files
<1> DEFINE bare == [NoReport EXCEPT !.paths = r.paths, !.capture = r.capture]
           kept == IF r.capture.git THEN r ELSE bare
           paths == IF r.capture.files THEN kept.paths ELSE {}
<1>1. Gated(r) = [kept EXCEPT !.paths = paths]
  BY DEF Gated
<1>2. /\ bare.root = None /\ bare.evidence = None /\ bare.repository = None /\ bare.paths = r.paths
      /\ DOMAIN bare = {"root", "repository", "branch", "paths", "evidence", "capture"}
  BY DEF NoReport
<1>3. DOMAIN r = {"root", "repository", "branch", "paths", "evidence", "capture"}
  BY DEF NoReport
<1>4. DOMAIN kept = {"root", "repository", "branch", "paths", "evidence", "capture"} /\ kept.paths = r.paths
  BY <1>2, <1>3
<1> HIDE DEF bare
<1>5. /\ kept.root # None => kept.root = r.root /\ r.capture.git
      /\ kept.evidence # None => /\ kept.root = r.root /\ kept.repository = r.repository
                                /\ kept.evidence = r.evidence
      /\ kept.repository # None => kept.repository = r.repository
  BY <1>2
<1> HIDE DEF kept
<1>6. /\ Gated(r).root = kept.root /\ Gated(r).repository = kept.repository
      /\ Gated(r).evidence = kept.evidence /\ Gated(r).paths = paths
  BY <1>1, <1>4
<1> QED BY <1>4, <1>5, <1>6

(* Every kind of report has the fields of the empty one,                   *)
LEMMA ReportFields ==
    /\ \A own, c, e, p, slow : DOMAIN ReportCheckout(own, c, e, p, slow) = DOMAIN NoReport
    /\ \A sitting : DOMAIN StopGit(sitting) = DOMAIN NoReport
    /\ \A own, origin, sitting : DOMAIN ReportFolder(own, origin, sitting) = DOMAIN NoReport
BY DEF ReportCheckout, ReportFolder, StopGit, NoReport

(* ... and so has the one a close picks.                                   *)
LEMMA ResolvedFields ==
    ASSUME NEW own, NEW origin, NEW sitting, NEW slow
    PROVE  DOMAIN ResolveWorkCheckout(own, origin, sitting, slow) = DOMAIN NoReport
<1> DEFINE r == ResolveWorkCheckout(own, origin, sitting, slow)
<1>1. \/ r = NoReport
      \/ r = ReportFolder(own, origin, sitting)
      \/ \E c, e, p : r = ReportCheckout(own, c, e, p, slow)
  BY Resolved
<1> HIDE DEF r
<1>2. DOMAIN r = DOMAIN NoReport
  BY <1>1, ReportFields
<1> QED BY <1>2 DEF r

-----------------------------------------------------------------------------
(* As long as start.json could be written, it holds the folder the session *)
(* began in.                                                               *)
StartKnown ==
    /\ cwd \in Folders
    /\ began \in Folders \union {None, "lost"}
    /\ began # "lost" => start = began

(* What a hook does of start.json keeps that, whatever becomes of it.      *)
LEMMA RememberKeeps ==
    ASSUME StartKnown, NEW smooth, RememberStartSafely(smooth), cwd' = cwd
    PROVE  StartKnown'
BY CheckoutAssumption, PipelineAssumption DEF RememberStartSafely, RememberStart, LoseStart, StartKnown

(* What is admitted by the start a hook reads is admitted by the folder    *)
(* the session began in, unless that is lost.                              *)
LEMMA OriginKept ==
    ASSUME StartKnown, NEW smooth, RememberStartSafely(smooth), began' # "lost",
           NEW c, Admits(Origin(cwd), cwd, c)
    PROVE  began' \in Folders /\ AdmittedFor(c, began', cwd)
<1>1. RememberStart
  BY DEF RememberStartSafely, LoseStart
<1>2. began # "lost"
  BY <1>1, PipelineAssumption DEF RememberStart
<1>3. Origin(cwd) = began' /\ began' \in Folders
  BY <1>1, <1>2, CheckoutAssumption DEF RememberStart, StartKnown, Origin, Places
<1> QED BY <1>3 DEF Admits, AdmittedFor

-----------------------------------------------------------------------------
(* The steps that leave layout, report and closedIn alone.                 *)
LEMMA LayoutStays ==
    ASSUME [Next]_vars
    PROVE  layout' = layout
<1> USE DEF World, Moves, hooks, outcome, files
<1>1. ASSUME NEW c \in Worked, Touch(c) \/ Commit(c) \/ Amend(c) \/ Detach(c) PROVE layout' = layout
  BY <1>1 DEF Touch, Commit, Amend, Detach
<1>2. ASSUME NEW c \in Worked, AddWorktree(c) \/ RemoveWorktree(c) \/ DeleteBranch(c) PROVE layout' = layout
  BY <1>2 DEF AddWorktree, RemoveWorktree, DeleteBranch
<1>3. ASSUME NEW c \in Worked, NEW remote \in Remotes, Reclone(c, remote) PROVE layout' = layout
  BY <1>3 DEF Reclone
<1>4. ASSUME NEW f \in Folders, Cd(f) PROVE layout' = layout
  BY <1>4 DEF Cd
<1>5. ASSUME NEW c \in Calls, NEW origin, StartHook(c, origin) \/ DoneHook(c, origin) \/ Ended(c) PROVE layout' = layout
  BY <1>5 DEF StartHook, DoneHook, Ended
<1>6. ASSUME NEW c \in Calls, NEW w, WriteRecord(c, w) PROVE layout' = layout
  BY <1>6 DEF WriteRecord
<1>7. ASSUME NEW origin, NEW slow, Stop(origin, slow) PROVE layout' = layout
  BY <1>7 DEF Stop
<1> QED
  BY <1>1, <1>2, <1>3, <1>4, <1>5, <1>6, <1>7 DEF Next, vars, Prompt, StopForgetting, StopDegraded, SessionEnd, StartHookKilled

(* Only a prompt and a close touch what was reported.                      *)
LEMMA OnlyClosesReport ==
    ASSUME [Next]_vars
    PROVE  \/ UNCHANGED <<report, shot, closedIn, busy>> /\ ((memo' = memo /\ changed' = changed) \/ SessionEnd)
           \/ Prompt \/ StopForgetting \/ StopDegraded
           \/ \E origin \in Origins : \E slow \in Silences(origin) : Stop(origin, slow)
<1> DEFINE Same == UNCHANGED <<report, shot, closedIn, busy, memo, changed>>
<1> USE DEF World, Moves, hooks, outcome, files
<1>1. ASSUME NEW c \in Worked, Touch(c) \/ Commit(c) \/ Amend(c) \/ Detach(c) PROVE Same
  BY <1>1 DEF Touch, Commit, Amend, Detach
<1>2. ASSUME NEW c \in Worked, AddWorktree(c) \/ RemoveWorktree(c) \/ DeleteBranch(c) PROVE Same
  BY <1>2 DEF AddWorktree, RemoveWorktree, DeleteBranch
<1>3. ASSUME NEW c \in Worked, NEW remote \in Remotes, Reclone(c, remote) PROVE Same
  BY <1>3 DEF Reclone
<1>4. ASSUME NEW f \in Folders, Cd(f) PROVE Same
  BY <1>4 DEF Cd
<1>5. ASSUME NEW c \in Calls, NEW origin, StartHook(c, origin) \/ DoneHook(c, origin) \/ Ended(c) PROVE Same
  BY <1>5 DEF StartHook, DoneHook, Ended
<1>6. ASSUME NEW c \in Calls, NEW w, WriteRecord(c, w) PROVE Same
  BY <1>6 DEF WriteRecord
<1> QED
  BY <1>1, <1>2, <1>3, <1>4, <1>5, <1>6 DEF Next, vars, SessionEnd, StartHookKilled

(* Every step keeps what is known of the start.                            *)
LEMMA StartNext ==
    ASSUME StartKnown, [Next]_vars
    PROVE  StartKnown'
<1> DEFINE Same == UNCHANGED <<start, began, cwd>>
<1> USE DEF World, Moves, hooks, outcome, files
<1>1. ASSUME NEW c \in Worked, Touch(c) \/ Commit(c) \/ Amend(c) \/ Detach(c) PROVE Same
  BY <1>1 DEF Touch, Commit, Amend, Detach
<1>2. ASSUME NEW c \in Worked, AddWorktree(c) \/ RemoveWorktree(c) \/ DeleteBranch(c) PROVE Same
  BY <1>2 DEF AddWorktree, RemoveWorktree, DeleteBranch
<1>3. ASSUME NEW c \in Worked, NEW remote \in Remotes, Reclone(c, remote) PROVE Same
  BY <1>3 DEF Reclone
<1>4. ASSUME NEW c \in Calls, NEW w, WriteRecord(c, w) PROVE Same
  BY <1>4 DEF WriteRecord
<1>5. ASSUME NEW c \in Calls, Ended(c) PROVE Same
  BY <1>5 DEF Ended
<1>6. Same => StartKnown'
  BY DEF StartKnown
<1>7. ASSUME NEW f \in Folders, Cd(f) PROVE StartKnown'
  BY <1>7 DEF Cd, StartKnown
<1>8. ASSUME NEW c \in Calls, NEW origin, StartHook(c, origin) PROVE StartKnown'
  BY <1>8, RememberKeeps DEF StartHook
<1>9. ASSUME NEW c \in Calls, NEW origin, DoneHook(c, origin) PROVE StartKnown'
  BY <1>9, RememberKeeps DEF DoneHook
<1>10. CASE Prompt
  BY <1>10, RememberKeeps DEF Prompt
<1>11. ASSUME NEW origin, NEW slow, Stop(origin, slow) PROVE StartKnown'
  BY <1>11, RememberKeeps DEF Stop
<1>12. CASE StopForgetting
  BY <1>12, RememberKeeps DEF StopForgetting, RememberStartSafely
<1>13. CASE StopDegraded
  BY <1>13, RememberKeeps DEF StopDegraded, RememberStartSafely
<1>14. CASE SessionEnd
  BY <1>14 DEF SessionEnd, StartKnown
<1>15. CASE StartHookKilled
  BY <1>15, RememberKeeps DEF StartHookKilled, RememberStartSafely
<1> HIDE DEF Same
<1>16. CASE UNCHANGED vars
  BY <1>16, <1>6 DEF vars, Same
<1> QED
  BY <1>1, <1>2, <1>3, <1>4, <1>5, <1>6, <1>7, <1>8, <1>9, <1>10, <1>11, <1>12, <1>13, <1>14, <1>15, <1>16
  DEF Next

(* A close that asks by what it read, or by its folder where it could not, *)
(* reports for the folder the session began in, or for one it does not     *)
(* know any better.                                                        *)
LEMMA CloseKeepsTenant ==
    ASSUME StartKnown, NEW origin \in Origins, NEW slow, NEW smooth, RememberStartSafely(smooth), layout' = layout,
           closedIn'.start = IF origin = Origin(cwd) THEN began' ELSE "lost", closedIn'.cwd = cwd,
           report' = Gated(ResolveWorkCheckout(Own, origin, cwd, slow))
    PROVE  TenantKept'
<1> DEFINE r == ResolveWorkCheckout(Own, origin, cwd, slow)
<1>1. /\ DOMAIN r = DOMAIN NoReport
      /\ r.root # None => Admits(origin, cwd, r.root)
  BY ResolvedFields, ResolvedAdmitted
<1>2. report' = Gated(r)
  OBVIOUS
<1> HIDE DEF r
<1>3. ASSUME report.root' # None
      PROVE  Admits(origin, cwd, report.root')
  BY <1>1, <1>2, <1>3, GatedNames
<1>4. ASSUME report.root' # None
      PROVE  \E f \in Folders : closedIn'.start \in {f, "lost"} /\ AdmittedFor(report.root', f, cwd)
  <2>1. CASE closedIn'.start = "lost"
    <3>1. origin \in Folders
      BY DEF Origins, Origin, StartKnown
    <3> QED BY <1>3, <1>4, <2>1, <3>1 DEF Admits, AdmittedFor
  <2>2. CASE closedIn'.start # "lost"
    <3>1. origin = Origin(cwd) /\ began' # "lost" /\ closedIn'.start = began'
      BY <2>2
    <3> QED BY <1>3, <1>4, <3>1, OriginKept
  <2> QED BY <2>1, <2>2
<1> QED BY <1>4 DEF TenantKept, StartDecides, AdmittedFor

(* Every step keeps TenantKept.                                            *)
LEMMA TenantNext ==
    ASSUME TenantKept, StartKnown, [Next]_vars
    PROVE  TenantKept'
<1>1. CASE UNCHANGED <<report, shot, closedIn, busy>>
  BY <1>1, LayoutStays DEF AdmittedFor, TenantKept, StartDecides
<1>2. CASE Prompt
  BY <1>2 DEF Prompt, NoReport, TenantKept, StartDecides
<1>4. ASSUME NEW origin \in Origins, NEW slow, Stop(origin, slow) PROVE TenantKept'
  <2>1. CASE Own = {}
    BY <1>4, <2>1 DEF Stop, NoReport, TenantKept, StartDecides
  <2>2. CASE Own # {}
    <3>1. /\ RememberStartSafely(origin = Origin(cwd) /\ slow = {}) /\ layout' = layout
          /\ closedIn'.start = IF origin = Origin(cwd) THEN began' ELSE "lost"
          /\ closedIn'.cwd = cwd
          /\ report' = Gated(ResolveWorkCheckout(Own, origin, cwd, slow))
      BY <1>4, <2>2 DEF Stop, Closed
    <3> QED BY <3>1, CloseKeepsTenant
  <2> QED BY <2>1, <2>2
<1>5. CASE StopForgetting
  <2>1. /\ RememberStartSafely(FALSE) /\ layout' = layout /\ Origin(cwd) \in Origins
        /\ closedIn'.start = began' /\ closedIn'.cwd = cwd
        /\ report' = Gated(ResolveWorkCheckout(Own, Origin(cwd), cwd, {}))
    BY <1>5 DEF StopForgetting, Closed, RememberStartSafely, Origins
  <2> QED BY <2>1, CloseKeepsTenant
<1>6. CASE StopDegraded
  <2>1. report' = Gated([StopGit(cwd) EXCEPT !.evidence = None])
    BY <1>6 DEF StopDegraded
  <2>2. report'.evidence = None
    BY <2>1 DEF Gated, StopGit, NoReport
  <2> QED BY <2>2 DEF TenantKept
<1> QED BY <1>1, <1>2, <1>4, <1>5, <1>6, OnlyClosesReport

(* TenantKept: a report is about a checkout admitted for its own turn.     *)
THEOREM ReportsItsTenant == Spec => []TenantKept
<1> DEFINE Inv == TenantKept /\ StartKnown
<1>1. Init => Inv
  BY PipelineAssumption DEF Init, TenantKept, StartKnown, NoReport
<1>2. Inv /\ [Next]_vars => Inv'
  BY TenantNext, StartNext
<1> QED BY <1>1, <1>2, PTL DEF Spec

-----------------------------------------------------------------------------
(* Only a prompt begins a turn.                                            *)
LEMMA PromptBegins ==
    ASSUME [Next]_vars, ~busy, busy'
    PROVE  Prompt
BY OnlyClosesReport DEF StopForgetting, StopDegraded, Stop, SessionEnd

(* The gate asks about the folder, or a checkout of the same tenant.       *)
LEMMA GateAsksGoverned ==
    ASSUME GateCheckout.root # None
    PROVE  \/ GateCheckout.root = FolderRoot(cwd)
           \/ layout.tenant[GateCheckout.root] = layout.tenant[cwd]
<1>1. \A c, repository : ReadGateCheckout(c, repository).root # None => ReadGateCheckout(c, repository).root = c
  BY DEF ReadGateCheckout, NoQuestion
<1>2. LastWorkCheckout # None => layout.tenant[LastWorkCheckout.root] = layout.tenant[cwd]
  BY DEF LastWorkCheckout
<1> QED BY <1>1, <1>2 DEF GateCheckout, NoQuestion

(* GovernedOnly: the gate asks of no other tenant's checkout.              *)
THEOREM AsksOnlyGoverned == Spec => GovernedOnly
<1>1. ASSUME [Next]_vars, ~busy, busy', asked'.root # None
      PROVE  \/ asked'.root = FolderRoot(cwd)
             \/ layout.tenant[asked'.root] = layout.tenant[cwd]
  <2>1. asked' = GateCheckout
    BY <1>1, PromptBegins DEF Prompt
  <2> QED BY <1>1, <2>1, GateAsksGoverned
<1>2. [Next]_vars => [~busy /\ busy' /\ asked'.root # None =>
                        \/ asked'.root = FolderRoot(cwd)
                        \/ layout.tenant[asked'.root] = layout.tenant[cwd]]_vars
  BY <1>1
<1> QED BY <1>2, PTL DEF Spec, GovernedOnly

-----------------------------------------------------------------------------
(* The memo is of a checkout reported as changed.                          *)
MemoWasChanged == memo # None => <<memo.root, memo.repository>> \in changed

(* Every step keeps MemoWasChanged.                                        *)
LEMMA MemoNext ==
    ASSUME MemoWasChanged, [Next]_vars
    PROVE  MemoWasChanged'
<1> USE DEF MemoWasChanged
<1>1. CASE memo' = memo /\ changed' = changed
  BY <1>1
<1>2. CASE SessionEnd
  BY <1>2 DEF SessionEnd
<1>3. CASE Prompt
  BY <1>3 DEF Prompt
<1>4. ASSUME NEW origin, NEW slow, Stop(origin, slow) PROVE MemoWasChanged'
  <2> DEFINE r == ResolveWorkCheckout(Own, origin, cwd, slow)
  <2>1. \/ memo' = [root |-> r.root, repository |-> r.repository] /\ changed' = changed \union {<<r.root, r.repository>>}
        \/ UNCHANGED <<memo, changed>>
    BY <1>4 DEF Stop
  <2> HIDE DEF r
  <2> QED BY <2>1
<1>5. CASE StopForgetting
  BY <1>5 DEF StopForgetting
<1>6. CASE StopDegraded
  BY <1>6 DEF StopDegraded
<1> QED BY <1>1, <1>2, <1>3, <1>4, <1>5, <1>6, OnlyClosesReport

(* A carried report names the memo's checkout, with its repository.        *)
LEMMA CarriedIsMemo ==
    ASSUME NEW own, NEW origin, NEW sitting, NEW slow, ResolveWorkCheckout(own, origin, sitting, slow).evidence = "carried"
    PROVE  LET r == ResolveWorkCheckout(own, origin, sitting, slow)
           IN  memo # None /\ r.root = memo.root /\ r.repository = memo.repository
<1> DEFINE r == ResolveWorkCheckout(own, origin, sitting, slow)
<1>1. NoReport.evidence # "carried"
  BY CheckoutAssumption DEF NoReport
<1>2. ReportFolder(own, origin, sitting).evidence # "carried"
  <2>1. \/ ReportFolder(own, origin, sitting).evidence = NoReport.evidence
        \/ ReportFolder(own, origin, sitting).evidence = "cwd"
    BY DEF ReportFolder, StopGit, NoReport
  <2> QED BY <1>1, <2>1
<1>3. ASSUME NEW c, NEW e \in {"changed", "referenced"}, NEW p
      PROVE  ReportCheckout(own, c, e, p, slow).evidence # "carried"
  BY CheckoutAssumption DEF ReportCheckout, NoReport
<1>4. ASSUME NEW p, r = ReportCheckout(own, memo.root, "carried", p, slow), RepositoryIdentity(memo.root, p.remote) = memo.repository
      PROVE  r.root = memo.root /\ r.repository = memo.repository
  <2>1. ReportCheckout(own, memo.root, "carried", p, slow).evidence = "carried"
    BY <1>4
  <2>2. ReportPolicy(memo.root, p, slow).git
    BY <2>1, CheckoutAssumption DEF ReportCheckout, NoReport
  <2> QED BY <1>4, <2>2 DEF ReportCheckout
<1> QED BY <1>1, <1>2, <1>3, <1>4, Resolved

(* An unhealthy report says nothing of evidence.                           *)
LEMMA DegradedEvidence ==
    ASSUME StopDegraded
    PROVE  report'.evidence = None
<1>1. report' = Gated([StopGit(cwd) EXCEPT !.evidence = None])
  BY DEF StopDegraded
<1> QED BY <1>1 DEF Gated, StopGit, NoReport

(* CarriedWasChanged: what is carried over was once reported changed.      *)
THEOREM CarriesOnlyChanged == Spec => CarriedWasChanged
<1> DEFINE Was == Closes /\ report'.evidence = "carried" => <<report'.root, report'.repository>> \in changed
<1>1. ASSUME MemoWasChanged, [Next]_vars, Closes, report'.evidence = "carried"
      PROVE  <<report'.root, report'.repository>> \in changed
  <2> DEFINE r(origin, slow) == ResolveWorkCheckout(Own, origin, cwd, slow)
  <2>1. \E origin, slow : report' \in {NoReport, Gated(r(origin, slow))}
    <3>1. CASE StopDegraded
      BY <1>1, <3>1, DegradedEvidence, CheckoutAssumption
    <3>2. CASE StopForgetting
      BY <3>2 DEF StopForgetting
    <3>3. ASSUME NEW origin, NEW slow, Stop(origin, slow) PROVE report' \in {NoReport, Gated(r(origin, slow))}
      BY <3>3 DEF Stop
    <3> QED BY <1>1, <3>1, <3>2, <3>3, OnlyClosesReport DEF Closes, Prompt
  <2>2. PICK origin, slow : report' \in {NoReport, Gated(r(origin, slow))}
    BY <2>1
  <2>3. report' = Gated(r(origin, slow))
    BY <2>2, <1>1, CheckoutAssumption DEF NoReport
  <2>4. DOMAIN r(origin, slow) = DOMAIN NoReport
    BY ResolvedFields
  <2>5. r(origin, slow).evidence = "carried" => memo # None /\ r(origin, slow).root = memo.root /\ r(origin, slow).repository = memo.repository
    BY CarriedIsMemo
  <2> HIDE DEF r
  <2> QED BY <1>1, <2>3, <2>4, <2>5, GatedNames, CheckoutAssumption DEF MemoWasChanged
<1>2. MemoWasChanged /\ [Next]_vars => [Was]_vars
  BY <1>1
<1>3. Init => MemoWasChanged
  BY DEF Init, MemoWasChanged
<1> QED BY <1>2, <1>3, MemoNext, PTL DEF Spec, CarriedWasChanged

-----------------------------------------------------------------------------
(* What a report tells of a checkout, its committed file allows.           *)
Allowed(r) ==
    /\ r.root # None => disk[r.root].policy.git \/ Unreadable(r.root)
    /\ \A c \in r.paths : disk[c].policy.files \/ Unreadable(c)

(* A report about a checkout tells what its committed file allows.         *)
LEMMA CheckoutAllowed ==
    ASSUME NEW own, NEW c, NEW e, NEW base, NEW slow, closedIn'.unread = Unread(slow)
    PROVE  Allowed(ReportCheckout(own, c, e, Probe(c, base, slow), slow))
<1> DEFINE p == Probe(c, base, slow)
           policy == ReportPolicy(c, p, slow)
<1>1. p.vanished => ~disk[c].there
  BY DEF Probe, NoProbe, ProbeStanding, ProbeVanished
<1> HIDE DEF p
<1>2. ASSUME c # None
      PROVE  /\ policy.git => disk[c].policy.git \/ Unreadable(c)
             /\ policy.files => disk[c].policy.files \/ Unreadable(c)
  <2>1. Answered(c, "policy", slow) \/ c \in closedIn'.unread
    BY DEF Answered, Unread
  <2> QED BY <1>1, <1>2, <2>1 DEF ReportPolicy, EffectivePolicy, NarrowedByBranch, Unreadable
<1>3. \A d \in PathsIn(own, c) : d = c /\ d # None
  BY DEF PathsIn
<1> HIDE DEF policy
<1>4. ReportCheckout(own, c, e, p, slow).paths \subseteq IF policy.files THEN PathsIn(own, c) ELSE {}
  BY DEF ReportCheckout, NoReport, policy
<1>5. ReportCheckout(own, c, e, p, slow).root # None => policy.git /\ ReportCheckout(own, c, e, p, slow).root = c
  BY DEF ReportCheckout, NoReport, policy
<1>6. Allowed(ReportCheckout(own, c, e, p, slow))
  BY <1>2, <1>3, <1>4, <1>5 DEF Allowed
<1> QED BY <1>6 DEF p

(* So does one about the folder.                                           *)
LEMMA FolderAllowed ==
    /\ \A sitting : Allowed(StopGit(sitting))
    /\ \A own, origin, sitting : Allowed(ReportFolder(own, origin, sitting))
<1>1. ASSUME NEW sitting
      PROVE  /\ StopGit(sitting).paths = {}
             /\ StopGit(sitting).root # None => /\ StopGit(sitting).root = FolderRoot(sitting)
                                               /\ EffectivePolicy(FolderRoot(sitting)).git
  BY DEF StopGit, NoReport
<1>2. ASSUME NEW sitting PROVE Allowed(StopGit(sitting))
  BY <1>1 DEF Allowed, EffectivePolicy
<1>3. ASSUME NEW own, NEW origin, NEW sitting PROVE Allowed(ReportFolder(own, origin, sitting))
  <2> DEFINE c == FolderRoot(sitting)
  <2>1. /\ ReportFolder(own, origin, sitting).root # None => ReportFolder(own, origin, sitting).root = StopGit(sitting).root
        /\ ReportFolder(own, origin, sitting).paths # {} => c # None /\ EffectivePolicy(c).files
        /\ ReportFolder(own, origin, sitting).paths \subseteq {c}
    BY DEF ReportFolder, StopGit, NoReport, PathsIn
  <2> HIDE DEF c
  <2> QED BY <1>2, <2>1 DEF Allowed, EffectivePolicy
<1> QED BY <1>2, <1>3

(* So does the one a close picks.                                          *)
LEMMA ResolvedAllowed ==
    ASSUME NEW own, NEW origin, NEW sitting, NEW slow, closedIn'.unread = Unread(slow)
    PROVE  Allowed(ResolveWorkCheckout(own, origin, sitting, slow))
<1>1. Allowed(NoReport)
  BY DEF Allowed, NoReport
<1> QED BY <1>1, Resolved, FolderAllowed, CheckoutAllowed

(* PolicyKept: a close tells no more than the repository's file allows.    *)
THEOREM KeepsPolicy == Spec => PolicyKept
<1> DEFINE Told(c) == disk[c].policy.git \/ Unreadable(c)
           Kept == /\ \A c \in {report'.root, shot'} \ {None} : Told(c)
                   /\ \A c \in report'.paths : disk[c].policy.files \/ Unreadable(c)
<1>1. ASSUME NEW origin, NEW slow, NEW r, r = ResolveWorkCheckout(Own, origin, cwd, slow),
             report' = Gated(r) /\ shot' = SnapshotIn(r, r.root), closedIn'.unread = Unread(slow)
      PROVE  Kept
  <2>1. report' = Gated(r) /\ shot' = SnapshotIn(r, r.root)
    BY <1>1
  <2>2. DOMAIN r = DOMAIN NoReport /\ Allowed(r)
    BY <1>1, ResolvedFields, ResolvedAllowed
  <2>3. shot' \in {None, r.root}
    BY <2>1 DEF SnapshotIn
  <2>4. report'.root \in {None, r.root} /\ report'.paths \subseteq r.paths
    BY <2>1, <2>2, GatedNames
  <2> QED BY <2>2, <2>3, <2>4 DEF Allowed
<1>2. ASSUME NEW origin, NEW slow, Stop(origin, slow) PROVE Kept
  <2>1. CASE Own = {}
    <3>1. report'.root = None /\ report'.paths = {} /\ shot' = None
      BY <1>2, <2>1 DEF Stop, NoReport
    <3> QED BY <3>1
  <2>2. CASE Own # {}
    <3> DEFINE r == ResolveWorkCheckout(Own, origin, cwd, slow)
    <3>1. report' = Gated(r) /\ shot' = SnapshotIn(r, r.root) /\ closedIn'.unread = Unread(slow)
      BY <1>2, <2>2 DEF Stop, Closed
    <3>2. r = ResolveWorkCheckout(Own, origin, cwd, slow)
      OBVIOUS
    <3> HIDE DEF r
    <3> QED BY <3>1, <3>2, <1>1
  <2> QED BY <2>1, <2>2
<1>3. ASSUME StopForgetting PROVE Kept
  <2> DEFINE r == ResolveWorkCheckout(Own, Origin(cwd), cwd, {})
  <2>1. report' = Gated(r) /\ shot' = SnapshotIn(r, r.root) /\ closedIn'.unread = Unread({})
    BY <1>3 DEF StopForgetting, Closed, Unread
  <2>2. r = ResolveWorkCheckout(Own, Origin(cwd), cwd, {})
    OBVIOUS
  <2> HIDE DEF r
  <2> QED BY <2>1, <2>2, <1>1
<1>4. ASSUME StopDegraded PROVE Kept
  <2> DEFINE r == [StopGit(cwd) EXCEPT !.evidence = None]
  <2>1. report' = Gated(r) /\ shot' = SnapshotIn(report', FolderRoot(cwd))
    BY <1>4 DEF StopDegraded
  <2>2. /\ DOMAIN r = DOMAIN NoReport /\ r.root = StopGit(cwd).root /\ r.paths = StopGit(cwd).paths
        /\ r.repository = StopGit(cwd).repository
    BY ReportFields DEF NoReport
  <2> HIDE DEF r
  <2>3. Allowed(r)
    BY <2>2, FolderAllowed DEF Allowed
  <2>4. report'.root \in {None, r.root} /\ report'.paths \subseteq r.paths
    BY <2>1, <2>2, GatedNames
  <2>5. shot' # None => shot' = r.root
    <3>1. shot' # None => shot' = FolderRoot(cwd) /\ report'.repository # None
      BY <2>1 DEF SnapshotIn
    <3>2. report'.repository # None => StopGit(cwd).repository # None
      BY <2>1, <2>2, GatedNames
    <3>3. StopGit(cwd).repository # None => StopGit(cwd).root = FolderRoot(cwd)
      BY DEF StopGit, NoReport
    <3> QED BY <3>1, <3>2, <3>3, <2>2
  <2>6. \A c \in {report'.root, shot'} \ {None} : c = r.root
    BY <2>4, <2>5
  <2>7. r.root # None => Told(r.root)
    BY <2>3 DEF Allowed
  <2>8. \A c \in report'.paths : disk[c].policy.files \/ Unreadable(c)
    BY <2>3, <2>4 DEF Allowed
  <2> HIDE DEF Told
  <2> QED BY <2>6, <2>7, <2>8
<1> HIDE DEF Kept
<1>5. ASSUME [Next]_vars, Closes PROVE Kept
  <2>1. busy /\ ~busy'
    BY <1>5 DEF Closes
  <2>2. ~Prompt /\ busy' # busy
    BY <2>1 DEF Prompt
  <2>3. StopForgetting \/ StopDegraded \/ \E origin, slow : Stop(origin, slow)
    BY <1>5, <2>2, OnlyClosesReport
  <2> QED BY <1>2, <1>3, <1>4, <2>3
<1>6. [Next]_vars => [Closes => Kept]_vars
  BY <1>5
<1> QED BY <1>6, PTL DEF Spec, PolicyKept, Kept

-----------------------------------------------------------------------------
(* A change is reported.  The rest is about what a turn's hooks write, up  *)
(* to the theorem at the end.                                              *)

(* A set of numbers has a least one.                                       *)
LEMMA Least ==
    ASSUME NEW T \in SUBSET Nat, T # {}
    PROVE  \E m \in T : \A n \in T : m <= n
<1>1. IsWellFoundedOn({ss \in Nat \X Nat : ss[1] < ss[2]}, Nat)
  BY NatLessThanWellFounded DEF OpToRel
<1>2. PICK m \in T : \A n \in T : ~(<<n, m>> \in {ss \in Nat \X Nat : ss[1] < ss[2]})
  BY <1>1, WFMin
<1>3. ASSUME NEW n \in T
      PROVE  m <= n
  <2>1. <<n, m>> \in Nat \X Nat /\ <<n, m>>[1] = n /\ <<n, m>>[2] = m
    OBVIOUS
  <2>q. QED BY <1>2, <2>1
<1>q. QED BY <1>3

(* Min is that one.                                                        *)
LEMMA MinIs ==
    ASSUME NEW T \in SUBSET Nat, T # {}
    PROVE  Min(T) \in T /\ \A n \in T : Min(T) <= n
BY Least DEF Min

(* Where some candidate changed, one of them is best.                      *)
LEMMA BestChange ==
    ASSUME NEW bound \in Nat, NEW S,
           \A x \in S : x.change \in Nat /\ x.change <= bound /\ x.first \in Nat /\ x.order \in Nat,
           NEW z \in S, z.change > 0
    PROVE  Best(S, LAMBDA x : x.change) # {}
<1>1. PICK top \in S : \A x \in S : x.change <= top.change
  <2> DEFINE T == {bound - x.change : x \in S}
  <2>1. T \in SUBSET Nat /\ T # {}
    OBVIOUS
  <2>2. PICK m \in T : \A n \in T : m <= n
    BY <2>1, Least
  <2>3. PICK top \in S : m = bound - top.change
    BY <2>2
  <2>4. \A x \in S : bound - top.change <= bound - x.change
    BY <2>2, <2>3
  <2> HIDE DEF T
  <2>q. QED BY <2>4
<1> DEFINE S1 == {x \in S : x.change = top.change}
<1>2. PICK head \in S1 : \A x \in S1 : head.first <= x.first
  <2> DEFINE T == {x.first : x \in S1}
  <2>1. T \in SUBSET Nat /\ T # {}
    OBVIOUS
  <2>2. PICK m \in T : \A n \in T : m <= n
    BY <2>1, Least
  <2>q. QED BY <2>2
<1> DEFINE S2 == {x \in S1 : x.first = head.first}
<1>3. PICK w \in S2 : \A x \in S2 : w.order <= x.order
  <2> DEFINE T == {x.order : x \in S2}
  <2>1. T \in SUBSET Nat /\ T # {}
    OBVIOUS
  <2>2. PICK m \in T : \A n \in T : m <= n
    BY <2>1, Least
  <2>q. QED BY <2>2
<1>4. w \in S /\ w.change = top.change /\ w.first = head.first
  BY <1>3
<1>5. w.change > 0
  BY <1>1, <1>4
<1>6. ASSUME NEW y \in S \ {w}
      PROVE  y.change < w.change \/ (y.change = w.change /\ ~Before(y, w))
  <2>1. CASE y.change < w.change
    BY <2>1
  <2>2. CASE y.change = w.change
    <3>1. y \in S1
      BY <2>2, <1>4
    <3>2. w.first <= y.first
      BY <3>1, <1>2, <1>4
    <3>3. y.first = w.first => w.order <= y.order
      BY <3>1, <1>3, <1>4
    <3>q. QED BY <2>2, <3>2, <3>3, <1>4 DEF Before
  <2>q. QED BY <2>1, <2>2, <1>1, <1>4
<1>q. QED BY <1>4, <1>5, <1>6 DEF Best

(* What the records say of themselves.                                     *)
RecordOK(r) ==
    /\ r.turn \in Nat /\ r.turn <= turn
    /\ r.at \in Nat
    /\ r.root \in Checkouts \union {None}
    /\ r.kind = "checkout" => r.root \in Checkouts
    /\ r.seq # None => r.kind = "checkout" /\ r.seq \in 0..(MaxCheckouts - 1)

(* The types the sights rest on.                                           *)
Typed ==
    /\ layout \in Layout /\ cwd \in Folders
    /\ turn \in 0..MaxTurns /\ (busy => turn # 0) /\ clock \in Nat
    /\ call \in [Calls -> Hook]
    /\ named = [c \in Checkouts |-> named[c]]
    /\ faults \in Nat
    /\ \A r \in records : RecordOK(r)

(* The turn's records tell what named says: the first sight of a checkout  *)
(* that no two hooks raced for has one record, with the baseline in it.    *)
Told(c) ==
    /\ named[c].known => \E r \in Own : r.root = c /\ r.seq # None /\ r.baseline = named[c]
    /\ c \notin raced => \A r, s \in Own : /\ r.root = c /\ r.seq # None
                                           /\ s.root = c /\ s.seq # None
                                           => r = s

(* What a call has yet to write replaces no record.                        *)
Phase(k) == IF call[k].pc = "running" THEN "start" ELSE "done"

Unwritten(k) ==
    \A w \in call[k].plan :
        /\ \A x \in call[k].plan : x.root = w.root => x = w
        /\ \A r \in records : ~(/\ r.kind = "checkout" /\ r.turn = call[k].turn
                                /\ r.event = <<k, Phase(k)>> /\ r.root = w.root)

SightInv ==
    /\ busy => \A c \in Checkouts : Told(c)
    /\ ~busy => named = Unnamed
    /\ \A k \in Calls : Unwritten(k) /\ call[k].turn <= turn

(* The checkouts of which a turn holds a first sight.                      *)
Sighted(own) == {r.root : r \in {x \in own : x.seq # None}}

(* The only first sight of a checkout is the one that counts,              *)
LEMMA OneLower ==
    ASSUME NEW own, NEW c \in Checkouts, NEW r \in own, RecordOK(r), r.root = c, r.seq # None,
           \A s \in own : s.root = c /\ s.seq # None => s = r
    PROVE  Lowers(own, c) = {r}
BY DEF Lowers, About, Speaks, Earlier, RecordOK

(* ... what has a rank that a turn may name was sighted,                   *)
LEMMA FirstIs ==
    ASSUME NEW own, \A r \in own : RecordOK(r), NEW c \in Checkouts
    PROVE  /\ First(own, c) \in Nat
           /\ First(own, c) < MaxCheckouts => c \in Sighted(own)
<1> DEFINE T == {r.seq : r \in Lowers(own, c)}
<1>1. CASE Lowers(own, c) = {}
  BY <1>1, CheckoutAssumption DEF First, Unseen
<1>2. CASE Lowers(own, c) # {}
  <2>1. T \in SUBSET Nat /\ T # {}
    BY <1>2 DEF Lowers, About, RecordOK
  <2>2. First(own, c) \in Nat
    BY <2>1, <1>2, MinIs DEF First
  <2>3. c \in Sighted(own)
    BY <1>2 DEF Lowers, About, Sighted
  <2>q. QED BY <2>2, <2>3
<1>q. QED BY <1>1, <1>2

(* ... and ranks and times are numbers.                                    *)
LEMMA OrderIs ==
    ASSUME NEW own, \A r \in own : RecordOK(r), NEW c \in Checkouts
    PROVE  Order(own, c) \in Nat
<1> DEFINE T == {r.at : r \in About(own, c)}
<1>1. CASE About(own, c) = {}
  BY <1>1, CheckoutAssumption DEF Order, Unseen
<1>2. CASE About(own, c) # {}
  <2>1. T \in SUBSET Nat /\ T # {}
    BY <1>2 DEF About, RecordOK
  <2>q. QED BY <2>1, <1>2, MinIs DEF Order
<1>q. QED BY <1>1, <1>2

(* A checkout of which the turn holds one first sight is a candidate of    *)
(* its close.                                                              *)
LEMMA CandidateSeen ==
    ASSUME NEW own, \A r \in own : RecordOK(r), NEW c \in Checkouts, NEW origin, NEW sitting, Admits(origin, sitting, c),
           NEW r \in own, r.root = c, r.seq # None,
           \A s \in own : s.root = c /\ s.seq # None => s = r,
           Cardinality(Sighted(own)) <= MaxCheckouts
    PROVE  c \in CandidatesOf(own, origin, sitting)
<1> DEFINE roots == {x.root : x \in {y \in own : Speaks(y)}}
           entry(d) == [root |-> d, first |-> First(own, d), order |-> Order(own, d)]
           seen == {entry(d) : d \in {e \in roots : Admits(origin, sitting, e)}}
           ahead == {z \in seen : Before(z, entry(c))}
<1>1. c \in roots
  BY DEF RecordOK, Speaks
<1>2. roots \subseteq Checkouts
  BY DEF RecordOK, Speaks
<1>3. First(own, c) < MaxCheckouts
  <2>1. Lowers(own, c) = {r}
    BY OneLower
  <2>2. {x.seq : x \in Lowers(own, c)} = {r.seq} /\ r.seq \in 0..(MaxCheckouts - 1)
    BY <2>1 DEF RecordOK
  <2>3. First(own, c) = r.seq
    BY <2>1, <2>2, MinIs DEF First
  <2>q. QED BY <2>2, <2>3, CheckoutAssumption
<1>4. \A d \in roots : First(own, d) \in Nat /\ Order(own, d) \in Nat
  BY <1>2, FirstIs, OrderIs
<1>5. \A z \in ahead : z = entry(z.root) /\ z.root \in Sighted(own) \ {c}
  <2> SUFFICES ASSUME NEW z \in ahead
               PROVE  z = entry(z.root) /\ z.root \in Sighted(own) \ {c}
    OBVIOUS
  <2>1. PICK d \in roots : z = entry(d)
    OBVIOUS
  <2>2. z.root = d /\ z.first = First(own, d) /\ z.order = Order(own, d)
    BY <2>1
  <2>3. Before(z, entry(c)) /\ entry(c).first = First(own, c) /\ entry(c).order = Order(own, c)
    OBVIOUS
  <2>4. First(own, d) < MaxCheckouts
    BY <1>1, <1>3, <1>4, <2>2, <2>3, CheckoutAssumption DEF Before
  <2>5. d # c
    BY <1>1, <1>4, <2>2, <2>3 DEF Before
  <2>q. QED BY <1>2, <2>1, <2>2, <2>4, <2>5, FirstIs
<1>6. IsFiniteSet(Sighted(own)) /\ c \in Sighted(own)
  <2>1. Sighted(own) \subseteq Checkouts
    BY DEF Sighted, RecordOK
  <2>q. QED BY <2>1, FS_Subset, CheckoutAssumption DEF Sighted
<1>7. Cardinality(ahead) < MaxCheckouts
  <2> DEFINE others == Sighted(own) \ {c}
             f == [z \in ahead |-> z.root]
  <2>1. IsFiniteSet(others) /\ Cardinality(others) = Cardinality(Sighted(own)) - 1
    BY <1>6, FS_RemoveElement
  <2>2. f \in Injection(ahead, others)
    BY <1>5 DEF Injection, IsInjective
  <2>3. IsFiniteSet(ahead) /\ Cardinality(ahead) <= Cardinality(others)
    BY <2>1, <2>2, FS_Injection
  <2>q. QED BY <2>1, <2>3, <1>6, FS_CardinalityType, CheckoutAssumption
<1>8. entry(c) \in seen /\ entry(c).root = c
  BY <1>1
<1>9. CandidatesOf(own, origin, sitting) = {x.root : x \in {y \in seen : Cardinality({z \in seen : Before(z, y)}) < MaxCheckouts}}
  BY DEF CandidatesOf
<1>q. QED BY <1>7, <1>8, <1>9

-----------------------------------------------------------------------------
(* What a close may find changed in a checkout.                            *)
Changes == {"dirty", "commit", "edit"}

(* What a candidate weighs: a number of changes with a bound.              *)
LEMMA Weight ==
    ASSUME NEW own, \A r \in own : RecordOK(r), NEW c \in Checkouts, NEW base, NEW slow
    PROVE  LET x == Weighed(own, c, base, slow)
           IN  /\ x.change \in Nat /\ x.change <= Cardinality(Changes) + 1
               /\ x.first \in Nat /\ x.order \in Nat
               /\ Cardinality(Changes) \in Nat
               /\ ChangedFiles(own, c, base, x.probe) # {} => x.change > 0
               /\ x.probe.moved => x.change > 0
<1> DEFINE probe == Probe(c, base, slow)
           changes == ChangedFiles(own, c, base, probe)
           x == Weighed(own, c, base, slow)
<1>1. /\ x.change = IF changes # {} THEN Cardinality(changes) ELSE IF probe.moved THEN 1 ELSE 0
      /\ x.first = First(own, c) /\ x.order = Order(own, c) /\ x.probe = probe
  BY DEF Weighed
<1>2. changes \subseteq Changes
  BY DEF ChangedFiles, DirtyDelta, Changes
<1>3. IsFiniteSet(Changes)
  <2>1. IsFiniteSet(({"dirty"} \union {"commit"}) \union {"edit"})
    BY FS_Singleton, FS_AddElement
  <2>2. Changes = ({"dirty"} \union {"commit"}) \union {"edit"}
    BY DEF Changes
  <2>q. QED BY <2>1, <2>2
<1> HIDE DEF changes, x
<1>4. /\ Cardinality(Changes) \in Nat /\ Cardinality(changes) \in Nat
      /\ Cardinality(changes) <= Cardinality(Changes)
      /\ Cardinality(changes) = 0 <=> changes = {}
  BY <1>2, <1>3, FS_Subset, FS_CardinalityType, FS_EmptySet
<1>5. First(own, c) \in Nat /\ Order(own, c) \in Nat
  BY FirstIs, OrderIs
<1>6. ASSUME changes # {}
      PROVE  x.change \in Nat /\ x.change > 0 /\ x.change <= Cardinality(Changes) + 1
  BY <1>1, <1>4, <1>6
<1>7. ASSUME changes = {}
      PROVE  x.change \in Nat /\ (probe.moved => x.change > 0) /\ x.change <= Cardinality(Changes) + 1
  BY <1>1, <1>4, <1>7
<1>q. QED BY <1>1, <1>4, <1>5, <1>6, <1>7 DEF changes, x

(* A checkout that differs from its baseline weighs something.             *)
LEMMA DifferenceWeighs ==
    ASSUME NEW own, \A r \in own : RecordOK(r), NEW c \in Checkouts, NEW base, base.known,
           disk[c].there, disk[c].head # EmptyTree,
           base.dirty # disk[c].dirty \/ base.head # disk[c].head
    PROVE  LET x == Weighed(own, c, base, {}) IN x.probe.closing.known /\ x.change > 0
<1> DEFINE x == Weighed(own, c, base, {})
<1>1. x.probe = ProbeStanding(c, base, {})
  BY DEF Weighed, Probe
<1>2. /\ x.probe.closing.known /\ x.probe.vanished = FALSE
      /\ x.probe.closing.dirty = disk[c].dirty
  BY <1>1 DEF ProbeStanding, Fingerprint, Answered
<1>5. base.head # disk[c].head => x.probe.moved
  <2> DEFINE moved == base.known /\ Fingerprint(c).head # EmptyTree /\ base.head # Fingerprint(c).head
  <2>1. x.probe.moved = moved
    BY <1>1 DEF ProbeStanding, Answered
  <2>2. base.head # disk[c].head => moved
    BY DEF Fingerprint
  <2> HIDE DEF x, moved
  <2>q. QED BY <2>1, <2>2
<1>3. base.dirty # disk[c].dirty => ChangedFiles(own, c, base, x.probe) # {}
  BY <1>2 DEF ChangedFiles, DirtyDelta
<1>4. /\ ChangedFiles(own, c, base, x.probe) # {} => x.change > 0
      /\ x.probe.moved => x.change > 0
  BY Weight
<1>q. QED BY <1>2, <1>3, <1>4, <1>5

(* A close that found a change in a checkout reports it as one.            *)
LEMMA ChangeWins ==
    ASSUME NEW own, \A r \in own : RecordOK(r), NEW origin, NEW sitting,
           EffectivePolicy(FolderRoot(sitting)).git,
           NEW c \in CandidatesOf(own, origin, sitting) \intersect Checkouts, CandidatesOf(own, origin, sitting) \subseteq Checkouts,
           Weighed(own, c, Baseline(own, c), {}).probe.closing.known,
           Weighed(own, c, Baseline(own, c), {}).change > 0
    PROVE  ResolveWorkCheckout(own, origin, sitting, {}).evidence \in {"changed", None}
<1> DEFINE candidates == {Weighed(own, d, Baseline(own, d), {}) : d \in CandidatesOf(own, origin, sitting)}
           reportable == {x \in candidates : x.probe.closing.known}
           byChange == Best(reportable, LAMBDA x : x.change)
           x == CHOOSE y \in byChange : TRUE
           z == Weighed(own, c, Baseline(own, c), {})
<1>1. ResolveWorkCheckout(own, origin, sitting, {}) =
         IF byChange # {} THEN ReportCheckout(own, x.root, "changed", x.probe, {})
         ELSE ResolveWorkCheckout(own, origin, sitting, {})
  BY DEF ResolveWorkCheckout
<1>2. byChange # {}
  <2> DEFINE bound == Cardinality(Changes) + 1
  <2>1. bound \in Nat
    BY Weight
  <2>2. ASSUME NEW y \in candidates
        PROVE  y.change \in Nat /\ y.change <= bound /\ y.first \in Nat /\ y.order \in Nat
    <3>1. PICK d \in CandidatesOf(own, origin, sitting) : y = Weighed(own, d, Baseline(own, d), {})
      BY <2>2
    <3>2. d \in Checkouts
      BY <3>1
    <3>q. QED BY <3>1, <3>2, Weight
  <2>3. z \in reportable /\ z.change > 0
    OBVIOUS
  <2> HIDE DEF z, bound, candidates
  <2>4. \A y \in reportable : y.change \in Nat /\ y.change <= bound /\ y.first \in Nat /\ y.order \in Nat
    BY <2>2
  <2> HIDE DEF reportable
  <2>q. QED BY <2>1, <2>3, <2>4, BestChange
<1> HIDE DEF byChange, x
<1>3. ReportCheckout(own, x.root, "changed", x.probe, {}).evidence \in {"changed", None}
  BY DEF ReportCheckout, NoReport
<1>q. QED BY <1>1, <1>2, <1>3

(* Candidates are checkouts.                                               *)
LEMMA CandidatesAre ==
    ASSUME NEW own, \A r \in own : RecordOK(r), NEW origin, NEW sitting
    PROVE  CandidatesOf(own, origin, sitting) \subseteq Checkouts
<1> DEFINE roots == {x.root : x \in {y \in own : Speaks(y)}}
           seen == {[root |-> d, first |-> First(own, d), order |-> Order(own, d)] :
                        d \in {e \in roots : Admits(origin, sitting, e)}}
<1>1. CandidatesOf(own, origin, sitting) =
        {x.root : x \in {y \in seen : Cardinality({z \in seen : Before(z, y)}) < MaxCheckouts}}
  BY DEF CandidatesOf
<1>2. roots \subseteq Checkouts
  BY DEF RecordOK, Speaks
<1>3. \A x \in seen : x.root \in roots
  OBVIOUS
<1>q. QED BY <1>1, <1>2, <1>3

-----------------------------------------------------------------------------
(* The places a hook looks at lie in a checkout or in none.                *)
LEMMA RootIs ==
    ASSUME Typed
    PROVE  /\ \A c \in Checkouts \union {None} : CheckoutRootOf(c) \in Checkouts \union {None}
           /\ \A f \in Folders : FolderRoot(f) \in Checkouts \union {None}
           /\ \A k \in Calls : ShellRoot(k) \in Checkouts \union {None}
           /\ \A k \in Calls : \A s \in BOOLEAN : OpenRoot(k, s) \in Checkouts \union {None}
           /\ \A k \in Calls : \A f \in Folders : FileRoot(k, f) \in Checkouts \union {None}
<1>1. ASSUME NEW c \in Checkouts \union {None}
      PROVE  CheckoutRootOf(c) \in Checkouts \union {None}
  BY DEF Typed, Layout, CheckoutRootOf
<1>2. \A f \in Folders : layout.at[f] \in Checkouts \union {None}
  BY DEF Typed, Layout
<1>3. \A k \in Calls : {k.shell, k.file, k.open} \subseteq Checkouts \union {None}
  BY PipelineAssumption
<1>q. QED BY <1>1, <1>2, <1>3 DEF FolderRoot, ShellRoot, OpenRoot, FileRoot

(* What a hook sees is a checkout or nothing.                              *)
LEMMA SightsAre ==
    ASSUME Typed, NEW k \in Calls, NEW sitting \in Folders, NEW starting \in BOOLEAN, NEW i \in 1..4
    PROVE  /\ Sights(k, sitting, starting)[i].root \in Checkouts \union {None}
           /\ Sights(k, sitting, starting)[i].via \in {"shell", "file", "cwd"}
<1> DEFINE OK(s) == s.root \in Checkouts \union {None} /\ s.via \in {"shell", "file", "cwd"}
<1>1. /\ OK([root |-> ShellRoot(k), via |-> "shell"])
      /\ OK([root |-> FileRoot(k, sitting), via |-> "file"])
      /\ OK([root |-> IF starting THEN FolderRoot(sitting) ELSE None, via |-> "cwd"])
      /\ OK([root |-> OpenRoot(k, starting), via |-> "cwd"])
  BY RootIs
<1>2. i = 1 \/ i = 2 \/ i = 3 \/ i = 4
  OBVIOUS
<1> HIDE DEF OK
<1>3. OK(Sights(k, sitting, starting)[i])
  BY <1>1, <1>2 DEF Sights
<1>q. QED BY <1>3 DEF OK

(* A hook plans one write for a checkout, and none its event already has.  *)
LEMMA PlanIs ==
    ASSUME Typed, NEW k \in Calls, NEW origin, NEW sitting \in Folders, NEW event, NEW starting \in BOOLEAN
    PROVE  LET plan == Plan(k, origin, sitting, event, starting)
           IN  /\ plan \in SUBSET Write
               /\ \A w, x \in plan : x.root = w.root => x = w
               /\ \A w \in plan : \A r \in Sightings(event.turn) : ~(r.event = event.id /\ r.root = w.root)
<1> DEFINE sights == Sights(k, sitting, starting)
           seen == {r.root : r \in Sightings(event.turn)}
           duplicate(i) == \E r \in Sightings(event.turn) : r.root = sights[i].root /\ r.event = event.id
           new == {i \in HookCandidates(sights) : ~duplicate(i) /\ Admits(origin, sitting, sights[i].root)}
           first == {i \in new : sights[i].root \notin seen}
           rank(i) == Cardinality(seen) + Cardinality({j \in first : j < i})
           votes == {i \in new \ first : starting /\ (sights[i].via = "shell"
                        \/ (sights[i].via = "cwd" /\ ~Names(k, sitting, starting)))}
           write(i, seq) == [root |-> sights[i].root, via |-> sights[i].via,
                             named |-> Names(k, sitting, starting), seq |-> seq]
           plan == Plan(k, origin, sitting, event, starting)
<1>1. plan \subseteq {write(i, rank(i)) : i \in {j \in first : rank(j) < MaxCheckouts}}
                        \union {write(i, None) : i \in votes}
  BY DEF Plan
<1>2. new \subseteq 1..4 /\ first \subseteq new /\ votes \subseteq new \ first
  BY DEF HookCandidates
<1>3. ASSUME NEW i \in new
      PROVE  sights[i].root \in Checkouts /\ sights[i].via \in {"shell", "file", "cwd"} /\ ~duplicate(i)
  BY <1>2, SightsAre DEF HookCandidates
<1>4. ASSUME NEW i \in new, NEW j \in new, sights[i].root = sights[j].root
      PROVE  i = j
  <2>1. ~(i < j) /\ ~(j < i)
    BY <1>2, <1>4 DEF HookCandidates
  <2>q. QED BY <1>2, <2>1
<1>5. Names(k, sitting, starting) \in BOOLEAN
  BY DEF Names
<1>6. \A i \in first : rank(i) \in Nat
  <2>1. IsFiniteSet(seen)
    <3>1. seen \subseteq Checkouts
      BY DEF Typed, RecordOK, Sightings
    <3>q. QED BY <3>1, FS_Subset, CheckoutAssumption
  <2>2. \A i \in first : IsFiniteSet({j \in first : j < i})
    <3>1. \A a, b \in Int : IsFiniteSet(a..b)
      BY FS_Interval
    <3> DEFINE one == 1
               four == 4
    <3>2. one \in Int /\ four \in Int
      OBVIOUS
    <3> HIDE DEF one, four
    <3>3. IsFiniteSet(one..four)
      BY <3>1, <3>2
    <3>4. IsFiniteSet(1..4)
      BY <3>3 DEF one, four
    <3>q. QED BY <3>4, <1>2, FS_Subset
  <2> HIDE DEF seen, first
  <2>q. QED BY <2>1, <2>2, FS_CardinalityType
<1> HIDE DEF new, first, votes, sights, duplicate, plan, rank
<1>7. ASSUME NEW w \in plan
      PROVE  \E i \in new, s \in {None} \union 0..(MaxCheckouts - 1) :
                w = write(i, s) /\ ((i \in first /\ s = rank(i)) \/ (i \notin first /\ s = None))
  <2>1. CASE \E i \in first : rank(i) < MaxCheckouts /\ w = write(i, rank(i))
    <3>1. PICK i \in first : rank(i) < MaxCheckouts /\ w = write(i, rank(i))
      BY <2>1
    <3>2. rank(i) \in 0..(MaxCheckouts - 1)
      BY <3>1, <1>6, CheckoutAssumption
    <3>3. i \in new /\ w = write(i, rank(i))
      BY <3>1, <1>2
    <3>q. QED BY <3>2, <3>3
  <2>2. CASE \E i \in votes : w = write(i, None)
    <3>1. PICK i \in votes : w = write(i, None)
      BY <2>2
    <3>2. i \in new /\ i \notin first
      BY <1>2
    <3>q. QED BY <3>1, <3>2
  <2>q. QED BY <1>1, <1>7, <2>1, <2>2
<1>8. plan \in SUBSET Write
  <2>1. ASSUME NEW w \in plan
        PROVE  w \in Write
    BY <1>3, <1>5, <1>7 DEF Write
  <2>q. QED BY <2>1
<1>9. ASSUME NEW w \in plan, NEW x \in plan, x.root = w.root
      PROVE  x = w
  <2>1. PICK i \in new, s \in {None} \union 0..(MaxCheckouts - 1) :
           w = write(i, s) /\ ((i \in first /\ s = rank(i)) \/ (i \notin first /\ s = None))
    BY <1>7
  <2>2. PICK j \in new, t \in {None} \union 0..(MaxCheckouts - 1) :
           x = write(j, t) /\ ((j \in first /\ t = rank(j)) \/ (j \notin first /\ t = None))
    BY <1>7
  <2>3. w.root = sights[i].root /\ x.root = sights[j].root
    BY <2>1, <2>2
  <2>4. i = j
    BY <2>3, <1>4, <1>9
  <2>5. s = t
    BY <2>1, <2>2, <2>4
  <2>q. QED BY <2>1, <2>2, <2>4, <2>5
<1>10. ASSUME NEW w \in plan, NEW r \in Sightings(event.turn)
       PROVE  ~(r.event = event.id /\ r.root = w.root)
  <2>1. PICK i \in new : w.root = sights[i].root
    BY <1>7
  <2>2. ~duplicate(i)
    BY <1>3
  <2>q. QED BY <2>1, <2>2 DEF duplicate
<1>q. QED BY <1>8, <1>9, <1>10 DEF plan

-----------------------------------------------------------------------------
(* What the world does leaves a session's records and calls alone.         *)
LEMMA WorldStays ==
    ASSUME Typed,
           \/ \E c \in Worked : \/ Touch(c) \/ Commit(c) \/ Amend(c) \/ Detach(c)
                                \/ AddWorktree(c) \/ RemoveWorktree(c) \/ DeleteBranch(c)
                                \/ \E remote \in Remotes : Reclone(c, remote)
           \/ \E f \in Folders : Cd(f)
           \/ UNCHANGED vars
    PROVE  UNCHANGED <<layout, records, turn, busy, clock, call, named, raced, faults>> /\ cwd' \in Folders
<1> USE DEF World, hooks, files, Typed
<1>1. ASSUME NEW c \in Worked, Touch(c) \/ Commit(c) \/ Amend(c) \/ Detach(c)
      PROVE  UNCHANGED <<layout, records, turn, busy, clock, call, named, raced, faults>> /\ cwd' \in Folders
  <2>1. \E state : World(c, state)
    <3> HIDE DEF World
    <3>q. QED BY <1>1, Zenon DEF Touch, Commit, Amend, Detach
  <2>q. QED BY <2>1
<1>2. ASSUME NEW c \in Worked, AddWorktree(c) \/ RemoveWorktree(c) \/ DeleteBranch(c)
      PROVE  UNCHANGED <<layout, records, turn, busy, clock, call, named, raced, faults>> /\ cwd' \in Folders
  BY <1>2 DEF AddWorktree, RemoveWorktree, DeleteBranch
<1>3. ASSUME NEW c \in Worked, NEW remote \in Remotes, Reclone(c, remote)
      PROVE  UNCHANGED <<layout, records, turn, busy, clock, call, named, raced, faults>> /\ cwd' \in Folders
  BY <1>3 DEF Reclone
<1>4. ASSUME NEW f \in Folders, Cd(f)
      PROVE  UNCHANGED <<layout, records, turn, busy, clock, call, named, raced, faults>> /\ cwd' \in Folders
  BY <1>4 DEF Cd
<1>5. ASSUME UNCHANGED vars
      PROVE  UNCHANGED <<layout, records, turn, busy, clock, call, named, raced, faults>> /\ cwd' \in Folders
  BY <1>5 DEF vars
<1>q. QED BY <1>1, <1>2, <1>3, <1>4, <1>5

(* A close starts the next turn from nothing.                              *)
LEMMA CloseClears ==
    ASSUME Typed, \/ StopForgetting \/ StopDegraded \/ \E origin, slow : Stop(origin, slow)
    PROVE  /\ records' \subseteq records /\ named' = Unnamed /\ busy' = FALSE /\ clock' = 0
           /\ UNCHANGED <<layout, cwd, turn, call>>
           /\ faults' \in {faults, faults + 1}
<1>1. ASSUME NEW origin, NEW slow, Stop(origin, slow)
      PROVE  /\ records' \subseteq records /\ named' = Unnamed /\ busy' = FALSE /\ clock' = 0
             /\ UNCHANGED <<layout, cwd, turn, call>>
             /\ faults' \in {faults, faults + 1}
  <2>1. faults' \in {faults, faults + 1}
    BY <1>1 DEF Stop, RememberStartSafely, LoseStart, Works, Fails
  <2>2. /\ records' = records \ Own /\ named' = Unnamed /\ busy' = FALSE /\ clock' = 0
        /\ UNCHANGED <<layout, cwd, turn, call>>
    BY <1>1 DEF Stop, Closed
  <2>q. QED BY <2>1, <2>2
<1>q. QED BY <1>1 DEF StopForgetting, StopDegraded, Closed, Fails

(* A call under way is of a turn and a folder; another plans nothing.      *)
LEMMA HookIs ==
    ASSUME Typed, NEW k \in Calls
    PROVE  /\ call[k].turn \in Nat /\ call[k].at \in Nat /\ call[k].plan \in SUBSET Write
           /\ call[k].cwd \in Folders \union {None}
           /\ call[k].pc \in {"running", "ending"} => call[k].turn \in 1..MaxTurns /\ call[k].cwd \in Folders
           /\ call[k].pc \notin {"running", "ending"} => call[k].plan = {}
           /\ call[k].pc \in {"idle", "running", "ending", "over"}
<1>1. call[k] \in Hook
  BY DEF Typed
<1>q. QED BY <1>1, PipelineAssumption DEF Hook

(* ... and a hook's step makes such a call of it.                          *)
LEMMA HookMade ==
    ASSUME Typed, NEW k \in Calls, NEW h, call' = [call EXCEPT ![k] = h], h \in Hook
    PROVE  call' \in [Calls -> Hook]
BY DEF Typed

LEMMA OverIs == [Idle EXCEPT !.pc = "over"] \in Hook /\ Idle \in Hook
BY DEF Idle, Hook

(* A tool's record is of a checkout or of none, and no first sight.        *)
LEMMA ToolRecordIs ==
    ASSUME Typed, NEW k \in Calls, NEW phase, NEW at \in Nat, NEW sitting \in Folders,
           call[k].turn <= turn
    PROVE  /\ RecordOK(ToolRecord(Event(k, phase, at), k, sitting))
           /\ ToolRecord(Event(k, phase, at), k, sitting).kind = "tool"
<1>1. FileRoot(k, sitting) \in Checkouts \union {None}
  BY RootIs
<1>2. call[k].turn \in Nat
  BY HookIs
<1>q. QED BY <1>1, <1>2 DEF ToolRecord, Event, RecordOK

Writes(r, k, phase, w, base) ==
    /\ RecordOK(r)
    /\ r.kind = "checkout" /\ r.turn = call[k].turn /\ r.event = <<k, phase>>
    /\ r.root = w.root /\ r.seq = w.seq /\ r.baseline = base

(* What a write puts in its record.                                        *)
LEMMA CheckoutRecordIs ==
    ASSUME Typed, NEW k \in Calls, NEW phase, NEW w \in call[k].plan, NEW base, call[k].turn <= turn
    PROVE  Writes(CheckoutRecord(Event(k, phase, call[k].at), w, base), k, phase, w, base)
<1>1. w \in Write /\ call[k].turn \in Nat /\ call[k].at \in Nat
  BY HookIs
<1>q. QED BY <1>1 DEF CheckoutRecord, Event, RecordOK, Write, Writes

(* A hook counts at most one mishap, whatever becomes of start.json.       *)
LEMMA FaultsAre ==
    ASSUME NEW smooth, RememberStartSafely(smooth)
    PROVE  faults' \in {faults, faults + 1}
BY DEF RememberStartSafely, LoseStart, Works, Fails

(* The types are kept by every step.                                       *)
LEMMA TypedNext == Typed /\ SightInv /\ [Next]_vars => Typed'
<1> SUFFICES ASSUME Typed, SightInv, [Next]_vars
             PROVE  Typed'
  OBVIOUS
<1> USE DEF hooks, files
<1>grow. ASSUME NEW r, RecordOK(r), turn' = turn, records' = Appended(r)
         PROVE  \A x \in records' : RecordOK(x)'
  BY <1>grow DEF Appended, Typed, RecordOK
<1>1. ASSUME UNCHANGED <<layout, records, turn, busy, clock, call, named, raced, faults>>, cwd' \in Folders
      PROVE  Typed'
  BY <1>1 DEF Typed, RecordOK
<1>2. CASE Prompt
  <2>1. /\ turn < MaxTurns /\ turn' = turn + 1 /\ clock' = clock + 1 /\ records' = Appended(PromptRecord)
        /\ UNCHANGED <<layout, cwd, call, named>>
    BY <1>2 DEF Prompt
  <2>2. faults' \in Nat
    <3>1. RememberStartSafely(TRUE)
      BY <1>2 DEF Prompt
    <3>2. faults' \in {faults, faults + 1}
      BY <3>1, FaultsAre
    <3>q. QED BY <3>2 DEF Typed
  <2>3. ASSUME NEW r \in records'
        PROVE  RecordOK(r)'
    <3>1. CASE r = PromptRecord
      BY <2>1, <3>1 DEF PromptRecord, RecordOK, Typed
    <3>2. CASE r \in records
      BY <2>1, <3>2 DEF RecordOK, Typed
    <3>q. QED BY <2>1, <3>1, <3>2 DEF Appended
  <2>4. turn' \in 0..MaxTurns /\ turn' # 0
    BY <2>1, PipelineAssumption DEF Typed
  <2>q. QED BY <2>1, <2>2, <2>3, <2>4 DEF Typed
<1>3. ASSUME NEW c \in Calls, NEW origin, StartHook(c, origin)
      PROVE  Typed'
  <2> DEFINE plan == Plan(c, origin, cwd, [turn |-> turn, at |-> clock', id |-> <<c, "start">>], TRUE)
  <2>1. /\ clock' = clock + 1
        /\ call' = [call EXCEPT ![c] = [pc |-> "running", turn |-> turn, at |-> clock', cwd |-> cwd, plan |-> plan]]
        /\ busy /\ UNCHANGED <<layout, records, cwd, turn, busy, named>> /\ faults' \in {faults, faults + 1}
    BY <1>3, FaultsAre DEF StartHook
  <2>2. plan \in SUBSET Write
    BY PlanIs DEF Typed
  <2> HIDE DEF plan
  <2>4. [pc |-> "running", turn |-> turn, at |-> clock', cwd |-> cwd, plan |-> plan] \in Hook
    <3>1. turn \in 1..MaxTurns /\ clock' \in Nat /\ cwd \in Folders
      BY <2>1, PipelineAssumption DEF Typed
    <3>q. QED BY <2>2, <3>1 DEF Hook
  <2>3. call' \in [Calls -> Hook]
    BY <2>1, <2>4, HookMade
  <2>q. QED BY <2>1, <2>3 DEF Typed, RecordOK
<1>4. ASSUME NEW c \in Calls, NEW origin, DoneHook(c, origin)
      PROVE  Typed'
  <2> DEFINE plan == Plan(c, origin, cwd, Event(c, "done", clock'), FALSE)
  <2>1. /\ clock' = clock + 1 /\ call[c].turn = turn /\ call[c].pc = "running"
        /\ UNCHANGED <<layout, cwd, turn, busy, named>> /\ faults' \in {faults, faults + 1}
    BY <1>4, FaultsAre DEF DoneHook
  <2>5. clock' \in Nat
    BY <2>1 DEF Typed
  <2>6. \/ Recorded(c, cwd, clock')
        \/ /\ call' = [call EXCEPT ![c] = [@ EXCEPT !.pc = "ending", !.at = clock', !.cwd = cwd, !.plan = plan]]
           /\ records' = records
    BY <1>4 DEF DoneHook
  <2>2. plan \in SUBSET Write
    BY PlanIs DEF Typed
  <2> HIDE DEF plan
  <2>3. CASE Recorded(c, cwd, clock')
    <3> DEFINE r == ToolRecord(Event(c, "done", clock'), c, cwd)
    <3>1. RecordOK(r)
      BY <2>1, <2>5, ToolRecordIs DEF Typed
    <3> HIDE DEF r
    <3>2. records' = Appended(r) /\ call' = [call EXCEPT ![c] = [Idle EXCEPT !.pc = "over"]]
      BY <2>3 DEF Recorded, r
    <3>3. call' \in [Calls -> Hook]
      BY <3>2, HookMade, OverIs
    <3>4. \A x \in records' : RecordOK(x)'
      BY <2>1, <3>1, <3>2, <1>grow
    <3>q. QED BY <2>1, <2>5, <3>3, <3>4 DEF Typed
  <2>4. ASSUME call' = [call EXCEPT ![c] = [@ EXCEPT !.pc = "ending", !.at = clock', !.cwd = cwd, !.plan = plan]],
               records' = records
        PROVE  Typed'
    <3> DEFINE h == [call[c] EXCEPT !.pc = "ending", !.at = clock', !.cwd = cwd, !.plan = plan]
    <3>1. h \in Hook
      <4>1. /\ call[c] \in Hook /\ call[c].pc = "running" /\ clock' \in Nat /\ cwd \in Folders
        BY <2>1, <2>5 DEF Typed
      <4>q. QED BY <2>2, <4>1 DEF Hook
    <3> HIDE DEF h
    <3>2. call' = [call EXCEPT ![c] = h]
      BY <2>4 DEF h
    <3>3. call' \in [Calls -> Hook]
      BY <3>1, <3>2, HookMade
    <3>q. QED BY <2>1, <2>4, <2>5, <3>3 DEF Typed, RecordOK
  <2>q. QED BY <2>3, <2>4, <2>6
<1>5. ASSUME NEW c \in Calls, Ended(c)
      PROVE  Typed'
  <2>1. /\ Recorded(c, call[c].cwd, call[c].at)
        /\ UNCHANGED <<layout, cwd, turn, busy, clock, named, faults>>
    BY <1>5 DEF Ended
  <2> DEFINE r == ToolRecord(Event(c, "done", call[c].at), c, call[c].cwd)
  <2>2. call[c].cwd \in Folders /\ call[c].at \in Nat
    BY <1>5, HookIs DEF Ended
  <2>3. RecordOK(r)
    BY <2>2, ToolRecordIs DEF SightInv
  <2> HIDE DEF r
  <2>4. records' = Appended(r) /\ call' = [call EXCEPT ![c] = [Idle EXCEPT !.pc = "over"]]
    BY <2>1 DEF Recorded, r
  <2>5. call' \in [Calls -> Hook]
    BY <2>4, HookMade, OverIs
  <2>6. \A x \in records' : RecordOK(x)'
    BY <2>1, <2>3, <2>4, <1>grow
  <2>q. QED BY <2>1, <2>5, <2>6 DEF Typed
<1>6. ASSUME NEW c \in Calls, NEW w \in call[c].plan, WriteRecord(c, w)
      PROVE  Typed'
  <2> DEFINE r(base) == CheckoutRecord(Event(c, IF call[c].pc = "running" THEN "start" ELSE "done", call[c].at), w, base)
  <2>1. /\ call' = [call EXCEPT ![c].plan = @ \ {w}]
        /\ UNCHANGED <<layout, cwd, turn, busy, clock>>
        /\ \E base : named' = named \/ named' = [named EXCEPT ![w.root] = base]
        /\ \E base : records' = Appended(r(base))
    BY <1>6 DEF WriteRecord
  <2>2. faults' \in Nat
    BY <1>6 DEF WriteRecord, Works, Fails, Typed
  <2>8. [call[c] EXCEPT !.plan = @ \ {w}] \in Hook
    <3>1. call[c] \in Hook /\ call[c].pc \in {"running", "ending"}
      BY <1>6, HookIs DEF Typed
    <3>q. QED BY <3>1 DEF Hook
  <2>3. call' \in [Calls -> Hook]
    <3>1. call' = [call EXCEPT ![c] = [call[c] EXCEPT !.plan = @ \ {w}]]
      BY <2>1 DEF Typed
    <3>q. QED BY <2>8, <3>1, HookMade
  <2>4. PICK base : records' = Appended(r(base))
    BY <2>1
  <2>5. RecordOK(r(base))
    BY CheckoutRecordIs DEF SightInv, Writes
  <2> HIDE DEF r
  <2>6. \A x \in records' : RecordOK(x)'
    BY <2>1, <2>4, <2>5, <1>grow
  <2>7. named' = [d \in Checkouts |-> named'[d]]
    BY <2>1 DEF Typed
  <2>q. QED BY <2>1, <2>2, <2>3, <2>6, <2>7 DEF Typed
<1>7. ASSUME StopForgetting \/ StopDegraded \/ \E origin, slow : Stop(origin, slow)
      PROVE  Typed'
  <2>1. /\ records' \subseteq records /\ named' = Unnamed /\ clock' = 0 /\ busy' = FALSE
        /\ UNCHANGED <<layout, cwd, turn, call>> /\ faults' \in {faults, faults + 1}
    BY <1>7, CloseClears
  <2>q. QED BY <2>1 DEF Typed, RecordOK, Unnamed
<1>8. CASE SessionEnd
  BY <1>8 DEF SessionEnd, Typed, RecordOK
<1>9. CASE StartHookKilled
  BY <1>9 DEF StartHookKilled, LoseStart, Fails, Typed, RecordOK
<1>q. QED
  BY <1>1, <1>2, <1>3, <1>4, <1>5, <1>6, <1>7, <1>8, <1>9, WorldStays DEF Next

(* A record of another kind than a checkout's changes nothing of the       *)
(* first sights and takes no plan's place.                                 *)
LEMMA OtherKindAppended ==
    ASSUME SightInv, \A x \in records : RecordOK(x), turn' = turn,
           NEW r, r.kind # "checkout", r.seq = None, records' = Appended(r)
    PROVE  /\ \A x \in Own' : x.seq # None => x \in Own
           /\ \A x \in Own : x.seq # None => x \in Own'
           /\ \A x \in records' : x.kind = "checkout" => x \in records
BY DEF Appended, Own, RecordOK

(* What leaves a checkout's first sights alone keeps what is told of it.   *)
LEMMA ToldStays ==
    ASSUME NEW c, Told(c), named'[c] = named[c], c \in raced => c \in raced',
           \A x \in Own' : x.root = c /\ x.seq # None => x \in Own,
           \A x \in Own : x.root = c /\ x.seq # None => x \in Own'
    PROVE  Told(c)'
BY DEF Told

(* What other calls write leaves a plan unwritten.                         *)
LEMMA UnwrittenStays ==
    ASSUME NEW k, Unwritten(k), call'[k] = call[k],
           \A x \in records' : x \in records \/ x.kind # "checkout" \/ x.event[1] # k
    PROVE  Unwritten(k)'
BY DEF Unwritten, Phase

(* A write adds one record: if that is a first sight, it is the only one   *)
(* of its checkout, or two hooks raced.                                    *)
LEMMA WriteKeeps ==
    ASSUME Typed, SightInv, NEW k \in Calls, NEW w \in call[k].plan, WriteRecord(k, w)
    PROVE  SightInv'
<1> DEFINE stage == IF call[k].pc = "running" THEN "start" ELSE "done"
           record(base) == CheckoutRecord(Event(k, stage, call[k].at), w, base)
           raced2 == w.seq # None /\ \E r \in Sightings(call[k].turn) : r.root = w.root /\ r.seq # None
<1>1. PICK base \in {NoFingerprint, IF w.seq = None \/ ~disk[w.root].there THEN NoFingerprint ELSE Fingerprint(w.root)} :
        /\ records' = Appended(record(base))
        /\ named' = IF busy /\ call[k].turn = turn /\ ~named[w.root].known THEN [named EXCEPT ![w.root] = base] ELSE named
  BY DEF WriteRecord
<1>2. /\ call' = [call EXCEPT ![k].plan = @ \ {w}]
      /\ raced' = IF busy /\ raced2 THEN raced \union {w.root} ELSE raced
      /\ UNCHANGED <<turn, busy>>
  BY DEF WriteRecord
<1> DEFINE new == record(base)
<1>3. /\ RecordOK(new) /\ new.kind = "checkout" /\ new.turn = call[k].turn /\ new.event = <<k, Phase(k)>>
      /\ new.root = w.root /\ new.seq = w.seq /\ new.baseline = base
  <2>1. call[k].turn <= turn /\ stage = Phase(k)
    BY DEF SightInv, Phase
  <2>2. Writes(new, k, stage, w, base)
    BY <2>1, CheckoutRecordIs
  <2> HIDE DEF stage, new
  <2>q. QED BY <2>1, <2>2 DEF Writes
<1>4. w.root \in Checkouts
  BY DEF Typed, Hook, Write
<1>5. base.known => w.seq # None
  BY DEF NoFingerprint
<1> HIDE DEF record, new
<1>6. records' = records \union {new}
  <2>1. records' = Appended(new)
    BY <1>1 DEF new
  <2>2. \A r \in records : ~(r.kind = new.kind /\ r.turn = new.turn /\ r.event = new.event /\ r.root = new.root)
    BY <1>3 DEF SightInv, Unwritten
  <2>q. QED BY <2>1, <2>2 DEF Appended
<1>7. /\ call'[k].plan = call[k].plan \ {w} /\ call'[k].pc = call[k].pc /\ call'[k].turn = call[k].turn
      /\ call'[k].cwd = call[k].cwd
      /\ \A j \in Calls \ {k} : call'[j] = call[j]
  BY <1>2 DEF Typed, Hook
<1>8. Unwritten(k)'
  BY <1>3, <1>6, <1>7 DEF SightInv, Unwritten, Phase
<1>9. \A j \in Calls \ {k} : Unwritten(j)'
  BY <1>3, <1>6, <1>7, UnwrittenStays DEF SightInv
<1>10. ASSUME busy, NEW d \in Checkouts, Told(d)
       PROVE  Told(d)'
  <2>1. CASE d # w.root \/ call[k].turn # turn
    <3>1. named'[d] = named[d]
      BY <1>1, <1>4, <2>1 DEF Typed
    <3>2. d \in raced => d \in raced'
      BY <1>2
    <3>3. \A x : x.root = d => (x \in Own' <=> x \in Own)
      BY <1>2, <1>3, <1>6, <2>1 DEF Own
    <3>q. QED BY <1>10, <3>1, <3>2, <3>3, ToldStays
  <2>2. CASE d = w.root /\ call[k].turn = turn
    <3>1. Own' = Own \union {new}
      BY <1>2, <1>3, <1>6, <2>2 DEF Own
    <3>2. named'[d].known => \E r \in Own' : r.root = d /\ r.seq # None /\ r.baseline = named'[d]
      <4>1. CASE named[d].known
        BY <1>1, <1>10, <2>2, <3>1, <4>1 DEF Told
      <4>2. CASE ~named[d].known
        <5>1. named'[d] = base
          BY <1>1, <1>4, <1>10, <2>2, <4>2 DEF Typed
        <5>q. QED BY <1>3, <1>5, <2>2, <3>1, <5>1
      <4>q. QED BY <4>1, <4>2
    <3>3. ASSUME d \notin raced', NEW r \in Own', NEW s \in Own', r.root = d, s.root = d, r.seq # None, s.seq # None
          PROVE  r = s
      <4>1. d \notin raced /\ ~raced2
        BY <1>2, <1>10, <2>2, <3>3
      <4>2. CASE w.seq = None
        <5>1. r \in Own /\ s \in Own
          BY <1>3, <3>1, <3>3, <4>2
        <5>q. QED BY <5>1, <3>3, <4>1, <1>10 DEF Told
      <4>3. CASE w.seq # None
        <5>1. \A x \in Own : ~(x.root = d /\ x.seq # None)
          BY <4>1, <4>3, <2>2 DEF Own, Sightings, Typed, RecordOK
        <5>q. QED BY <5>1, <3>1, <3>3
      <4>q. QED BY <4>2, <4>3
    <3>q. QED BY <3>2, <3>3 DEF Told
  <2>q. QED BY <2>1, <2>2
<1>11. ~busy => named' = Unnamed
  BY <1>1 DEF SightInv
<1>q. QED BY <1>2, <1>7, <1>8, <1>9, <1>10, <1>11 DEF SightInv

(* The first sights are kept in step by every step.                        *)
LEMMA SightNext == Typed /\ SightInv /\ [Next]_vars => SightInv'
<1> SUFFICES ASSUME Typed, SightInv, [Next]_vars
             PROVE  SightInv'
  OBVIOUS
<1> USE DEF hooks, files
<1>1. ASSUME UNCHANGED <<records, turn, busy, call, named, raced>>
      PROVE  SightInv'
  BY <1>1 DEF SightInv, Told, Unwritten, Phase, Own
<1>2. CASE Prompt
  <2>1. /\ ~busy /\ busy' /\ turn' = turn + 1 /\ records' = Appended(PromptRecord)
        /\ UNCHANGED <<call, named>>
    BY <1>2 DEF Prompt
  <2>2. PromptRecord.kind = "prompt" /\ PromptRecord.seq = None
    BY DEF PromptRecord
  <2>3. \A x \in records' : x \in records \/ x = PromptRecord
    BY <2>1 DEF Appended
  <2>4. \A x \in Own' : x.seq = None
    BY <2>1, <2>2, <2>3 DEF Own, Typed, RecordOK
  <2>5. \A c \in Checkouts : Told(c)'
    BY <2>1, <2>4 DEF Told, SightInv, Unnamed, NoFingerprint
  <2>6. \A k \in Calls : Unwritten(k)'
    BY <2>1, <2>2, <2>3, UnwrittenStays DEF SightInv
  <2>7. \A k \in Calls : call'[k].turn <= turn'
    BY <2>1, HookIs DEF SightInv, Typed
  <2>q. QED BY <2>1, <2>5, <2>6, <2>7 DEF SightInv
<1>3. ASSUME NEW c \in Calls, NEW origin, StartHook(c, origin)
      PROVE  SightInv'
  <2> DEFINE event == [turn |-> turn, at |-> clock', id |-> <<c, "start">>]
             plan == Plan(c, origin, cwd, event, TRUE)
  <2>1. /\ call' = [call EXCEPT ![c] = [pc |-> "running", turn |-> turn, at |-> clock', cwd |-> cwd, plan |-> plan]]
        /\ UNCHANGED <<records, turn, busy, named, raced>>
    BY <1>3 DEF StartHook
  <2>2. /\ \A w, x \in plan : x.root = w.root => x = w
        /\ \A w \in plan : \A r \in Sightings(turn) : ~(r.event = <<c, "start">> /\ r.root = w.root)
    BY PlanIs DEF Typed
  <2> HIDE DEF plan
  <2>3. /\ call'[c].pc = "running" /\ call'[c].turn = turn /\ call'[c].plan = plan
        /\ \A k \in Calls \ {c} : call'[k] = call[k]
    BY <2>1 DEF Typed
  <2>4. Unwritten(c)'
    BY <2>1, <2>2, <2>3 DEF Unwritten, Phase, Sightings
  <2>5. \A k \in Calls \ {c} : Unwritten(k)'
    BY <2>1, <2>3, UnwrittenStays DEF SightInv
  <2>6. \A d \in Checkouts : Told(d)' <=> Told(d)
    BY <2>1 DEF Told, Own
  <2>q. QED BY <2>1, <2>3, <2>4, <2>5, <2>6 DEF SightInv, Typed
<1>recorded. ASSUME NEW c \in Calls, NEW r, r.kind = "tool", r.seq = None, records' = Appended(r),
                    call' = [call EXCEPT ![c] = [Idle EXCEPT !.pc = "over"]],
                    UNCHANGED <<turn, busy, named, raced>>
             PROVE  SightInv'
  <2>1. /\ call'[c].plan = {} /\ call'[c].turn = 0 /\ call'[c].pc = "over"
        /\ \A k \in Calls \ {c} : call'[k] = call[k]
    BY <1>recorded DEF Typed, Idle
  <2>2. /\ \A x \in Own' : x.seq # None => x \in Own
        /\ \A x \in Own : x.seq # None => x \in Own'
        /\ \A x \in records' : x.kind = "checkout" => x \in records
    BY <1>recorded, OtherKindAppended DEF Typed
  <2>3. \A d \in Checkouts : Told(d) => Told(d)'
    BY <1>recorded, <2>2, ToldStays
  <2>4. Unwritten(c)'
    BY <2>1 DEF Unwritten
  <2>5. \A k \in Calls \ {c} : Unwritten(k)'
    BY <2>1, <2>2, UnwrittenStays DEF SightInv
  <2>q. QED BY <1>recorded, <2>1, <2>3, <2>4, <2>5 DEF SightInv, Typed
<1>4. ASSUME NEW c \in Calls, NEW origin, DoneHook(c, origin)
      PROVE  SightInv'
  <2> DEFINE plan == Plan(c, origin, cwd, Event(c, "done", clock'), FALSE)
  <2>1. /\ UNCHANGED <<turn, busy, named, raced>> /\ call[c].turn = turn
        /\ \/ Recorded(c, cwd, clock')
           \/ /\ call' = [call EXCEPT ![c] = [@ EXCEPT !.pc = "ending", !.at = clock', !.cwd = cwd, !.plan = plan]]
              /\ records' = records
    BY <1>4 DEF DoneHook
  <2>2. CASE Recorded(c, cwd, clock')
    <3> DEFINE r == ToolRecord(Event(c, "done", clock'), c, cwd)
    <3>1. r.kind = "tool" /\ r.seq = None
      BY DEF ToolRecord
    <3> HIDE DEF r
    <3>2. records' = Appended(r) /\ call' = [call EXCEPT ![c] = [Idle EXCEPT !.pc = "over"]]
      BY <2>2 DEF Recorded, r
    <3>q. QED BY <2>1, <3>1, <3>2, <1>recorded
  <2>3. ASSUME call' = [call EXCEPT ![c] = [@ EXCEPT !.pc = "ending", !.at = clock', !.cwd = cwd, !.plan = plan]],
               records' = records
        PROVE  SightInv'
    <3>1. /\ \A w, x \in plan : x.root = w.root => x = w
          /\ \A w \in plan : \A r \in Sightings(call[c].turn) : ~(r.event = <<c, "done">> /\ r.root = w.root)
      BY PlanIs DEF Typed, Event
    <3> HIDE DEF plan
    <3>2. /\ call'[c].pc = "ending" /\ call'[c].turn = call[c].turn /\ call'[c].plan = plan /\ call'[c].cwd = cwd
          /\ \A k \in Calls \ {c} : call'[k] = call[k]
      BY <2>3 DEF Typed, Hook
    <3>3. Unwritten(c)'
      BY <2>3, <3>1, <3>2 DEF Unwritten, Phase, Sightings
    <3>4. \A k \in Calls \ {c} : Unwritten(k)'
      BY <2>3, <3>2, UnwrittenStays DEF SightInv
    <3>5. \A d \in Checkouts : Told(d)' <=> Told(d)
      BY <2>1, <2>3 DEF Told, Own
    <3>q. QED BY <2>1, <3>2, <3>3, <3>4, <3>5 DEF SightInv, Typed
  <2>q. QED BY <2>1, <2>2, <2>3
<1>5. ASSUME NEW c \in Calls, Ended(c)
      PROVE  SightInv'
  <2> DEFINE r == ToolRecord(Event(c, "done", call[c].at), c, call[c].cwd)
  <2>1. r.kind = "tool" /\ r.seq = None
    BY DEF ToolRecord
  <2> HIDE DEF r
  <2>2. /\ records' = Appended(r) /\ call' = [call EXCEPT ![c] = [Idle EXCEPT !.pc = "over"]]
        /\ UNCHANGED <<turn, busy, named, raced>>
    BY <1>5 DEF Ended, Recorded, r
  <2>q. QED BY <2>1, <2>2, <1>recorded
<1>7. ASSUME StopForgetting \/ StopDegraded \/ \E origin, slow : Stop(origin, slow)
      PROVE  SightInv'
  <2>1. /\ records' \subseteq records /\ named' = Unnamed /\ busy' = FALSE
        /\ UNCHANGED <<turn, call>>
    BY <1>7, CloseClears
  <2>2. \A k \in Calls : Unwritten(k)'
    BY <2>1, UnwrittenStays DEF SightInv
  <2>q. QED BY <2>1, <2>2 DEF SightInv, Unnamed
<1>8. CASE SessionEnd
  <2>1. records' = {} /\ ~busy /\ UNCHANGED <<turn, busy, call, named>>
    BY <1>8 DEF SessionEnd
  <2>2. \A k \in Calls : Unwritten(k)'
    BY <2>1, UnwrittenStays DEF SightInv
  <2>q. QED BY <2>1, <2>2 DEF SightInv, Unnamed
<1>6. ASSUME NEW c \in Calls, NEW w \in call[c].plan, WriteRecord(c, w)
      PROVE  SightInv'
  BY <1>6, WriteKeeps
<1>9. CASE StartHookKilled
  BY <1>1, <1>9 DEF StartHookKilled
<1>q. QED
  BY <1>1, <1>2, <1>3, <1>4, <1>5, <1>6, <1>7, <1>8, <1>9, WorldStays DEF Next

(* A session begins with both.                                             *)
LEMMA BeginsTyped == Init => Typed /\ SightInv
<1>1. Init => Typed
  BY OverIs, PipelineAssumption DEF Init, Typed, Unnamed
<1>2. Init => SightInv
  BY DEF Init, SightInv, Unwritten, Idle
<1>q. QED BY <1>1, <1>2

(* ChangeIsReported: what a turn changed, in a checkout whose first sight  *)
(* it recorded once, its close reports as a change.                        *)
THEOREM ReportsTheChange == Spec => ChangeIsReported
<1> DEFINE Asked == /\ Closes /\ Healthy /\ faults' = faults /\ EffectivePolicy(FolderRoot(cwd)).git
                    /\ Cardinality(FirstSeen) <= MaxCheckouts
                    /\ \E c \in Checkouts \ raced : Differs(c) /\ AdmittedFor(c, Origin(cwd), cwd)
<1>1. ASSUME Typed, SightInv, [Next]_vars, Asked
      PROVE  report'.evidence = "changed"
  <2>1. PICK c \in Checkouts \ raced : Differs(c) /\ AdmittedFor(c, Origin(cwd), cwd)
    BY <1>1
  <2>2. PICK origin, slow : Stop(origin, slow)
    <3>1. ~StopForgetting /\ ~StopDegraded
      BY <1>1 DEF StopForgetting, StopDegraded, Fails, Typed
    <3>2. ~Prompt /\ busy' # busy
      BY <1>1 DEF Prompt, Closes
    <3>q. QED BY <1>1, <3>1, <3>2, OnlyClosesReport
  <2>4. slow = {} /\ origin = Origin(cwd)
    <3>1. ~Fails
      BY <1>1 DEF Fails, Typed
    <3>q. QED BY <2>2, <3>1 DEF Stop, RememberStartSafely, LoseStart
  <2> DEFINE r == ResolveWorkCheckout(Own, Origin(cwd), cwd, {})
  <2>5. report' = IF Own = {} THEN NoReport ELSE Gated(r)
    BY <2>2, <2>4 DEF Stop
  <2>6. Admits(Origin(cwd), cwd, c)
    BY <2>1 DEF AdmittedFor, Admits
  <2>7. \A x \in Own : RecordOK(x)
    BY <1>1 DEF Typed, Own
  <2>8. /\ named[c].known /\ disk[c].there /\ disk[c].head # EmptyTree
        /\ named[c].dirty # disk[c].dirty \/ named[c].head # disk[c].head
    BY <2>1 DEF Differs
  <2>9. Told(c)
    BY <1>1, <2>1 DEF SightInv, Closes
  <2>10. PICK s \in Own : s.root = c /\ s.seq # None /\ s.baseline = named[c]
    BY <2>8, <2>9 DEF Told
  <2>11. \A x \in Own : x.root = c /\ x.seq # None => x = s
    BY <2>1, <2>9, <2>10 DEF Told
  <2>12. Baseline(Own, c) = named[c]
    <3>1. Lowers(Own, c) = {s}
      BY <2>1, <2>7, <2>10, <2>11, OneLower
    <3>2. {x \in Lowers(Own, c) : x.baseline.known} = {s}
      BY <2>8, <2>10, <3>1
    <3>3. s.at <= s.at
      BY <2>7 DEF RecordOK
    <3>4. (CHOOSE x \in {s} : \A y \in {s} : y.at <= x.at) = s
      BY <3>3
    <3>q. QED BY <2>10, <3>2, <3>4 DEF Baseline
  <2>13. c \in CandidatesOf(Own, Origin(cwd), cwd)
    <3>1. Cardinality(Sighted(Own)) <= MaxCheckouts
      BY <1>1 DEF Sighted, FirstSeen
    <3>q. QED BY <2>1, <2>6, <2>7, <2>10, <2>11, <3>1, CandidateSeen
  <2>14. LET x == Weighed(Own, c, Baseline(Own, c), {}) IN x.probe.closing.known /\ x.change > 0
    BY <2>1, <2>7, <2>8, <2>12, DifferenceWeighs
  <2>15. r.evidence \in {"changed", None}
    BY <1>1, <2>1, <2>7, <2>13, <2>14, ChangeWins, CandidatesAre
  <2>16. DOMAIN r = DOMAIN NoReport
    BY ResolvedFields
  <2> HIDE DEF r
  <2>17. report' = Gated(r)
    BY <1>1, <2>5 DEF NoReport, Healthy
  <2>q. QED BY <1>1, <2>15, <2>16, <2>17, GatedNames DEF Healthy
<1>2. Init => Typed /\ SightInv
  BY BeginsTyped
<1>4. Typed /\ SightInv /\ [Next]_vars => [Asked => report'.evidence = "changed"]_vars
  BY <1>1
<1>5. Typed /\ SightInv /\ [Next]_vars => Typed' /\ SightInv'
  BY TypedNext, SightNext
<1>q. QED BY <1>2, <1>4, <1>5, PTL DEF Spec, ChangeIsReported

-----------------------------------------------------------------------------
(* The types. What a fingerprint, a policy and a probe are,                *)
LEMMA PolicyIs ==
    ASSUME TypeOK, NEW c \in Checkouts \union {None}
    PROVE  EffectivePolicy(c) \in Policy
BY CheckoutAssumption DEF TypeOK, Checkout, EffectivePolicy, Policy

LEMMA NoFingerprintIs == NoFingerprint \in Fingerprints
BY DEF NoFingerprint, Fingerprints

LEMMA FingerprintIs ==
    ASSUME TypeOK, NEW c \in Checkouts
    PROVE  Fingerprint(c) \in Fingerprints
<1>1. disk[c] \in Checkout
  BY DEF TypeOK
<1>q. QED BY <1>1 DEF Checkout, Fingerprint, Fingerprints

Probes == [closing : Fingerprints, remote : Hosts \union {None}, commits : BOOLEAN,
           moved : BOOLEAN, vanished : BOOLEAN]

LEMMA ProbeIs ==
    ASSUME TypeOK, NEW c \in Checkouts, NEW base \in Fingerprints, NEW slow
    PROVE  Probe(c, base, slow) \in Probes
<1>1. disk[c] \in Checkout
  BY DEF TypeOK
<1>2. layout.main[c] \in Checkouts
  BY DEF TypeOK, Layout
<1>3. disk[layout.main[c]] \in Checkout
  BY <1>2 DEF TypeOK
<1>4. disk[layout.main[c]].remote \in Hosts \union {None} /\ disk[c].remote \in Hosts \union {None}
  BY <1>1, <1>3 DEF Checkout
<1>5. NoProbe \in Probes
  BY NoFingerprintIs DEF NoProbe, Probes
<1>6. ProbeStanding(c, base, slow) \in Probes
  <2> DEFINE now == Fingerprint(c)
             moved == base.known /\ now.head # EmptyTree /\ base.head # now.head
             remote == IF Answered(c, "remote", slow) THEN disk[c].remote ELSE None
             commits == moved /\ base.tree # now.tree /\ Answered(c, "diff", slow)
  <2>1. /\ now \in Fingerprints
        /\ base.known \in BOOLEAN
    BY FingerprintIs DEF Fingerprints
  <2>2. moved \in BOOLEAN /\ commits \in BOOLEAN /\ remote \in Hosts \union {None}
    BY <1>4, <2>1 DEF Answered
  <2>3. ProbeStanding(c, base, slow) =
          IF ~Answered(c, "head", slow) THEN NoProbe
          ELSE [closing |-> now, moved |-> moved, remote |-> remote, commits |-> commits, vanished |-> FALSE]
    BY DEF ProbeStanding
  <2> HIDE DEF now, moved, remote, commits
  <2>q. QED BY <1>5, <2>1, <2>2, <2>3 DEF Probes
<1>7. ProbeVanished(c, base, slow) \in Probes
  <2> DEFINE shared == disk[layout.main[c]].there
             answers == shared /\ disk[c].branch = "on" /\ disk[c].head # EmptyTree /\ Answered(c, "head", slow)
             moved == answers /\ disk[c].head # base.head
             head == IF base.head = EmptyTree /\ answers THEN disk[c].head ELSE base.head
             closing == [base EXCEPT !.head = head]
  <2>1. shared \in BOOLEAN /\ answers \in BOOLEAN /\ moved \in BOOLEAN
    BY <1>3 DEF Checkout, Answered
  <2>2. head \in Nat
    BY <1>1 DEF Checkout, Fingerprints
  <2> HIDE DEF head
  <2>3. closing \in Fingerprints
    BY <2>2 DEF Fingerprints
  <2> HIDE DEF closing
  <2>4. ProbeVanished(c, base, slow) =
          [closing |-> closing, moved |-> moved,
           remote |-> IF shared /\ Answered(c, "remote", slow) THEN disk[layout.main[c]].remote ELSE None,
           commits |-> moved /\ base.tree # disk[c].tree /\ Answered(c, "diff", slow), vanished |-> TRUE]
    BY DEF ProbeVanished, closing, head
  <2>5. (IF shared /\ Answered(c, "remote", slow) THEN disk[layout.main[c]].remote ELSE None) \in Hosts \union {None}
    BY <1>4
  <2>6. (moved /\ base.tree # disk[c].tree) \in BOOLEAN
    OBVIOUS
  <2> HIDE DEF moved, shared
  <2>q. QED BY <2>1, <2>3, <2>4, <2>5, <2>6 DEF Probes
<1>q. QED BY <1>5, <1>6, <1>7 DEF Probe

(* what a turn's records remember of a checkout,                           *)
LEMMA BaselineIs ==
    ASSUME NEW own \in SUBSET Record, NEW c
    PROVE  Baseline(own, c) \in Fingerprints
<1> DEFINE known == {r \in Lowers(own, c) : r.baseline.known}
<1>1. CASE known = {}
  BY <1>1, NoFingerprintIs DEF Baseline
<1>2. CASE known # {}
  <2>1. ASSUME NEW r \in known
        PROVE  r \in own /\ r.at \in Nat /\ r.seq \in Nat /\ r.baseline \in Fingerprints
    <3>1. r \in own /\ r.seq # None
      BY DEF Lowers, About
    <3>2. r \in Record
      BY <3>1
    <3>q. QED BY <3>1, <3>2, CheckoutAssumption DEF Record
  <2>2. ASSUME NEW r \in known, NEW x \in known, r.at < x.at
        PROVE  x.seq < r.seq
    <3>1. x \in Lowers(own, c) /\ r \in About(own, c) /\ r.seq # None
      BY DEF Lowers
    <3>q. QED BY <2>2, <3>1 DEF Lowers, Earlier
  <2> HIDE DEF known
  <2>3. PICK r \in known : \A x \in known : r.seq <= x.seq
    <3> DEFINE T == {x.seq : x \in known}
    <3>1. T \in SUBSET Nat /\ T # {}
      BY <1>2, <2>1
    <3>2. PICK m \in T : \A n \in T : m <= n
      BY <3>1, Least
    <3>q. QED BY <3>2
  <2>4. \A x \in known : x.at <= r.at
    BY <2>1, <2>2, <2>3
  <2>5. (CHOOSE y \in known : \A x \in known : x.at <= y.at) \in known
    BY <2>4
  <2>6. Baseline(own, c) = (CHOOSE y \in known : \A x \in known : x.at <= y.at).baseline
    BY <1>2 DEF Baseline, known
  <2>q. QED BY <2>1, <2>5, <2>6
<1>q. QED BY <1>1, <1>2

(* and so what a close says of a checkout or a folder.                     *)
Evidence == {"changed", "carried", "referenced", "cwd", None}

Bare == [root : {None}, repository : {None}, branch : {FALSE}, paths : SUBSET Checkouts,
         evidence : {None}, capture : Policy]

Telling == [root : Checkouts, repository : Repository, branch : BOOLEAN, paths : SUBSET Checkouts,
            evidence : Evidence, capture : Policy]

LEMMA ReportsAre == Reports = Telling \union Bare
BY DEF Reports, Telling, Bare, Evidence

LEMMA NoReportIs ==
    /\ NoReport \in Reports
    /\ \A paths \in SUBSET Checkouts, policy \in Policy :
          [NoReport EXCEPT !.paths = paths, !.capture = policy] \in Reports
<1>1. NoReport \in Bare
  BY DEF NoReport, Bare, Policy
<1>2. ASSUME NEW paths \in SUBSET Checkouts, NEW policy \in Policy
      PROVE  [NoReport EXCEPT !.paths = paths, !.capture = policy] \in Bare
  BY DEF NoReport, Bare
<1>q. QED BY <1>1, <1>2, ReportsAre

LEMMA IdentityIs ==
    ASSUME NEW c \in Checkouts, NEW remote \in Hosts \union {None}
    PROVE  RepositoryIdentity(c, remote) \in Repository
BY DEF RepositoryIdentity, Repository

LEMMA ReportPolicyIs ==
    ASSUME TypeOK, NEW c \in Checkouts, NEW p, NEW slow
    PROVE  ReportPolicy(c, p, slow) \in Policy
<1>1. layout.main[c] \in Checkouts /\ disk[c] \in Checkout
  BY DEF TypeOK, Layout
<1>2. CheckoutRootOf(layout.main[c]) \in Checkouts \union {None}
  BY <1>1, CheckoutAssumption DEF TypeOK, Layout, CheckoutRootOf
<1> DEFINE loaded == EffectivePolicy(CheckoutRootOf(layout.main[c]))
<1>3. loaded \in Policy
  BY <1>2, PolicyIs
<1>4. disk[c].policy \in Policy
  BY <1>1 DEF Checkout
<1> HIDE DEF loaded
<1>5. NarrowedByBranch(loaded, c, slow) \in Policy
  BY <1>3, <1>4 DEF NarrowedByBranch, Policy
<1>q. QED BY <1>5, PolicyIs DEF ReportPolicy, loaded

LEMMA ReportIs ==
    ASSUME TypeOK, NEW own, NEW c \in Checkouts, NEW e \in Evidence, NEW p \in Probes, NEW slow
    PROVE  ReportCheckout(own, c, e, p, slow) \in Reports
<1> DEFINE policy == ReportPolicy(c, p, slow)
           paths == IF policy.files THEN PathsIn(own, c) ELSE {}
<1>1. policy \in Policy
  BY ReportPolicyIs
<1>2. paths \in SUBSET Checkouts
  BY DEF PathsIn
<1>3. RepositoryIdentity(c, p.remote) \in Repository
  BY IdentityIs DEF Probes
<1>4. p.closing.attached \in BOOLEAN
  BY DEF Probes, Fingerprints
<1>5. ReportCheckout(own, c, e, p, slow) =
        IF ~policy.git THEN [NoReport EXCEPT !.paths = paths, !.capture = policy]
        ELSE [root |-> c, repository |-> RepositoryIdentity(c, p.remote),
              branch |-> p.closing.attached, paths |-> paths, evidence |-> e, capture |-> policy]
  BY DEF ReportCheckout
<1> HIDE DEF policy, paths
<1>6. CASE policy.git
  <2> DEFINE repository == RepositoryIdentity(c, p.remote)
             branch == p.closing.attached
  <2>1. repository \in Repository /\ branch \in BOOLEAN
    BY <1>3, <1>4
  <2>2. ReportCheckout(own, c, e, p, slow) = [root |-> c, repository |-> repository, branch |-> branch,
                                        paths |-> paths, evidence |-> e, capture |-> policy]
    BY <1>5, <1>6
  <2> HIDE DEF repository, branch
  <2>3. ReportCheckout(own, c, e, p, slow) \in Telling
    BY <1>1, <1>2, <2>1, <2>2 DEF Telling
  <2>q. QED BY <2>3, ReportsAre
<1>7. CASE ~policy.git
  BY <1>1, <1>2, <1>5, <1>7, NoReportIs
<1>q. QED BY <1>6, <1>7

LEMMA FolderReportIs ==
    ASSUME TypeOK, NEW own, NEW origin, NEW sitting, FolderRoot(sitting) \in Checkouts \union {None}
    PROVE  StopGit(sitting) \in Reports /\ ReportFolder(own, origin, sitting) \in Reports
<1> DEFINE c == FolderRoot(sitting)
<1>0. NoReport \in Reports
  BY NoReportIs
<1>1. CASE c = None
  BY <1>0, <1>1 DEF StopGit, ReportFolder
<1>2. CASE c \in Checkouts
  <2>1. disk[c] \in Checkout
    BY <1>2 DEF TypeOK
  <2>2. RepositoryIdentity(c, disk[c].remote) \in Repository
    BY <1>2, <2>1, IdentityIs DEF Checkout
  <2>3. EffectivePolicy(c) \in Policy
    BY PolicyIs
  <2>4. StopGit(sitting) \in Reports
    BY <1>0, <1>2, <2>2, <2>3 DEF StopGit, Reports
  <2> DEFINE paths == IF EffectivePolicy(c).files THEN PathsIn(own, c) ELSE {}
  <2>5. paths \in SUBSET Checkouts
    BY <1>2 DEF PathsIn
  <2>6. ReportFolder(own, origin, sitting) = IF c = None \/ ~Admits(origin, sitting, c) THEN NoReport
                                     ELSE [StopGit(sitting) EXCEPT !.paths = paths]
    BY DEF ReportFolder
  <2> HIDE DEF paths
  <2>7. [StopGit(sitting) EXCEPT !.paths = paths] \in Reports
    BY <2>4, <2>5 DEF Reports
  <2>q. QED BY <1>0, <2>4, <2>6, <2>7
<1>q. QED BY <1>1, <1>2

LEMMA GatedIs ==
    ASSUME NEW r \in Reports
    PROVE  Gated(r) \in Reports
<1> DEFINE kept == IF r.capture.git THEN r ELSE [NoReport EXCEPT !.paths = r.paths, !.capture = r.capture]
           paths == IF r.capture.files THEN kept.paths ELSE {}
<1>1. r.paths \in SUBSET Checkouts /\ r.capture \in Policy
  BY DEF Reports
<1>2. kept \in Reports
  BY <1>1, NoReportIs
<1>3. Gated(r) = [kept EXCEPT !.paths = paths]
  BY DEF Gated
<1> HIDE DEF kept
<1>4. paths \in SUBSET Checkouts
  BY <1>2 DEF Reports
<1> HIDE DEF paths
<1>5. kept \in Telling => [kept EXCEPT !.paths = paths] \in Telling
  BY <1>4 DEF Telling
<1>6. kept \in Bare => [kept EXCEPT !.paths = paths] \in Bare
  BY <1>4 DEF Bare
<1>q. QED BY <1>2, <1>3, <1>5, <1>6, ReportsAre

(* What a close reports is a report, whatever wins.                        *)
LEMMA ResolvedIs ==
    ASSUME TypeOK, NEW own \in SUBSET Record, NEW origin, NEW sitting, NEW slow, FolderRoot(sitting) \in Checkouts \union {None},
           CandidatesOf(own, origin, sitting) \subseteq Checkouts
    PROVE  ResolveWorkCheckout(own, origin, sitting, slow) \in Reports
<1> DEFINE r == ResolveWorkCheckout(own, origin, sitting, slow)
<1>1. NoReport \in Reports /\ ReportFolder(own, origin, sitting) \in Reports
  BY NoReportIs, FolderReportIs
<1>2. ASSUME NEW c \in CandidatesOf(own, origin, sitting), NEW e \in {"changed", "referenced"},
             r = ReportCheckout(own, c, e, Probe(c, Baseline(own, c), slow), slow)
      PROVE  r \in Reports
  <2>1. c \in Checkouts /\ e \in Evidence
    BY DEF Evidence
  <2>2. Baseline(own, c) \in Fingerprints
    BY BaselineIs
  <2>3. Probe(c, Baseline(own, c), slow) \in Probes
    BY <2>1, <2>2, ProbeIs
  <2>q. QED BY <1>2, <2>1, <2>3, ReportIs
<1>3. ASSUME memo # None, NEW base \in {NoFingerprint, Baseline(own, memo.root)},
             r = ReportCheckout(own, memo.root, "carried", Probe(memo.root, base, slow), slow)
      PROVE  r \in Reports
  <2>1. memo.root \in Checkouts /\ "carried" \in Evidence
    BY <1>3 DEF TypeOK, Named, Evidence
  <2>2. base \in Fingerprints
    BY BaselineIs, NoFingerprintIs
  <2>3. Probe(memo.root, base, slow) \in Probes
    BY <2>1, <2>2, ProbeIs
  <2>q. QED BY <1>3, <2>1, <2>3, ReportIs
<1> HIDE DEF r
<1>4. \/ r = NoReport
      \/ r = ReportFolder(own, origin, sitting)
      \/ \E c \in CandidatesOf(own, origin, sitting), e \in {"changed", "referenced"} :
            r = ReportCheckout(own, c, e, Probe(c, Baseline(own, c), slow), slow)
      \/ /\ memo # None
         /\ \E base \in {NoFingerprint, Baseline(own, memo.root)} :
              r = ReportCheckout(own, memo.root, "carried", Probe(memo.root, base, slow), slow)
  BY Resolved DEF r
<1>q. QED BY <1>1, <1>2, <1>3, <1>4 DEF r

-----------------------------------------------------------------------------
(* The parts of TypeOK that the sights do not already keep.                *)
FilesOK == /\ disk \in [Checkouts -> Checkout]
           /\ start \in Folders \union {None, "torn"} /\ began \in Folders \union {None, "lost"}
           /\ memo \in Named \union {None} /\ records \in SUBSET Record

OutcomeOK == /\ asked \in Named \union {NoQuestion} /\ report \in Reports
             /\ shot \in Checkouts \union {None}
             /\ closedIn \in [start : Folders \union {"lost"}, cwd : Folders, unread : SUBSET Checkouts] \union {None}

SeenOK == /\ busy \in BOOLEAN /\ named \in [Checkouts -> Fingerprints] /\ raced \in SUBSET Checkouts
          /\ changed \in SUBSET (Checkouts \X Repository)

Bounded == world \in Nat /\ faults \in Nat /\ world + faults <= MaxMishaps

LEMMA PartsAre ==
    /\ TypeOK => FilesOK /\ OutcomeOK /\ SeenOK /\ Bounded
    /\ Typed /\ FilesOK /\ OutcomeOK /\ SeenOK /\ Bounded => TypeOK
BY DEF TypeOK, Typed, FilesOK, OutcomeOK, SeenOK, Bounded

(* A failure and a change of the world are counted before the bound.       *)
LEMMA BoundedIs ==
    ASSUME Bounded, \/ (Works \/ Fails) /\ world' = world
                    \/ Moves /\ faults' = faults
    PROVE  Bounded'
BY PipelineAssumption DEF Bounded, Works, Fails, Moves

(* What happens to a checkout makes a checkout of it.                      *)
LEMMA WorldIs ==
    ASSUME TypeOK,
           NEW c \in Worked, \/ Touch(c) \/ Commit(c) \/ Amend(c) \/ Detach(c)
                             \/ AddWorktree(c) \/ RemoveWorktree(c) \/ DeleteBranch(c)
                             \/ \E remote \in Remotes : Reclone(c, remote)
    PROVE  \E state \in Checkout : World(c, state)
<1>0. c \in Checkouts /\ disk[c] \in Checkout
  BY PipelineAssumption DEF TypeOK
<1> DEFINE was == disk[c]
<1>1. was \in Checkout /\ was.dirty \in Nat /\ was.head \in Nat /\ was.tree \in Nat
  BY <1>0 DEF Checkout
<1>2. CASE Touch(c)
  <2>1. [was EXCEPT !.dirty = was.dirty + 1] \in Checkout
    BY <1>1 DEF Checkout
  <2>q. QED BY <1>2, <2>1 DEF Touch
<1>3. CASE Commit(c)
  <2>1. \A h, t \in Nat : [was EXCEPT !.head = h, !.tree = t, !.dirty = 0] \in Checkout
    BY <1>1 DEF Checkout
  <2>2. was.head + 1 \in Nat /\ was.tree + 1 \in Nat
    BY <1>1
  <2>3. [was EXCEPT !.head = was.head + 1, !.tree = was.tree + 1, !.dirty = 0] \in Checkout
    BY <2>1, <2>2
  <2>q. QED BY <1>3, <2>3 DEF Commit
<1>4. CASE Amend(c)
  <2>1. [was EXCEPT !.head = @ + 1] \in Checkout
    BY <1>1 DEF Checkout
  <2>q. QED BY <1>4, <2>1 DEF Amend
<1>5. CASE Detach(c) \/ DeleteBranch(c)
  <2>1. [was EXCEPT !.branch = "off"] \in Checkout
    BY <1>1 DEF Checkout
  <2>q. QED BY <1>5, <2>1 DEF Detach, DeleteBranch
<1>6. CASE AddWorktree(c) \/ RemoveWorktree(c)
  <2>1. [was EXCEPT !.there = TRUE] \in Checkout /\ [was EXCEPT !.there = FALSE] \in Checkout
    BY <1>1 DEF Checkout
  <2>q. QED BY <1>6, <2>1 DEF AddWorktree, RemoveWorktree
<1>7. ASSUME NEW remote \in Remotes, Reclone(c, remote)
      PROVE  \E state \in Checkout : World(c, state)
  <2>1. remote \in Hosts \union {None}
    BY DEF Hosts
  <2>2. [was EXCEPT !.remote = remote] \in Checkout
    BY <1>1, <2>1 DEF Checkout
  <2>q. QED BY <1>7, <2>2 DEF Reclone
<1>q. QED BY <1>2, <1>3, <1>4, <1>5, <1>6, <1>7

(* The gate asks about a checkout and its repository, or about neither.    *)
LEMMA QuestionIs ==
    ASSUME TypeOK, Typed
    PROVE  GateCheckout \in Named \union {NoQuestion}
<1>1. ASSUME NEW c, NEW repository, c = None \/ c \in Checkouts, repository = None \/ repository \in Repository
      PROVE  ReadGateCheckout(c, repository) \in Named \union {NoQuestion}
  BY <1>1 DEF ReadGateCheckout, Named
<1>2. LastWorkCheckout # None => LastWorkCheckout.root \in Checkouts /\ LastWorkCheckout.repository \in Repository
  BY DEF LastWorkCheckout, TypeOK, Named
<1> DEFINE folder == FolderRoot(cwd)
           hosted == IF folder = None THEN None ELSE disk[folder].remote
           carried == IF LastWorkCheckout = None THEN NoQuestion
                      ELSE ReadGateCheckout(LastWorkCheckout.root, LastWorkCheckout.repository)
<1>3. carried \in Named \union {NoQuestion}
  BY <1>1, <1>2
<1>4. folder = None \/ folder \in Checkouts
  BY RootIs DEF Typed
<1>5. hosted = None \/ hosted \in Repository
  BY <1>4 DEF TypeOK, Checkout, Repository
<1>6. ReadGateCheckout(folder, hosted) \in Named \union {NoQuestion}
  BY <1>1, <1>4, <1>5
<1>7. GateCheckout = IF carried # NoQuestion THEN carried ELSE ReadGateCheckout(folder, hosted)
  BY DEF GateCheckout
<1> HIDE DEF carried, folder, hosted
<1>q. QED BY <1>3, <1>6, <1>7

(* The records a hook writes.                                              *)
LEMMA GrownIs ==
    ASSUME records \in SUBSET Record, NEW r \in Record
    PROVE  Appended(r) \in SUBSET Record
BY DEF Appended

LEMMA PromptRecordIs ==
    ASSUME turn' \in 1..MaxTurns, clock' \in Nat
    PROVE  PromptRecord \in Record
BY NoFingerprintIs DEF PromptRecord, Record

LEMMA ToolRecordTyped ==
    ASSUME Typed, NEW k \in Calls, NEW at \in Nat, NEW sitting \in Folders, call[k].pc \in {"running", "ending"}
    PROVE  ToolRecord(Event(k, "done", at), k, sitting) \in Record
<1>1. call[k].turn \in 1..MaxTurns
  BY HookIs
<1>2. FileRoot(k, sitting) \in Checkouts \union {None}
  BY RootIs
<1>3. k.access \in {"read", "edit", None}
  BY PipelineAssumption
<1> DEFINE root == FileRoot(k, sitting)
           access == IF root = None THEN None ELSE k.access
           owner == call[k].turn
           id == <<k, "done">>
<1>4. access \in {"read", "edit", None} /\ id \in Calls \X {"start", "done"}
  BY <1>3
<1>5. ToolRecord(Event(k, "done", at), k, sitting) =
        [kind |-> "tool", turn |-> owner, at |-> at, event |-> id,
         root |-> root, via |-> None, named |-> FALSE, seq |-> None,
         baseline |-> NoFingerprint, access |-> access]
  BY DEF ToolRecord, Event
<1>6. root \in Checkouts \union {None} /\ owner \in 1..MaxTurns
  BY <1>1, <1>2
<1>7. /\ "tool" \in {"prompt", "checkout", "tool"} /\ None \in {"shell", "file", "cwd", None}
      /\ None \in {None} \union 0..(MaxCheckouts - 1) /\ FALSE \in BOOLEAN
      /\ id \in (Calls \X {"start", "done"}) \union {None}
  BY <1>4
<1> HIDE DEF root, access, owner, id
<1>8. \A via \in {"shell", "file", "cwd", None}, seq \in {None} \union 0..(MaxCheckouts - 1), base \in Fingerprints :
        [kind |-> "tool", turn |-> owner, at |-> at, event |-> id,
         root |-> root, via |-> via, named |-> FALSE, seq |-> seq, baseline |-> base, access |-> access] \in Record
  BY <1>4, <1>6, <1>7 DEF Record
<1>q. QED BY <1>5, <1>7, <1>8, NoFingerprintIs

LEMMA CheckoutRecordTyped ==
    ASSUME Typed, NEW k \in Calls, NEW phase \in {"start", "done"}, NEW w \in call[k].plan, NEW base \in Fingerprints
    PROVE  CheckoutRecord(Event(k, phase, call[k].at), w, base) \in Record
<1>1. w \in Write /\ call[k].turn \in 1..MaxTurns /\ call[k].at \in Nat
  BY HookIs
<1> DEFINE owner == call[k].turn
           at == call[k].at
           id == <<k, phase>>
<1>2. owner \in 1..MaxTurns /\ at \in Nat /\ id \in Calls \X {"start", "done"}
  BY <1>1
<1>3. /\ w.root \in Checkouts /\ w.via \in {"shell", "file", "cwd"} /\ w.named \in BOOLEAN
      /\ w.seq \in {None} \union 0..(MaxCheckouts - 1)
  BY <1>1 DEF Write
<1>4. CheckoutRecord(Event(k, phase, call[k].at), w, base) =
        [kind |-> "checkout", turn |-> owner, at |-> at, event |-> id,
         root |-> w.root, via |-> w.via, named |-> w.named, seq |-> w.seq,
         baseline |-> base, access |-> None]
  BY DEF CheckoutRecord, Event
<1>5. /\ w.root \in Checkouts \union {None} /\ w.via \in {"shell", "file", "cwd", None}
      /\ "checkout" \in {"prompt", "checkout", "tool"} /\ None \in {"read", "edit", None}
      /\ id \in (Calls \X {"start", "done"}) \union {None}
  BY <1>2, <1>3
<1> HIDE DEF owner, at, id
<1>q. QED BY <1>2, <1>3, <1>4, <1>5 DEF Record

(* A write's fingerprint is one, and is what the history may remember.     *)
LEMMA WriteTyped ==
    ASSUME TypeOK, Typed, NEW k \in Calls, NEW w \in call[k].plan, WriteRecord(k, w)
    PROVE  FilesOK' /\ OutcomeOK' /\ SeenOK' /\ Bounded'
<1> DEFINE stage == IF call[k].pc = "running" THEN "start" ELSE "done"
           record(base) == CheckoutRecord(Event(k, stage, call[k].at), w, base)
<1>1. PICK base \in {NoFingerprint, IF w.seq = None \/ ~disk[w.root].there THEN NoFingerprint ELSE Fingerprint(w.root)} :
        /\ records' = Appended(record(base))
        /\ named' = IF busy /\ call[k].turn = turn /\ ~named[w.root].known THEN [named EXCEPT ![w.root] = base] ELSE named
  BY DEF WriteRecord
<1>2. /\ raced' = raced \/ raced' = raced \union {w.root}
      /\ UNCHANGED <<disk, start, began, memo, busy, outcome, changed, world>>
      /\ Works \/ Fails
  BY DEF WriteRecord
<1>3. w.root \in Checkouts
  BY HookIs DEF Write
<1>4. base \in Fingerprints
  BY <1>1, <1>3, NoFingerprintIs, FingerprintIs
<1>5. record(base) \in Record
  BY <1>4, CheckoutRecordTyped
<1> HIDE DEF record
<1>6. records' \in SUBSET Record
  BY <1>1, <1>5, GrownIs DEF TypeOK
<1>7. FilesOK'
  BY <1>2, <1>6, PartsAre DEF FilesOK
<1>8. named' \in [Checkouts -> Fingerprints]
  BY <1>1, <1>4 DEF TypeOK
<1>9. SeenOK'
  BY <1>2, <1>3, <1>8, PartsAre DEF SeenOK
<1>10. OutcomeOK'
  BY <1>2, PartsAre DEF OutcomeOK, outcome
<1>11. Bounded'
  BY <1>2, PartsAre, BoundedIs
<1>q. QED BY <1>7, <1>9, <1>10, <1>11

(* The summary of a close, whatever it becomes.                            *)
LEMMA SummaryIs ==
    ASSUME TypeOK, Typed, NEW origin, NEW slow
    PROVE  LET r == ResolveWorkCheckout(Own, origin, cwd, slow)
           IN  /\ r \in Reports /\ Gated(r) \in Reports
               /\ SnapshotIn(r, r.root) \in Checkouts \union {None}
               /\ r.evidence = "changed" => [root |-> r.root, repository |-> r.repository] \in Named
<1> DEFINE r == ResolveWorkCheckout(Own, origin, cwd, slow)
<1>1. Own \in SUBSET Record /\ \A x \in Own : RecordOK(x)
  BY DEF Own, TypeOK, Typed
<1>2. CandidatesOf(Own, origin, cwd) \subseteq Checkouts
  BY <1>1, CandidatesAre
<1>3. FolderRoot(cwd) \in Checkouts \union {None}
  BY RootIs DEF Typed
<1>4. r \in Reports
  BY <1>1, <1>2, <1>3, ResolvedIs
<1> HIDE DEF r
<1>5. r.root \in Checkouts \union {None}
  BY <1>4, ReportsAre DEF Telling, Bare
<1>6. SnapshotIn(r, r.root) \in Checkouts \union {None}
  BY <1>5 DEF SnapshotIn
<1>7. r.evidence = "changed" => r.root \in Checkouts /\ r.repository \in Repository
  BY <1>4, ReportsAre, CheckoutAssumption DEF Telling, Bare
<1>q. QED BY <1>4, <1>6, <1>7, GatedIs DEF r, Named

(* A hook leaves a start of its type.                                      *)
LEMMA StartIs ==
    ASSUME TypeOK, NEW smooth, RememberStartSafely(smooth)
    PROVE  /\ start' \in Folders \union {None, "torn"}
           /\ began' \in Folders \union {"lost"}
           /\ Works \/ Fails
BY DEF TypeOK, RememberStartSafely, RememberStart, LoseStart

LEMMA ClosedIs ==
    ASSUME TypeOK, NEW known \in Folders \union {"lost"}, NEW unread \in SUBSET Checkouts, Closed(known, unread)
    PROVE  /\ closedIn' \in [start : Folders \union {"lost"}, cwd : Folders, unread : SUBSET Checkouts] \union {None}
           /\ asked' \in Named \union {NoQuestion}
           /\ named' \in [Checkouts -> Fingerprints] /\ raced' \in SUBSET Checkouts
<1>1. cwd \in Folders
  BY DEF TypeOK
<1>q. QED BY <1>1, NoFingerprintIs DEF Closed, Unnamed

(* What a close could not read is of checkouts.                            *)
LEMMA UnreadIs ==
    ASSUME NEW origin, NEW slow \in Silences(origin)
    PROVE  Unread(slow) \in SUBSET Checkouts
<1>1. slow \subseteq Checkouts \X Questions
  BY DEF Silences
<1>q. QED BY <1>1 DEF Unread

(* A close reports a report and leaves files of their types.               *)
LEMMA CloseTyped ==
    ASSUME TypeOK, Typed,
           \/ StopForgetting \/ StopDegraded
           \/ \E origin \in Origins : \E slow \in Silences(origin) : Stop(origin, slow)
    PROVE  FilesOK' /\ OutcomeOK' /\ SeenOK' /\ Bounded'
<1> DEFINE Goal == FilesOK' /\ OutcomeOK' /\ SeenOK' /\ Bounded'
<1>0. ASSUME NEW smooth, RememberStartSafely(smooth),
             NEW known \in {began', "lost"}, NEW unread \in SUBSET Checkouts, Closed(known, unread),
             UNCHANGED <<disk, cwd, world>>, busy' = FALSE,
             records' \subseteq records, report' \in Reports, shot' \in Checkouts \union {None},
             \/ UNCHANGED <<memo, changed>>
             \/ \E m \in Named : memo' \in {m, memo} /\ changed' = changed \union {<<m.root, m.repository>>}
      PROVE  Goal
  <2>1. /\ start' \in Folders \union {None, "torn"} /\ began' \in Folders \union {"lost"}
        /\ Works \/ Fails
    BY <1>0, StartIs
  <2>2. memo' \in Named \union {None}
    BY <1>0 DEF TypeOK
  <2>3. changed' \in SUBSET (Checkouts \X Repository)
    BY <1>0 DEF TypeOK, Named
  <2>4. FilesOK'
    BY <1>0, <2>1, <2>2, PartsAre DEF FilesOK
  <2>8. known \in Folders \union {"lost"}
    BY <2>1
  <2>9. /\ closedIn' \in [start : Folders \union {"lost"}, cwd : Folders, unread : SUBSET Checkouts] \union {None}
        /\ asked' \in Named \union {NoQuestion}
        /\ named' \in [Checkouts -> Fingerprints] /\ raced' \in SUBSET Checkouts
    BY <1>0, <2>8, ClosedIs
  <2>5. OutcomeOK'
    BY <1>0, <2>9 DEF OutcomeOK
  <2>6. SeenOK'
    BY <1>0, <2>3, <2>9 DEF SeenOK
  <2>7. Bounded'
    BY <1>0, <2>1, PartsAre, BoundedIs
  <2>q. QED BY <2>4, <2>5, <2>6, <2>7
<1> HIDE DEF Goal
<1>1. ASSUME NEW origin, NEW slow \in Silences(origin), Stop(origin, slow)
      PROVE  Goal
  <2> DEFINE r == ResolveWorkCheckout(Own, origin, cwd, slow)
             m == [root |-> r.root, repository |-> r.repository]
             known == IF origin = Origin(cwd) THEN began' ELSE "lost"
  <2>1. /\ RememberStartSafely(origin = Origin(cwd) /\ slow = {}) /\ Closed(known, Unread(slow))
        /\ UNCHANGED <<disk, cwd, world>> /\ busy' = FALSE
        /\ records' = records \ Own
        /\ report' = IF Own = {} THEN NoReport ELSE Gated(r)
        /\ shot' = IF Own = {} THEN None ELSE SnapshotIn(r, r.root)
        /\ IF Own # {} /\ r.evidence = "changed"
           THEN memo' = m /\ changed' = changed \union {<<r.root, r.repository>>}
           ELSE UNCHANGED <<memo, changed>>
    BY <1>1 DEF Stop
  <2>2. /\ Gated(r) \in Reports /\ SnapshotIn(r, r.root) \in Checkouts \union {None}
        /\ r.evidence = "changed" => m \in Named
    BY SummaryIs
  <2>3. m.root = r.root /\ m.repository = r.repository
    OBVIOUS
  <2>6. known \in {began', "lost"} /\ Unread(slow) \in SUBSET Checkouts
    BY UnreadIs
  <2> HIDE DEF r, m, known
  <2>4. report' \in Reports /\ shot' \in Checkouts \union {None}
    BY <2>1, <2>2, NoReportIs
  <2>5. \/ UNCHANGED <<memo, changed>>
        \/ \E n \in Named : memo' \in {n, memo} /\ changed' = changed \union {<<n.root, n.repository>>}
    BY <2>1, <2>2, <2>3
  <2>7. records' \subseteq records
    BY <2>1
  <2>q. QED BY <1>0, <2>1, <2>4, <2>5, <2>6, <2>7
<1>2. CASE StopForgetting
  <2> DEFINE r == ResolveWorkCheckout(Own, Origin(cwd), cwd, {})
             m == [root |-> r.root, repository |-> r.repository]
  <2>1. /\ RememberStartSafely(FALSE) /\ Closed(began', {}) /\ UNCHANGED <<disk, cwd, world>> /\ busy' = FALSE
        /\ records' = records \ Own /\ memo' = memo /\ r.evidence = "changed"
        /\ report' = Gated(r) /\ shot' = SnapshotIn(r, r.root)
        /\ changed' = changed \union {<<r.root, r.repository>>}
    BY <1>2 DEF StopForgetting, RememberStartSafely
  <2>2. /\ Gated(r) \in Reports /\ SnapshotIn(r, r.root) \in Checkouts \union {None}
        /\ r.evidence = "changed" => m \in Named
    BY SummaryIs
  <2>3. m.root = r.root /\ m.repository = r.repository
    OBVIOUS
  <2> HIDE DEF r, m
  <2>4. \E n \in Named : memo' \in {n, memo} /\ changed' = changed \union {<<n.root, n.repository>>}
    BY <2>1, <2>2, <2>3
  <2>q. QED BY <1>0, <2>1, <2>2, <2>4 DEF Goal
<1>3. CASE StopDegraded
  <2> DEFINE folder == [StopGit(cwd) EXCEPT !.evidence = None]
  <2>1. /\ RememberStartSafely(FALSE) /\ Closed(began', {}) /\ UNCHANGED <<disk, cwd, world>> /\ busy' = FALSE
        /\ UNCHANGED <<memo, records, changed>>
        /\ report' = Gated(folder) /\ shot' = SnapshotIn(report', FolderRoot(cwd))
    BY <1>3 DEF StopDegraded, RememberStartSafely
  <2>2. FolderRoot(cwd) \in Checkouts \union {None}
    BY RootIs DEF Typed
  <2>3. folder \in Reports
    <3>1. StopGit(cwd) \in Reports
      BY <2>2, FolderReportIs
    <3>2. \A g \in Telling : [g EXCEPT !.evidence = None] \in Telling
      BY DEF Telling, Evidence
    <3>3. \A g \in Bare : [g EXCEPT !.evidence = None] \in Bare
      BY DEF Bare
    <3>q. QED BY <3>1, <3>2, <3>3, ReportsAre
  <2> HIDE DEF folder
  <2>4. report' \in Reports
    BY <2>1, <2>3, GatedIs
  <2>5. shot' \in Checkouts \union {None}
    BY <2>1, <2>2 DEF SnapshotIn
  <2>q. QED BY <1>0, <2>1, <2>4, <2>5 DEF Goal
<1>q. QED BY <1>1, <1>2, <1>3 DEF Goal

(* Every step keeps the types.                                             *)
LEMMA TypeNext == Typed /\ SightInv /\ TypeOK /\ [Next]_vars => TypeOK'
<1> DEFINE Goal == FilesOK' /\ OutcomeOK' /\ SeenOK' /\ Bounded'
<1> SUFFICES ASSUME Typed, SightInv, TypeOK, [Next]_vars
             PROVE  Goal
  BY TypedNext DEF Typed, FilesOK, OutcomeOK, SeenOK, Bounded, TypeOK
<1>0. FilesOK /\ OutcomeOK /\ SeenOK /\ Bounded
  BY PartsAre
<1>1. ASSUME NEW c \in Checkouts, NEW state \in Checkout, World(c, state)
      PROVE  Goal
  <2>1. /\ disk' = [disk EXCEPT ![c] = state] /\ Moves /\ faults' = faults
        /\ UNCHANGED <<files, began, busy, outcome, named, raced, changed>>
    BY <1>1 DEF World
  <2>2. FilesOK'
    BY <1>0, <2>1 DEF FilesOK, files
  <2>3. OutcomeOK' /\ SeenOK'
    BY <1>0, <2>1 DEF OutcomeOK, SeenOK, outcome
  <2>q. QED BY <1>0, <2>1, <2>2, <2>3, BoundedIs
<1>2. ASSUME UNCHANGED <<disk, files, began, busy, outcome, named, raced, changed>>,
             \/ Moves /\ faults' = faults
             \/ UNCHANGED <<world, faults>>
      PROVE  Goal
  <2>1. FilesOK' /\ OutcomeOK' /\ SeenOK'
    BY <1>0, <1>2 DEF FilesOK, OutcomeOK, SeenOK, files, outcome
  <2>2. Bounded'
    BY <1>0, <1>2, BoundedIs DEF Bounded
  <2>q. QED BY <2>1, <2>2
<1>3. ASSUME UNCHANGED <<disk, memo, busy, outcome, named, raced, changed, world>>, Works \/ Fails,
             start' \in Folders \union {None, "torn"}, began' \in Folders \union {None, "lost"},
             records' \in SUBSET Record
      PROVE  Goal
  <2>1. FilesOK'
    BY <1>0, <1>3 DEF FilesOK, TypeOK
  <2>2. Bounded'
    BY <1>0, <1>3, BoundedIs
  <2>q. QED BY <1>0, <1>3, <2>1, <2>2 DEF OutcomeOK, SeenOK, outcome
<1>4. CASE Prompt
  <2>1. /\ turn < MaxTurns /\ turn' = turn + 1 /\ busy' = TRUE /\ clock' = clock + 1 /\ asked' = GateCheckout
        /\ RememberStartSafely(TRUE)
        /\ records' = Appended(PromptRecord)
        /\ report' = NoReport /\ shot' = None /\ closedIn' = None
        /\ UNCHANGED <<disk, memo, named, raced, changed, world>>
    BY <1>4 DEF Prompt
  <2>7. /\ start' \in Folders \union {None, "torn"} /\ began' \in Folders \union {"lost"}
        /\ Works \/ Fails
    BY <2>1, StartIs
  <2>2. turn' \in 1..MaxTurns /\ clock' \in Nat
    BY <2>1, PipelineAssumption DEF Typed
  <2>3. records' \in SUBSET Record
    BY <2>1, <2>2, PromptRecordIs, GrownIs DEF TypeOK
  <2>4. FilesOK'
    BY <1>0, <2>1, <2>3, <2>7 DEF FilesOK, TypeOK
  <2>5. OutcomeOK'
    BY <2>1, QuestionIs, NoReportIs DEF OutcomeOK
  <2>6. SeenOK' /\ Bounded'
    BY <1>0, <2>1, <2>7, BoundedIs DEF SeenOK
  <2>q. QED BY <2>4, <2>5, <2>6
<1>5. ASSUME NEW c \in Calls, NEW origin, StartHook(c, origin)
      PROVE  Goal
  <2>1. /\ UNCHANGED <<disk, memo, records, busy, outcome, named, raced, changed, world>>
        /\ RememberStartSafely(origin = Origin(cwd))
    BY <1>5 DEF StartHook
  <2>q. QED BY <1>0, <1>3, <2>1, StartIs DEF FilesOK
<1>6. ASSUME NEW c \in Calls, NEW origin, DoneHook(c, origin)
      PROVE  Goal
  <2>1. /\ UNCHANGED <<disk, memo, busy, outcome, named, raced, changed, world>>
        /\ RememberStartSafely(origin = Origin(cwd)) /\ clock' = clock + 1 /\ call[c].pc = "running"
        /\ records' = records \/ Recorded(c, cwd, clock')
    BY <1>6 DEF DoneHook
  <2>2. Recorded(c, cwd, clock') => records' \in SUBSET Record
    <3>1. clock' \in Nat /\ cwd \in Folders
      BY <2>1 DEF Typed
    <3>2. ToolRecord(Event(c, "done", clock'), c, cwd) \in Record
      BY <2>1, <3>1, ToolRecordTyped
    <3>q. QED BY <1>0, <3>2, GrownIs DEF Recorded, FilesOK
  <2>q. QED BY <1>0, <1>3, <2>1, <2>2, StartIs DEF FilesOK
<1>7. ASSUME NEW c \in Calls, Ended(c)
      PROVE  Goal
  <2>1. /\ UNCHANGED <<disk, start, began, memo, busy, outcome, named, raced, changed, world>> /\ Works
        /\ call[c].pc = "ending" /\ Recorded(c, call[c].cwd, call[c].at)
    BY <1>7 DEF Ended, Works
  <2>2. ToolRecord(Event(c, "done", call[c].at), c, call[c].cwd) \in Record
    BY <2>1, HookIs, ToolRecordTyped
  <2>3. records' \in SUBSET Record
    BY <1>0, <2>1, <2>2, GrownIs DEF Recorded, FilesOK
  <2>q. QED BY <1>0, <1>3, <2>1, <2>3 DEF FilesOK
<1>8. ASSUME NEW c \in Calls, NEW w \in call[c].plan, WriteRecord(c, w)
      PROVE  Goal
  BY <1>8, WriteTyped
<1>9. ASSUME \/ StopForgetting \/ StopDegraded
             \/ \E origin \in Origins : \E slow \in Silences(origin) : Stop(origin, slow)
      PROVE  Goal
  BY <1>9, CloseTyped
<1>10. CASE SessionEnd
  <2>1. /\ start' = None /\ began' = None /\ memo' = None /\ records' = {} /\ changed' = {}
        /\ UNCHANGED <<disk, busy, outcome, named, raced, world, faults>>
    BY <1>10 DEF SessionEnd
  <2>q. QED BY <1>0, <2>1 DEF FilesOK, OutcomeOK, SeenOK, Bounded, outcome
<1>11. ASSUME NEW f \in Folders, Cd(f)
       PROVE  Goal
  <2>1. UNCHANGED <<disk, files, began, busy, outcome, named, raced, changed, faults>> /\ Moves
    BY <1>11 DEF Cd
  <2>q. QED BY <1>2, <2>1
<1>12. CASE UNCHANGED vars
  BY <1>2, <1>12 DEF vars
<1>13. ASSUME NEW c \in Worked, \/ Touch(c) \/ Commit(c) \/ Amend(c) \/ Detach(c)
                                \/ AddWorktree(c) \/ RemoveWorktree(c) \/ DeleteBranch(c)
                                \/ \E remote \in Remotes : Reclone(c, remote)
       PROVE  Goal
  <2>1. \E state \in Checkout : World(c, state)
    BY <1>13, WorldIs
  <2>2. c \in Checkouts
    BY PipelineAssumption
  <2>q. QED BY <1>1, <2>1, <2>2
<1>14. CASE StartHookKilled
  <2>1. /\ UNCHANGED <<disk, memo, records, busy, outcome, named, raced, changed, world>>
        /\ RememberStartSafely(TRUE)
    BY <1>14 DEF StartHookKilled, RememberStartSafely
  <2>q. QED BY <1>0, <1>3, <2>1, StartIs DEF FilesOK
<1> HIDE DEF Goal
<1>q. QED BY <1>14, <1>4, <1>5, <1>6, <1>7, <1>8, <1>9, <1>10, <1>11, <1>12, <1>13 DEF Next

(* TypeOK: the files of a session, its calls, what it asked and reported   *)
(* and the history have their types, for any machine, calls and bounds; a  *)
(* report names a checkout with its repository, or neither.                *)
THEOREM TypeCorrect == Spec => []TypeOK
<1> DEFINE Inv == Typed /\ SightInv /\ TypeOK
<1>1. Init => Inv
  <2> SUFFICES ASSUME Init
               PROVE  Inv
    OBVIOUS
  <2>1. Typed /\ SightInv
    BY BeginsTyped
  <2>2. PICK l \in Layouts : layout = l.dirs /\ disk = l.disk /\ cwd = l.cwd /\ world = l.world
    BY DEF Init
  <2>3. l.disk \in [Checkouts -> Checkout] /\ l.world \in 0..MaxMishaps
    BY PipelineAssumption
  <2>4. FilesOK /\ Bounded
    BY <2>2, <2>3, PipelineAssumption DEF Init, FilesOK, Bounded
  <2>5. OutcomeOK /\ SeenOK
    BY NoReportIs, NoFingerprintIs DEF Init, OutcomeOK, SeenOK, Unnamed
  <2>q. QED BY <2>1, <2>4, <2>5, PartsAre
<1>2. Inv /\ [Next]_vars => Inv'
  BY TypedNext, SightNext, TypeNext
<1>q. QED BY <1>1, <1>2, PTL DEF Spec

=============================================================================
