# AgentWatch Edge in TLA+

Specifications, model checks and proofs of the parts of AgentWatch Edge that are
hard to test: what several short-lived hook processes do to the files they share, what a hook
may read of one of them when another or the world has moved on, and what the commands do to
files that belong to others.
Paths such as `transport/queue.ts:539` are relative to `src/src/`; the exact lines
behind every definition are in `PROJECT.json`, `map`.

1. The system
2. Inventory
3. Plan
4. Modules and the code
5. Runs, bounds and what they show
6. Fairness
7. Proofs
8. Where the code and its comments disagree
9. What is not modelled
10. Running it

## 1. The system

AgentWatch Edge is a command line program that the hooks of coding agents (Claude
Code, Codex, Cursor, ...) start, once per hook event, as a process of its own. There
is no daemon: a process lives for a fraction of a second to some seconds, may be
killed by the agent's hook timeout at any instruction, and several run at once, of
one session or of several. Everything they have in common is on disk:

| file or directory | written by | read by |
| --- | --- | --- |
| queue partition, one JSON file per event id | every hook's deliver stage, `status` | the same |
| `.drain.lock`, sweep marker, scan cursor of a partition | drains and sweeps | the same |
| delivery statistics, with their own lock | deliver stage | `status` |
| cooldown file (transport, and one of enforcement) | a failed or good request | the next hook |
| `auth-block.json` | a refused or accepted request, `doctor` | the next hook |
| turn records, usage claims, turn locks of a session | prompt, tool and Stop hooks | the closing Stop |
| decision cache | prompt hooks | prompt hooks |
| snapshot state of a repository | the hook of a closed turn | the next such hook |
| install state, agents' settings | `setup`, `on`, `off`, `uninstall` | hooks, the agent |

Files are replaced by rename (`storage/atomic-file.ts`), so no reader sees half a
write. Two things are made exclusive by an advisory lock (`storage/lock.ts`): the drain of a queue partition, and the
close of a turn with its claim of the session's usage. The statistics take it with
a bounded wait and go on without it. Everything else is read, computed on and
replaced without a lock, by design, and has to be right all the same.

A hook runs the stages of `pipeline/hook-pipeline.ts`: resolve the context, parse the
payload into events, nominate repositories, **enforce** (may this prompt start?),
enrich, **track the turn** (append a record, or close the turn into a summary),
**deliver** (send or queue, then drain or sweep the backlog) and, when a turn closed,
**snapshot** (describe the branches of the repository). The bold stages hold the
shared state.

## 2. Inventory

**Advisory lock** (`storage/lock.ts`). State: one file. Operations: `acquireLock` (at
most two attempts of open-exclusive, on `EEXIST` stat and, when older than 30 s,
rm), the release it returns (an unconditional rm). Hard: every call is a step of its
own, holders die, are suspended, or outlive the stale bound. Correct when: two
holders never arise while no lock file outlived the bound; a dead holder's file does
not block everyone for good; nobody spins.

**Event queue** (`transport/queue.ts`). State: entries (attempts, first and next
time), drain lock, sweep marker, cursor. Operations: `enqueue` and its bound, `drain`
(walk, scan, one batch, its answer, isolation of a batch refused for good),
`sweep`, `retarget`. Interacts with the backend, the statistics and, through
delivery, the block. Hard: entries live on in a pass's memory while others remove,
rewrite or re-create their files; the sweep and the eviction take no lock; answers get
lost. Correct when: a stored record goes only for a reason the queue documents; no
record is charged an attempt the backend did not refuse; losses are counted; a
large backlog does not starve its tail; age ends every entry.

**Event delivery** (`transport/delivery.ts`, `auth-block.ts`, `cooldown.ts`). State: the
block, the cooldown, and in memory the records of this run. Operations: the stages of
`deliverEvents`, `raise` and `clear`, `status`, `doctor`. Hard: block and cooldown are
read before a request that other hooks' answers overtake; a queue write may fail, a file may be unreadable.
Correct when: no record is lost on any path; a backend known to be shut is not asked; the
retention bound holds also where nothing is ever sent; a repaired credential moves
the backlog.

**Turns** (`turns/turn-tracker.ts`, `turn-state.ts`, `transcript.ts`). State: per
session record files, claim files, memos, one lock per turn and one for the usage.
Operations: append, close (collect, window, claim, collect again, remove, hand on),
the degraded close, `clear` at SessionEnd, the expiry sweep. Hard: turns of a session
overlap and share a transcript that the agent still writes; Stops are fired twice; a
close may throw or die anywhere, and passes over what it cannot read. Correct when: a message's tokens and a record are
reported at most once, no record vanishes, raw prompts do not stay on disk.

**Work checkout of a turn** (`turns/work-checkout.ts`, `git/fingerprint.ts`). State: the session's start
folder, the checkout records with their fingerprints, the memo of the last changed checkout. Operations: naming
candidates from a tool call, recording them, probing and weighing them at the close, remembering the winner,
narrowing the report by that checkout's own policy. Hard: the tool hooks of one prompt run in parallel and each
decides from its own listing; a worktree vanishes before the close; the folder of the agent is not where it works. Correct when:
a turn is reported of a tenant it was admitted for, under the policy of the checkout it names, and a change is not
reported as none.

**Hook pipeline** (`pipeline/hook-pipeline.ts`): the stages composed. What the gate asks about, what a close reports and where
its snapshot is taken all depend on that memo.

**Turn aggregation** (`turns/aggregate-usage.ts`, `turn-summary.ts`): a pure fold of a ledger of calls into a turn's
summary. Hard: retries, splits and overlaps of turns. Correct when: a call is counted once, in the turn it belongs to.

**Budget enforcement** (`enforcement/`). State: the decision cache, the breaker.
Operations: `resolveEnforcement`, cache write and prune. Hard: read-modify-write of a
file without a lock, answers out of order, entries that outlive their window. Correct
when: a prompt is judged by a decision on its own repository, branch and model, made
no longer ago than the window allows; an expired entry leaves the disk.

**Repository snapshot** (`snapshot/`, `git/repo-snapshot.ts`). State: what was last
reported of a repository. Operations: the flow's stages. Hard: heads, trunk and file
are read at three moments, the file is replaced without a lock, a budget cuts the
flow anywhere, a git call fails. Correct when: what the file calls reported was
queued, and in the end every head is.

**Delivery statistics** (`transport/delivery-stats.ts`): counters behind a lock
that is waited for, then ignored.

**Queue partitions** (`queue-partition.ts`, `retarget`, `cli/setup.ts`, `config/root-config.ts`).
State: a queue directory per token, the directory of records captured without one, the
loose files of releases without partitions, the directory of what nobody may claim; the
identities (token and URL) of the machine and of project roots. Operations: settling of
what lies outside of a partition, the setup that replaces an identity, its offer and its
`retarget`. Interacts with every drain and sweep. Hard: a hook acts on the configuration it
loaded while a setup replaces it; settling takes no lock; a setup may die between the re-pin and
the rename of an entry. Correct when: a record is sent only to the identity it was
captured under, or one the user agreed to; it is in one place; none is lost on the way; what
is left behind still expires.

**Configuration** (`config/`). State: `config.json`, read by hooks and rewritten by setup and by hand. Operations: parsing,
selecting a project root, a repository's overlay, saving, enrollment. Hard: a URL that does not parse must stay off and must not
be forgotten; roots nest; a repository's file is not the user's. Correct when: such a file narrows what is captured and never
widens or redirects it; a bearer goes only to its own backend; a save loses nothing that was written.

**CLI** (`cli/`): `setup`, `on`, `off`, `uninstall` edit the agents' own settings (hooks and OpenTelemetry exporters) one file at a
time, with a record of what is ours (`install-state.json`). Hard: they fail or die in the middle, users edit the same files, records get lost.
Correct when: what the user wrote stays; what is off sends nothing; what is ours and recorded is taken back. `status` drains, `doctor` probes.

**Providers** (`providers/`, but for the settings files), **OTLP normalisation** (`otlp/`), **canonical events** (`events/`), **privacy**, **billing**, **enrollment**,
**ticket candidates**, **git context**: parsing, conversion and lookups, mostly
without shared state.

**agent-watch-otel** (`src/python/`): a span processor with a bounded queue, a worker thread, a counter of what was lost, shutdown and
fork. Hard: three kinds of thread between any two of its steps. Correct when: a flush that says so has sent everything, and what is
not sent is counted.

`PROJECT.json` lists each with its status, and every hazard at its line.

## 3. Plan

The order is by what is lost when it goes wrong: records first, then what is counted
wrongly, then what is asked or judged wrongly, then what is set up wrongly.

| | module | composes / abstracts | state |
| --- | --- | --- | --- |
| 1 | AdvisoryLock, LockContract | the lock and its contract | done, proved |
| 2 | EventQueue, QueueContract | uses LockContract, implements QueueContract | done, proved |
| 3 | QueueScan, QueueScanBound | one pass's scan; refined out of EventQueue | done, proved |
| 4 | Delivery | uses QueueContract | done, proved |
| 5 | TurnClose, TurnContract | uses LockContract twice, implements TurnContract | done but for the memos; proved |
| 6 | Enforcement | | done, proved |
| 7 | Snapshot | | done, proved |
| 8 | QueuePartition | uses LockContract; attempts and backoffs left to EventQueue | done, proved |
| 9 | WorkCheckout | which checkout a turn worked in, by the records of its hooks | done, proved through 10 |
| 10 | HookPipeline | the stages composed over one session, on WorkCheckout | done, proved |
| 11 | Aggregation | operators over sequences of calls, against a reference; no RECURSIVE | done, evaluated, proved |
| 12 | Config | the layers, the routes, saving and enrollment | done, proved through 13 |
| 13 | AgentSettings, Setup | the agents' files, and the commands that walk them; on Config | done, proved |
| 14 | SpanBuffer | the Python processor: bounded queue, worker, shutdown, fork | done, proved; in no run |
| 15 | DeliveryStats | a lock that is a bounded wait: what a lost update can cost | left |
| 16 | Setup with QueuePartition | the backlog's move inside the whole of setup; two commands at once | left |

Abstract specifications: LockContract is used by the modules above it and implemented by AdvisoryLock, QueueContract is implemented by
EventQueue and gives Delivery its queue, TurnContract is implemented by TurnClose.

Theorems: proved ones are in section 7. Every safety invariant, action property and refinement of the runs is; left to prove are the properties of
the modules still to write.

## 4. Modules and the code

Conventions. A process is a value of `Procs`, `Hooks` or `Stops`, its place in the code a label
in `pc`, its local variables functions of the process. One action is one file system
call, one request, or a stretch of code that touches nothing shared. A process that
dies frees its slot for the next one. Variables under the heading *History* are read by no
action: they record what happened for the properties. A definition marked *a mutant*
is the same operation with a plausible bug; it is used by no behaviour, and
`PROJECT.json` pairs it with the property that catches it. A cap in a guard is named by a
`Max...` constant and marked *bound*.

**AdvisoryLock** - `lockFile`, `age`, `maker` are the lock file; `stage` is the place in
`acquireLock`. `Begin`, `TryCreateLock` (open `wx`), `StatLock`, `BreakStale` (the rm, whatever is
there by now) and `ReleaseLock` are its calls, `Die` ends a process anywhere, `GrowOlder` ages
the file. The age saturates one past the bound, so the model is finite and runs for ever.
**LockContract** hides the acquisition: Acquire where no file is, Release and Die, Break
at any time. The users of the lock are modelled against it. The names of AdvisoryLock, QueueScan and EventQueue are apart, so that one module can extend
them all and prove about the queue with its lock and its scan.

**EventQueue** - `file[e]` is the entry of event `e`. `Enqueue`, `EnqueueExists`, `EnqueueWrite`,
`BoundList`, `BoundDate`, `BoundEvict` are `enqueue` and `enforceBound`; `Drain`, `Sweep`,
`ClaimStat`, `ClaimStamp`, `CollectList`, `ReadEntry`, `RemoveUnsendable` are the walk and `collectDue`;
`Send...` the answers `sendBatch` tells apart; `Probe...` `isolateBatch`; `RecordFailure` with `Charge` is
`recordFailure`, which writes the entry back **from the copy in memory** (`mem`), over whatever the
file has become. `Report` adds to the dropped count and `Release` frees the lock. The lock is
`LockContract` with the drainers as holders. A failed request may have arrived. A pass here
scans any `MaxBatch` names; which ones is QueueScan's subject, and that they are no fewer its `ScanReads`. **QueueContract** hides all of
it: records are stored, answered for, excused, and dropped only when answered for or excused.

**QueuePartition** - `config` is the machine's identity and that of one project root, `stored[d][e]` what
entry `e` in directory `d` says of its destination. `Begin` is a hook or a status run that loads the configuration
at one of the two places (`Effective`, `ServesMultiple`); `SettleList` and `MoveEntry` are `settleLegacyQueue`;
`Send`, `Skip`, `Enqueue` the record of this run; `Sweep`, `Drain`, `Collect`, `Request`, `Charge`, `Remove`, `Finish`, `Busy`
the passes, reduced to what they do to places and destinations. `Setup`, `SaveConfig`, `Agree` or `Keep`, `Retarget` or `QueueBusy`,
`Reread`, `Repin`, `RenameRepinned` or `RetargetThrows` are `runSetup` from its load to the end of `retarget`. The history says under which
identity a record was captured (`author`), which tokens were once the machine's only one
(`sole`), and what the user agreed may become what (`moves`, transitive).

**QueueScan** - names are numbers, `Window` the slice after the cursor with wrap-around,
`Collect`/`Examine`/`Remember` a pass, with `Insert` and `Remove` for everybody else. **QueueScanBound** adds the
counters the bound of `queue.ts:264-267` speaks of.

**Delivery** - the stages of `deliverEvents` as labels: `select`, `cooldown`, `send`, `preserve`,
`report`, `lift`/`raise`, `maintain`, and the drain seen as one request. The queue's variables are
those of QueueContract. A block or cooldown file that cannot be read counts as none, as the code's comments have it (fail open): `SelectBlock` and `SelectCooldown`
may go on with `ReadFails`, and the history keeps what each run could not read (`unread`); the read of `RaiseRead` may fail too. `Status` and `DoctorAccepted` are the two commands that drain or clear the
block on their own. `valid` is where the backend accepts the credential; `ChangeCredential`
revokes and restores it.

**TurnClose** - one session. `Append` is a prompt or tool hook, `Flush` the agent writing its
transcript, late or not. A Stop runs `Stop`, `Collect` (with `ResolveWindow`), `LockUsage` or
`UsageTimeout`, `ClaimedMessageIds`, `ReadTranscript`, `ClaimUsage`, `ReleaseUsage`, `Recollect`, `RemoveFile`,
`ReleaseClose`, `Deliver`. `CloseThrows` is the degraded close. `SessionEnd`, `SweepStat` and `SweepRemove`
remove the directory. `Reads` is every reading of the directory: a listing that fails, a record or a claim that cannot be read leaves the close with fewer of
them, and it goes on; the history keeps which Stops that befell (`misread`). Claims are one file per turn, or per Stop for agents that name no
turns (`SameClaimFile`). **TurnContract** hides the hooks' steps: a record is made (`Record`), a Stop takes it (`Take`) unless
another Stop of its turn has it, a Stop counts messages no other has counted (`Count`), hands on its summary (`Report`) or loses what it took (`Fail`); the session
is cleared; a broken lock excuses a turn (`Excuse`) or the counting (`Recount`), and a Stop
that could not read a file is blind to what others counted (`Blind`). For it a record is taken when its file is removed (`Removals`), and
usage is counted when the claim is written (`Usage`).

**Enforcement** - `Lookup`, `CheckBreaker`, `Decide`, `Fail`, `Receive`, `ReadEntries`, `WriteEntries`, `Reply` are the
steps of `resolveEnforcement` and of `write`/`prune`. Names are sequences of pieces, so that the
separator in a name can be seen: `Separable` escapes it and `DecisionKey` joins. Time is relative:
what is left of an entry, how old the decision in it is.

**Snapshot** - `Close`, `CollectRefs`, `ResolveDefaultBranch`, `SelectChanged`, `DescribeBranch`, `CommitsCollected`,
`Enqueue`, `Record` are the flow; `flow[h]` is its state record, `late[h]` that the budget is spent.
`Commit`, `Relist`, `Rename`, `Tick` are the world moving meanwhile.

**WorkCheckout** - pure definitions over a session's files (`start`, `memo`, `records`) and the checkouts on `disk`, in a `layout` of
folders, tenants and worktrees. `Fingerprint` is `checkoutFingerprint`; `Sights`, `HookCandidates`, `Names` and `Plan` are what a tool hook would
record, `CheckoutRecord` and `ToolRecord` the records; `CandidatesOf`, `Votes`, `Probe` (`ProbeStanding`, `ProbeVanished`), `Weighed` and `Best` the weighing
at the close; each of git's `Questions` about a checkout is a call that may go unanswered, also the one that reads a vanished worktree's file from its branch (`NarrowedByBranch`); `ReportPolicy`, `ReportCheckout`, `ReportFolder` what may be said of the winner; `ResolveWorkCheckout` all of it.

**HookPipeline** - `Prompt` is a prompt's hook with the gate's question (`GateCheckout`, `LastWorkCheckout`), `StartHook` a tool hook up to its listing of the
session, `WriteRecord` each record it writes, `DoneHook` and `Ended` its end; `Stop`, `StopForgetting` (the memo cannot be written) and `StopDegraded` the close,
`SessionEnd` the removal. start.json is created first and written after: `RememberStartSafely` is what each hook does about it, whatever came of it; `LoseStart` leaves none or a torn one
that no later hook rewrites, also when its hook is killed there (`StartHookKilled`). A hook that cannot read it goes by its own folder (`Origins`). `Touch`, `Commit`, `Amend`, `Detach`, `Reclone`, `AddWorktree`, `RemoveWorktree`, `DeleteBranch` and `Cd` are the world. The history holds
the first folder a hook tried to write as the start, or that it was lost (`began`), what the close read and did not read (`closedIn`),
each checkout as the turn first recorded it and what was once reported as changed.

**Config** - a URL is a tuple, empty when absent; `Bad` does not parse and is read as `Refused`. `ConfigSchema`, `Route` and the routes of it, `SelectRoot`, `ApplyRoot`,
`MergeRepoConfig`, `LoadEffectiveConfig`, `SaveConfig` (which keeps what parsing refused, `RefusedFrom`) and `Enrolled` carry the source's names.

**AgentSettings** - a settings file is its hooks, its telemetry keys, its mode and whether it can be parsed. A value that the user set carries a mark before its `Text`, for
the properties: Claude's and Gemini's operations compare texts, so a user's key may say just what AgentWatch would write. Codex's block has markers in the file itself, which the same mark stands for. Every operation maps `(file, install record)` to an outcome:
`InstallHooks`, `UninstallHooks`, `ConfigureClaude`, `ConfigureGemini`, `ConfigureCodex`, their `Uninstall...` and `Inspect...`.

**Setup** - one command at a time (`cmd`: what is left to visit, the install state in hand). `BeginSetup`, `BeginUninstall`, `BeginOff`, `BeginOn`; `Hooks` and `Exporter` are setup's and uninstall's
visit of one file, `Switch` and `SaveOne` those of off and on with their failures; `EndPlain`, `EndPurge`, `EndOff`, `EndOn` the ends, `RollBack` the undoing of a half-done
`on`, `Crash` a death between two files. `SetKey`, `SetHelper`, `Damage`, `Repair`, `DropHooks`, `LoseState`, `EditConfig`, `BreakConfig` are users and agents; what a user may set a key
to is the constant `Chosen`.

**Aggregation** - `OwnsWindowJoin` and `BelongsToTurn` say whether a summary owns a call, `MergeCallObservations` folds what was seen of one, `AcceptCalls`, `SumCalls`,
`PerAgentUsage`, `ResolveUsageStatus` and `AggregateTurnUsage` the rest. It has no state: **MCAggregation** evaluates its properties over bounded ledgers as
ASSUMEs, and MCTurnClose extends it, so that the run TurnClose evaluates them.

**SpanBuffer** - `Enter`, `Fails`, `PutNowait`, `LockCounter`, `CountDrop` are `on_end` on a thread of the host, `Shutdown` and `PutSentinel` the shutdown, `Take`, `TakeSentinel`, `Empty`,
`ReadStopped`, `Send`, `LockBatchCounter`, `CountBatch`, `Settle` the sender's loop, `Fork` the child's new queue.

**MC...** modules hold the instances: small sets, symmetry, and refinement
properties as named definitions.

## 5. Runs, bounds and what they show

| run | module, cfg | states | shows |
| --- | --- | --- | --- |
| AdvisoryLock | MCAdvisoryLock | 1 thousand | exclusion until a lock file outlives the bound, or one was broken; orphans are broken; `acquireLock` returns; refines LockContract |
| EventQueue | MCEventQueue | 1.2 million | a record goes only for a cause; charges never exceed refusals; one drain per event; losses counted; refines QueueContract |
| EventQueueBatch | MCEventQueue | 370 thousand | charges with ages and backoffs running, a batch that is probed, old unusable entries; an aged entry leaves |
| QueueScan | QueueScanBound | 880 thousand | an entry is examined within ceil(backlog / maxBatch) passes |
| Delivery | MCDelivery | 1.7 million | no record lost on any path; a shut way stays silent, unless the file that says so could not be read |
| DeliveryLive | MCDelivery | 110 thousand | age ends an entry on every path; a repaired credential moves the backlog |
| TurnClose | MCTurnClose | 530 thousand | tokens counted at most once by Stops that could read every file, no record lost, and TurnContract implemented, so no record is taken twice for a turn, with overlapping turns and with repeated Stops of turns without names; records leave the disk |
| Enforcement | MCEnforcement | 210 thousand | a prompt is judged on its own question, by a fresh decision; expired ones leave |
| Snapshot | MCSnapshot | 360 thousand | what the file calls reported was queued; every head is in the end |
| QueuePartition | MCQueuePartition | 1.1 million | a record goes only where it belongs or the user agreed; one copy; none lost on a move |
| HookPipeline | MCHookPipeline | 430 thousand | a turn is reported for a tenant it was admitted to, and where the start is lost for the Stop's; under the policy of the checkout where that can be read; a change is reported; a snapshot's checkout was changed |
| Setup | MCSetup | 390 thousand | a repository only narrows; bearers and modes are kept, and users' keys but for what the comment of `UsersKept` lists; off is silent; on restores; doctor does not call a running exporter off |

Why the bounds are enough to meet the interesting cases:

* **AdvisoryLock**: two contenders and a bound of one tick already give the case of
  `lock.ts:76`: one stats a stale file, the other breaks it and creates its own, the
  first removes that. Three contenders pass as well (17 thousand states, some minutes); the proof is
  for any number. Ages, attempts and deaths are not bounded.
* **EventQueue**: two processes and every operation on the file of one event, which is queued twice, with two
  faults, each a crash, a misread or a lock broken under a living drain, at any step. `MaxEvents = 0` lets every enqueue
  overflow, `MaxAge = 0` with one tick lets an entry age between a read and its use, two attempts are the least with a
  rewrite before the last charge, `Backoffs = {0}` keeps the entry due so that it is charged twice inside the bound. Entries meet in a
  pass only through its batch, which is the next run's subject. Two events with `MaxEvents = 1`, `MaxBatch = 2`, one probe and one fault
  pass as well (2.8 million states, more than three minutes); the proofs are for any number of each.
* **EventQueueBatch**: one process but two ticks of clock, a backoff of one, an age bound of one
  and entries an older version left, so that ages and backoffs end one before the other; no fault,
  because its liveness property is about an undisturbed machine that nobody sends from well.
* **QueueScan**: five names and batches of two wrap unevenly around the end; two insertions
  on either side of the cursor, one crash, one failed write or lost cursor, any number of removals.
* **Delivery**: two processes and two URLs let one raise what another clears. One
  record suffices because records are handled one by one. The one fault is a crash, a write or a read that fails. The clock only dates the block; it moves in DeliveryLive.
* **TurnClose**: two kinds of session. In one, b's prompt lies inside a's turn, either record may come between the two
  listings of a close or after, and one message belongs to b and may be flushed at any moment. In the other a prompt, a tool call, a
  message and two Stops have no names, and contend for one lock as a repeated Stop of a named turn does. Each has one fault at any
  step, a file that cannot be read among them. `UsageOnce` leaves out only the Stops that misread, so the others must still be apart from each other; with two Stops and one fault
  that is no more than leaving the pair out, and the rest of it is in the proof. A repeated Stop of the named turn a, three Stops in all, passes as well without a fault (200 thousand states).
  `UsageOnce` excuses a removed directory, a broken lock, and agents that open a named turn with two prompts
  (`OnePromptATurn`); the first two excuses are needed, see `NeverRecounted` and `ClaimsStand` in section 8.
* **Enforcement**: two hooks; the two questions are the look-alikes `main|opus` without a model and
  `main` with the model `opus`; one cache entry at most, so that a second evicts it; a window of two, a
  life of one and a configured TTL of three, so each of the three bounds can be the one that bites, or none.
* **Snapshot**: two hooks, two branches, two trunks of which one may be assumed when git fails,
  a budget of two logs, one change and one fault at any moment.
* **QueuePartition**: one record, because settling and retarget take each file by itself; it may predate the
  partitions. Two tokens and two URLs in every legal configuration of a machine and a root, two processes, so that a hook of the
  replaced configuration runs against the setup and its drain against the retarget; one crash or lock broken early. A second setup
  is the next thing to vary.
* **HookPipeline**: a checkout, a linked worktree of it whose file restricts what is captured, and a checkout of another tenant, on a machine with
  project roots and on one without; a shell call and an edit in the worktree, so that two hooks of a turn meet over a checkout neither has
  seen; two prompts, so that a memo outlives its turn; two mishaps (one without roots), each a change of the worktree, a move of the agent, a failed write or close, a start file that is torn or unreadable,
  or questions to git that go unanswered: one, or all about a checkout. One call
  more or a third mishap only multiplies the interleavings of independent checkouts.
* **Setup**: nine machines, each with the agents and files that make one branch matter (a key the user set, to something else or to just what AgentWatch would write, alone or beside a foreign endpoint; a file already private, a leftover of an older
  release, codex beside an agent without exporter), and with roots that nest; up to three commands, the least in which an off, its failure and an on meet, or two setups and an uninstall;
  one mishap at any step. Commands are not bounded in length.

Symmetry is used only in runs without liveness properties, over sets whose members no formula tells apart. Deadlock
is checked, but for the runs HookPipeline and Setup: a session and a machine may stop, when the prompts or commands of the bound are used up.

## 6. Fairness

No run assumes that the backend, the platform or git is well; what is assumed of them is stated here.

* **AdvisoryLock**: time passes; hooks keep coming and run on (WF of a step). Any hook may die, but they do
  not all die at the same instruction for ever (SF of the three calls of an acquisition). Hooks are
  started by every agent event, so a lock that nobody wants again is of no interest.
* **EventQueue** (`FairSpec`): the clock runs to its bound; a hook runs to its end (it is one
  short process, a crash is a separate action and counted); hooks that may send come
  again and again (SF of Drain: the drain lock is free infinitely often because an orphan is broken, which is
  `OrphanIsBroken` of AdvisoryLock and appears here as WF of breaking a lock without a holder). The backend's
  answers are not constrained: `EntryLeaves` holds when every request fails.
* **Delivery** (`FairSpec`): as above, and the cooldown and the sweep interval pass. `Taken(e)`, strongly fair,
  says that a backend asked again and again about a record one day takes it; `BacklogMoves` is about the edge asking at all.
  `Begin` is fair only for hooks *without* a record, because the comment of `deliverEvents` says those are the majority.
* **TurnClose** (`FairSpec`, both kinds of session): the TTL passes and hooks of *any* session sweep; no fairness of any Stop or
  SessionEnd, since the property is about sessions that never see one.
* **Enforcement** (`FairSpec`): hooks run, time passes, prompts keep coming and some are answered. Without the
  last, nothing prunes the file, and the code does not claim it.
* **QueuePartition** (`FairSpec`, used only to refute `KeptExpires`, section 8): processes run to their end, an orphaned drain lock is broken, and hooks
  with nothing to send come at every place, so that whoever would sweep the entry gets the chance.
* **HookPipeline**, **Setup**, **SpanBuffer** state safety only, and no fairness: nothing makes an agent prompt again or a user run a command.
* **Snapshot** (`FairSpec`): turns keep closing and their hooks run. Faults and changes are finitely many, which is
  what "in the end" means.

## 7. Proofs

TLAPS proves these for every value of the constants that satisfies the named
assumptions; the bounds of the runs (`MaxClock`, `MaxWrites`, `MaxFaults`, ...) are constants
like the others, so the theorems hold for every bound.

| module | theorem | says |
| --- | --- | --- |
| EventQueue_proofs | TypeCorrect | the queue's types; an entry on disk never has `maxAttempts` charges |
| | QueueInvariance, LossJustified | the inductive invariant, and `LossHasCause` from it |
| | NotOvercharged, OneDrain, LossCounted | `NeverOvercharged`, `OneDrainPerEvent`, `LossIsCounted` |
| | Refinement | `RefinesContract` (`Queue!Spec`): every file system call is a step of QueueContract or none |
| | MutexTypeCorrect, Exclusion | of AdvisoryLock: its types; `ExclusiveWhileFresh` for any number of processes |
| | MutexRefinement, ExclusionUntilBroken | of AdvisoryLock, `RefinesLockContract`: every file system call is a step of LockContract or none, which excludes until it is broken |
| | ScanReads | of QueueScan: a pass reads min(`BatchSize`, backlog) entries, all of them when they fit |
| | ExaminedSoon | `ExaminedInTime` of QueueScanBound: an entry is read within ceil(backlog / `BatchSize`) passes |
| Snapshot_proofs | TypeCorrect | the types; no file and no hook names a head its branch never had |
| | Invariance, Recorded | the inductive invariant, and `RecordedWasQueued` from it |
| Delivery_proofs | TypeCorrect | the delivery's types |
| | KeepsSilent, NothingIsLost | `SilentWhileShut`: nothing is asked past a block or cooldown whose file the run could read; `NoRecordLost` |
| | FlushIsHonest | of SpanBuffer, `Spec => []FlushMeansSettled`: what task_done was not told of is exactly what is queued or in hand, so a flush that returns left nothing behind |
| TurnClose_proofs | TypeCorrect | the types; in particular what `ResolveWindow` computes is a stretch of time |
| | NothingIsLost, ReportedOnce | `NoRecordLost`; `RecordOnce`, that a record is reported by one Stop of a turn |
| | CountedOnce | `UsageOnce`: while claims and locks stand, no two Stops that could read every file count the same message |
| | KeepsTurnContract, PromiseKept | `RefinesTurnContract`: every step of a close, with its failed reads, is one of TurnContract or hidden from it; and the promise of TurnContract, which its steps keep by themselves, so the code keeps it; its part on usage is about Stops that are not blind |
| | PrecedesIsTotal, OneOwner | of Aggregation: summaries are totally ordered, so no call is owned by two windows, nor by two turns |
| Enforcement_proofs | TypeCorrect | the types; in particular a cache file has one entry a key and no more than `MaxEntries` of them |
| | ServesFresh | `ServedWhileFresh` |
| | KeyTells, AnswersItsQuestion | the cache key tells questions apart, and `AnswersTheQuestion` from it |
| QueuePartition_proofs | TypeCorrect | the types of directories, processes and history |
| | KeepsEveryRecord | `NothingLost`: a record is in a directory or in a process's hands until it was taken, refused for good or grew old |
| | SendsWhereConsented | `SentWhereConsented`: a record goes to the identity it was captured under, or one the user moved it to |
| | OneCopyEach | `OneCopy`: while no drain outlives its lock, a record captured under a token has one copy |
| HookPipeline_proofs | TypeCorrect | the types of the session's files, its calls and its history; a report, a question and the memo name a checkout with its repository, or neither |
| | ReportsItsTenant, AsksOnlyGoverned | `TenantKept`: a close names only what the session's start admits *and* the Stop's folder governs, and without a readable start what the Stop's tenant owns; `GovernedOnly` |
| | CarriesOnlyChanged, KeepsPolicy | `CarriedWasChanged`; `PolicyKept`, of every checkout whose file, or its branch's when the worktree is gone, git read |
| | ReportsTheChange | `ChangeIsReported`: a close that git answers reports a change the turn made, in a checkout no two hooks raced for |
| Setup_proofs | Invariance, TypeCorrect | the inductive invariant of the four commands; the types of files, record, command and configuration |
| | SilentWhileOffHolds, ExporterFollowsConfigHolds | `SilentWhileOff`, `ExporterFollowsConfig`: what off silences and what setup and on leave said |
| | ModeRestoredHolds, ReportedOffIsOffHolds | `ModeRestored`, `ReportedOffIsOff`, which rest on the record of what is ours |
| | UsersKeptHolds | `UsersKept`, of every step of a command, whatever the user's values say: but for prompt logging and for Gemini without a record, only keys on record go, and by Claude's guess those that stand as AgentWatch would write them |
| | RepoOnlyNarrowsHolds, BearerKeptHolds | `RepoOnlyNarrows`, `BearerKept`, of every configuration file and folder |
| | SetupKeepsWhatWasWrittenHolds | `SetupKeepsWhatWasWritten`, of every setup over a file that parses |

*Assumptions*: `LockAssumption`, `QueueAssumption`, `ScanAssumption`, `NoFileAssumption`, `SnapshotAssumption`, `DeliveryAssumption`, `TurnAssumption`,
`EnforcementAssumption`, `PartitionAssumption`, `CheckoutAssumption`, `PipelineAssumption`, `SetupAssumption`: numbers are numbers, a decision's window is not zero, null values are not members, the set of events and that of
checkouts are finite, the directories of tokens are not those of records without one. TLC evaluates them in the runs.

`SetupAssumption` says that the machines, options and folders considered are well formed: URLs and tokens are sequences of words, none of which is the
mark of what a user set, roots are roots, and on a machine that AgentWatch has not touched every key is the user's. Users' values are not restricted: they may be those AgentWatch writes. What a committed file of a repository says is not restricted at all.
`NamesDiffer` is a hypothesis of the theorem about SpanBuffer, which is proved as an instance inside Delivery_proofs, with constants and variables of its own. `KeyTells` and `AnswersItsQuestion` assume `CleanNames`: names are
sequences over some set of pieces, none of which is the escape itself (section 8, smaller ones), and a repository has a name, since
`gate-checkout.ts:60` asks nothing without one.

*AdvisoryLock*. Exclusion alone is not inductive: nothing in it says that the file at the path is the
holder's. `FreshInv` adds, for as long as no file outlived the bound: a file that is there
is not stale, so nobody is between the stat and the rm, nothing was broken, and a holder's file
is at the path with the holder as its maker. With it each action is a case of a few lines.

*EventQueue*. `LossHasCause` speaks of what is gone; what has to be kept up is that every *removal to
come* is justified. `QueueInv` says so of each place an entry can be: on disk (`HistoryOK`: no younger
than its event was born, charged no more than it was refused), in a pass's memory (`MemoryOK`, the
same of the stale copy), and as a name about to be removed (`NamesOK`, `AnswersOK`: it is
aged, unreadable, evicted from an overfull listing, accepted, or has one more refusal than charges).
`HistoryGrows` shows that reasons never go away, so what another process does between a pass's read and its
removal cannot take a reason back; that is the whole argument for why the unlocked sweep and the
rewrites from stale copies lose nothing. One lemma per way of writing (`RemovalIsSafe`, `WriteIsSafe`), one step per
action. `OneDrain` needs, besides, that while the lock was not broken the file is there
whenever a drainer is, and that only drainers hold entries. `LossCounted` compares two cardinalities: the lost events and, since a sum over processes cannot be taken by induction here, the
drops not yet reported as a set of pairs (`Dropped`). A step adds at most one event to the first, and then one pair to the second (`LossCounts`), or hands a process's
pairs on to `tally` or, in a crash, to `uncounted` (`SettledCounts`). That the set of pairs is finite is part of the invariant, so the processes need not be finitely many.

*QueueScan*. The distance of a name ahead of the cursor, around the end if need be, orders the names (`DistTells`), and a window is the directory's nearest
names: one that leaves an entry out is full (`WindowFull`), so once the cursor is where the pass stops, such an entry has `BatchSize` fewer ahead of it (`PassOver`).
`ExaminedInTime` is about the entries a pass has come to; what is inductive, `BoundInv`, is about all of them, at every point of a pass: the passes that went by an entry
and the entries still ahead of it add up to what was ahead when it came or was last read, plus what others put ahead of it since. While a pass runs the distance is
taken from where the cursor will be for those already gone by. `ScanReads` says that a pass reads min(`BatchSize`, backlog) entries, which is what EventQueue's
`CollectList` assumes of it.

*Snapshot*. A hook writes a file computed from one it read earlier and from heads it listed in
between. `FlowOK` says of every flow what makes that write right *whatever the file has become*: the state it
read was right then (and `queued` only grows), it described what it selected unless it is late, and
at `record` all of that is queued. `NextIsRecorded` is the lemma about `nextSnapshotState`: the new trunk is
claimed only for branches described against it, or whose record already named it. For the types, `KnownInv`: no file and no flow names a head its branch never had, or a time to come.

*Delivery*. `NoRecordLost` is inductive beside the types: each step that takes a record out of a hook's hands puts it elsewhere. The types
are not inductive alone: that a block is only ever written for a URL needs `Aimed`, that a run which may send knows one.
`SilentWhileShut` is about requests already made; `SilentFlow` says of each stage which way the run has found open, and `MutedIsShut` that
what mutes a run has been shut since it began, whatever other hooks raise and clear meanwhile. Each of the two files is excused by itself: a run that could not read
the cooldown is still stopped by a block it could read.

*TurnClose*. For records, `Hands` ties what a closer holds to the disk: what it has removed is off it for good. `Kept` is `NoRecordLost` with
only those in a closer's hands, and `Apart` is `RecordOnce` of closers too; both need that a turn's lock, unbroken, has one
closer (`CloseExclusive`). For usage, while both locks are intact: no claim file held a message when a Stop
counted it (`Unclaimed`); its claim then stands (`ClaimStands`), because only a Stop of the same turn writes that file, and such a Stop
finds the turn's one prompt consumed and claims nothing (`Prompted`); so who claims later counts other messages (`CountedApart`). All of it is about Stops that read every file (`misread` has the others): one that missed a record may count with a wrong window,
one that missed a claim counts again. The last is where
`OnePromptATurn` is needed, and where `ClaimsStand` fails. The refinement (`StepRefines`) has one lemma for each step that TurnContract sees: a removal is a `Take`, allowed by `Apart`; the
write of a claim is a `Count`, allowed because what others counted is in claim files (`ClaimStands`) and what is counted now is in none (`Unclaimed`), or because the Stop is blind; a misreading is a `Blind`; a failure is a `Fail`. What is left of a close is hidden (`HiddenClose`).
`Promise` is inductive in TurnContract as it stands, so `PromiseKept` needs nothing of the code but the refinement. Of the types, only the window needs an argument: it starts at the first of some prompts' times, and a set of times has a first (`First`).

*Enforcement*. The age of an entry and what is left of it add up to at most `Window + HookLife` (`Sound`), in the cache and in the copy of
every hook that is about to write it back, and time moves one into the other. For the question, an entry is kept under its own
question's key, so that all rests on `KeyTells`: no escaped part holds a bar, so a key is cut at its first bar (`SplitAtBar`), and escaping is injective
(`SeparableInjective`). For the types, a write keeps at most one entry a key and cuts at `MaxEntries`, whichever copy it starts from (`FileOK`).

*Aggregation*. `Precedes` is asymmetric, transitive and total on summaries with different ids. Two summaries that both own a call by its window would each
precede the other; ownership by name is of at most one turn name and excludes ownership by window.

*SpanBuffer*. `FlushMeansSettled` alone does not survive a step of the sender, which may settle a batch only because nothing else is in it. The invariant adds what each
label of the sender has in hand (`InHand`), and where the sentinel is while somebody still owes it.

*QueuePartition*. A hook acts on a configuration that setup has replaced, so what is inductive speaks of what every process has in hand, never of
what is configured now. For `NothingLost`, `Keeping`: what a loop is about to remove may go (it is aged, or the backend took it), and what a hook still holds is
nowhere else. For `SentWhereConsented`, `Consented`: an entry, on disk or in some process's memory, lies in a directory and names a destination its author's identity became by
the user's consent; consent only grows and is transitive (`ExtendTransitive`), so an entry that two setups move, each agreed for one step, may be sent. For `OneCopy`, `Single`: a
token's entry has one directory it is in, and whoever may write it back, a drain or a retarget, has read it from there and holds that directory's lock.

*HookPipeline*. A close is a choice among many checkouts, but whatever wins (`Best` is a CHOOSE) is of four kinds: nothing, the folder, a recorded candidate, the carried
checkout (`Resolved`); each may name only what the sitting's folder admits (`ResolvedAdmitted`) with what that checkout's policy leaves (`ResolvedAllowed`), and the gate
after it only takes away (`GatedNames`). `CarriedWasChanged` needs the history: the memo names a checkout that some close reported as changed (`MemoNext`), and only a close writes it.
`ChangeIsReported` goes the other way, from the world to the report, and needs what the files say of the checkout (`SightInv`): what a hook has yet to write replaces no record (`Unwritten`),
so the first sight of a checkout no two hooks raced for stands and is the only one, with the baseline the history has (`Told`). Such a checkout is then among the candidates (`CandidateSeen`), because whatever
goes before it was first seen too, and no more were than a turn may name; its difference from the baseline weighs more than nothing (`DifferenceWeighs`); and among finitely many candidates
the most changed, the earliest of them, exists (`BestChange`, from least numbers), so the close reports a change (`ChangeWins`). start.json never names another folder than `began`, so a close that
read one goes by the session's start. The attempt corrected the property: its bound had counted only checkouts
recorded with a fingerprint, while those git did not answer for take places too, and with `MaxCheckouts` at one the old statement is false. The loop over a hook's candidates, a fold before,
is now stated by what it yields (`Plan`), since the prover has no induction. The types (`TypeOK`, no run's property) rest on the same two invariants, because a close computes its report from everything else: a call under way
is of a turn and a folder (`HookIs`), the baseline a close picks exists because among the records that lowered a first sight the one of least rank is the latest (`BaselineIs`), and each of the four kinds of report is a report (`ResolvedIs`).

*Setup*. A command visits one file at a time and may fail or die in between, so each property needs what holds halfway. `OnRecord`: what AgentWatch set in a
file of Claude's or Gemini's is on the *record that counts*, the one on disk between commands and the one in the command's hands during it; without it a removal, which goes by the record, could leave
a key behind. Gemini needs more, because uninstall forgets its record with its hooks before its exporter is removed: `Forgotten` names that place, `Untaken` says that uninstall has not
changed the record of an agent still to come, and `Legacy` that the keys of Gemini's are among those a missing record is taken to own. `Saved`: on has each agent's record on disk before the next one, so
that the rollback and the next command start from what was done. `ModeOnRecord` ties Codex's mode to its block: a private config.toml was private or missing before, or has its mode to restore on record, and
a mode on record means that the block is there. For `SilentWhileOff`, `Silent`: off leaves each exporter it has passed off, and on lets no exporter speak that it cannot still take back. For `ExporterFollowsConfig`, `Following`:
each exporter that was passed without a failure says what it should, and no later agent's visit touches its file. The operations of the three agents enter only through what they
promise (`Handled`, `Removed`, `Configured`: one lemma per operation), so the steps of a command need three cases and not nine. `UsersKept` follows operation by operation from what each of the three agents' code removes or writes (`Protected` keys are in neither). `RepoOnlyNarrows`, `BearerKept` and
`SetupKeepsWhatWasWritten` need no more than the types: they are about what the layers and saving compute.

*Only model-checked*: all liveness (`OrphanIsBroken`, `AcquireTerminates`, `EntryLeaves`, `RetentionHolds`, `BacklogMoves`,
`RecordsExpire`, `ExpiredLeave`, `EveryHeadIsQueued`), since the prover handles neither fairness-based liveness nor
ENABLED. Type invariants are not in the runs' lists: where a module is proved about, its type is
proved, elsewhere each module states one. No module declares a RECURSIVE operator.

## 8. Where the code and its comments disagree

No listed run expects a violation: each of these is stated in its module, most with the comment "Not so". A cfg with the constants
named here and the formula as its only INVARIANT or PROPERTY shows each in seconds to a minute.

| formula | constants of | the words | what the code does |
| --- | --- | --- | --- |
| OnlyStaleIsBroken | AdvisoryLock.cfg | `storage/lock.ts:12-13`, a lock older than STALE_LOCK_MS is broken | the rm of `:76` acts on an earlier stat and may remove a fresh file |
| NoDoubleSend | EventQueue.cfg | `queue.ts:114`, "Serialized by a lock so concurrent hook invocations cannot double-send" | a drain that outlives 30 s has its lock broken and another sends the same batch; the backend deduplicates by event id |
| DroppedIsLost | EventQueue.cfg | `transport.types.ts:140`, totalDropped is "real data loss" | the unlocked sweep (`:405`) counts a file that a pass has just removed: the count may say too much |
| EvictsOnlyOverflow | EventQueue.cfg, two events, MaxEvents 1 | `queue.ts:588-592`, the bound | two hooks compute the excess from their own listings (`:616`) and evict it twice |
| SinceIsKept | Delivery.cfg, MaxClock 1 | `auth-block.ts:50-51`, a standing block "keeps its original `since`" | read and write (`:58`) are two steps; the later raise wins |
| LiftedByProof | Delivery.cfg, MaxRuns 2 | `auth-block.ts:74`, "the backend accepted the credential" | clear (`:78`) removes the block of whatever destination |
| FailedIsSkipped | Delivery.cfg, MaxRuns 2 | `delivery.ts:31-32`, a backend that just failed "is skipped entirely" | only a direct send sets the cooldown, a failed drain (`:138`) does not |
| NeverRecounted | TurnClose.cfg | `turn-state.ts:109-110`, claims outlive the records so an overlapping turn "can never re-count them" | SessionEnd (`:289`) removes them while another turn still closes |
| ClaimsStand | TurnClose.cfg, `Sessions <- {Raced}`, MaxStops 3, CONSTRAINT nothing removed, claim lock unbroken | the same words | a turn closed twice, here because its close lock was broken, writes its second claim over the first one's file (`turn-state.ts:119`, one file per turn), and an overlapping turn then counts the messages of the first |
| OwnUsageOnly | TurnClose.cfg, MaxFaults 0 | `turn-tracker.ts:457-458`, tokens after another prompt's start "belong to - and are counted by - the other turn" | the window is cut at the prompts *that are on disk* (`:472`): when b's Stop has removed b's prompt and b's last message is flushed late, a's close counts it. Once (`UsageOnce` holds), for the wrong turn |
| OverrunKeepsWork (PROPERTY) | Snapshot.cfg, `Hooks <- MCOneHook`, Budget 1, FairSpec | `snapshot-pipeline.ts:117-119`, an overrun "stops here with the branches already described rather than discarding the work" | the loop stops only when the budget is spent, and the enqueue after it asks `withinBudget`, which then answers false: nothing is recorded, and a repository whose logs never fit starts over at every closing turn |
| RepinnedIsFound | QueuePartition.cfg | `queue.ts:194-195`, a crash between re-pin and rename leaves an entry "where the next setup finds it again" | the next offer counts the entries for the URL configured by then, in the directory of the token configured by then (`cli/setup.ts:521`); this one has the new URL in the old token's directory |
| SettledOnce | QueuePartition.cfg | `queue-partition.ts:125`, a rename is atomic "so no lock is needed" | a drain without a token writes back (`queue.ts:539`) what it read before a hook with a token moved it: two copies, the backend deduplicates |
| KeptExpires (PROPERTY) | QueuePartition.cfg, FairSpec, one process | `cli/setup.ts:538`, the events of a replaced identity stay "under the previous identity; they expire after" the retention days | only a sweep removes by age, and it lists the directory of the token in the configuration (`queue.ts:404`, `hook-pipeline.ts:516`); once the token is gone from there nobody does |
| StartDecides | HookPipeline.cfg, `Layouts <- NestedLayout` | `docs/DATA_HANDLING.md:219`, "Which checkouts may be reported is decided by the folder the session started in" | the close that fails reports the folder of the Stop without asking (`turn-tracker.ts:433`) |
| OnlyOwnedRemoved | Setup.cfg | `docs/ENTERPRISE_DEPLOYMENT.md:43`, uninstall "removes exactly the keys and hook entries the install state recorded as owned" | `gemini.hooks.ts:75,104` forgets the whole record when the hooks are gone, the exporter is then removed by the list of older releases (`gemini.otel.ts:257`), with a key the user set; the file's first mode (`:29`) is lost with the record. Claude as well, against `claude.otel.ts:217`, "user-owned telemetry config is never removed": a setup that finds an endpoint of the user's leaves the exporter alone, and off or uninstall, with no keys on record, then takes each key of the user's that says what AgentWatch would write (`:361-370`), such as the switch |
| NothingLeftUncounted | SpanBuffer, three calls, MaxQueue 2, BatchMax 2 | `processor.py:147`, `dropped` is "Calls this processor read but never delivered, for any reason" | a call put after the shutdown's sentinel is neither sent nor counted (`:189-192`) |
| HolderIsThere | SpanBuffer, the same | `processor.py:120-123`, the fork hook is there so that a child does not lose its calls | it renews the queue and the sender, but not the counters' lock: forked while another thread holds it, the child's `on_end` waits for ever |
| SplitCallIsCountedTwice, OverlapOrphansACall | ASSUMEs of MCAggregation that hold | `aggregate-usage.ts:13-15`, "A call is attributed to exactly one turn"; `:90-92`, a call is not left "attributed to no turn at all" | rows are attributed before they are merged, so a call of which one row names its turn and another none may count in both turns; and the best owner of a window is chosen also among summaries whose own turn name keeps them from counting the call |
| SweepsOnlyQuiet | TurnClose.cfg | `turn-state.ts:293`, sessions whose newest record is older than maxAgeMs | what is appended between the stats and the rm (`:391`) goes too |

Smaller ones, which the models note and no formula states:

* A block or cooldown file that cannot be read counts as none (`auth-block.ts:97-102`, `cooldown.ts:36-40`, both on purpose): a request goes out while the way is shut. `SilentWhileShut`
  excuses the run, and the file, that this befell (`unread`).
* Claims that cannot be listed or read count as none (`turn-state.ts:130-149`, `:367-373`): the close goes on and counts those messages again. `UsageOnce` and TurnContract excuse
  the Stop that misread; without that TLC finds the message counted twice.
* start.json is created and then written (`turn-state.ts:237`). A hook killed between leaves a file that no later hook rewrites and none can read (`:248-253`), and every close then
  goes by the folder of its Stop: after a `cd` a checkout of another tenant may be reported, with that tenant's token, which the session's start would not have admitted. The same when the file was never written or a close cannot read it. `TenantKept` and
  `StartDecides` count the start as lost then, and ask only for the tenant of the Stop.
* When a worktree is gone, its committed policy is read from its branch with git (`work-checkout.ts:522-532`); when that call fails, only the main checkout's file narrows the
  report. `PolicyKept` excuses the checkout (`Unreadable`).
* A setup, too, takes a key of the user's that already says what it would write for one of its own, and a later off or uninstall removes it as recorded. `UsersKept` excuses keys on record.
* `codex.otel.ts:487-493` reads a config.toml that cannot be read as one that is absent. The model has files that cannot be parsed, not this one; Codex, run by the same user, could not read it either.
* `decision-cache.ts:151-168`: a name that holds the escape itself, `main%7Copus`, still shares a key with `main|opus`.
  `AnswersTheQuestion` is checked for names without it.
* `config.constants.ts:21-27` promises five seconds "between a cap being crossed and the next turn being refused". The TTL
  counts from the answer's arrival, so a decision may be served for five seconds and the time it was in flight.
  `ServedWhileFresh` bounds it by `Window + HookLife`, the hook's own timeout.
* `git/repo-snapshot.ts:83`: a `git log` that fails reads like a branch without commits, and the branch counts as described
  until the next refresh, six hours on.
* A branch name too long for the event is filtered from it and recorded as reported all the same.
* `toggle.ts:85-91`: an `on` whose save of the install state throws has configured an exporter that the rollback, which goes by what was restored,
  does not reach. `SilentWhileOff` excuses it (`clean`).
* `toggle.ts:66-71` asks every exporter to be removed when the record is lost; one set up again without signals has a record without keys, and nothing is removed.
  Keys of a setup that died before its save are on no record either. Excused by `lost`.
* `uninstall.ts:45-66`: when Gemini's hooks are gone and its exporter's removal then fails (its file no longer parses), the record that names its keys is already forgotten; the model counts the record
  as `lost` from then on.
* A config.toml that setup created is private from the start and stays so when the block goes: there is no mode before to restore (`codex.otel.ts`). `ModeRestored` leaves it out.
* setup asks for the off marker once, at its start.
* Two hooks of one turn that both take a checkout for unseen record two baselines, and the later one's change may hide the earlier one's. `ChangeIsReported`
  excuses those checkouts (`raced`).
* `claude.otel.ts` does not look at a headers helper of the user's when it inspects; a summary's start date that does not parse makes its comparison with others NaN,
  so their order depends on who asks. The models leave both out.

## 9. What is not modelled

* *Planned*: section 3, lines 15 and 16.
* *Of the modelled parts*: the model memo of a session and the fields of events, summaries and snapshots; why a request of the gate failed; batches of more than one
  destination; how overlapping Stops of a session write the checkout memo (HookPipeline closes in one step); setup's questions and its verification request; two commands at
  once; the other capture flags of a configuration. QueuePartition and Setup each have the identities, and are not composed. The backend is what its answers are: it takes each event id once.
* SpanBuffer is proved about and was checked with the constants of section 8, but is in no listed run. Of the Python package `call.py` and `fingerprint.py` convert without state.
* *Left out for good*: text scrubbing (a property of regular expressions over strings), the parsing of payloads and
  transcripts of other programs, OTLP conversion, the layout of settings files as text, printing. They hold no
  state that two actors share; the repository's unit tests are the better tool.
* *The file system* is taken to do what POSIX says of one call: rename and exclusive create are atomic, a listing
  returns what was there at one moment. A crash of the machine, with writes not yet on disk, is not modelled.

## 10. Running it

    tlc -workers 2 -config EventQueue.cfg MCEventQueue
    tlapm EventQueue_proofs.tla

The longest runs take two to three minutes with two workers, the longest proof, QueuePartition_proofs, about four minutes
from nothing.
