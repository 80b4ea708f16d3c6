--------------------------- MODULE QueuePartition ---------------------------
(***************************************************************************)
(* Whose backlog a hook sends: src/src/transport/queue-partition.ts and    *)
(* EventQueue.retarget, with the identities of the configuration they ask  *)
(* for and the setup that changes it.                                      *)
(*                                                                         *)
(* A queue is one directory per token.  A hook moves what lies outside of  *)
(* them into one (settle), sends or queues its record, and sweeps or       *)
(* drains its own directory; setup offers to move what a replaced identity *)
(* left behind (retarget).  Each acts on the configuration it loaded, and  *)
(* any of them may be suspended or die between two file system calls.      *)
(* Backoff, attempts and the queue's size are EventQueue's subject.        *)
(***************************************************************************)
EXTENDS Naturals, FiniteSets

CONSTANTS
    Procs,          \* hooks, status runs, setup runs
    Events,         \* product records, by their ids
    Predating,      \* of these, some were queued by a release without partitions
    Tokens, NoToken,
    Urls, NoUrl,
    AnyUrl,         \* ANY_DESTINATION, or an entry that names none
    Absent,         \* no such file
    MaxSetups,      \* bound: setup runs
    MaxFaults       \* bound: crashes, locks broken under a holder

Places == {"machine", "project"}
Shared == {"unconfigured", "loose", "unattributed"}

ASSUME PartitionAssumption ==
    /\ Predating \subseteq Events
    /\ NoToken \notin Tokens /\ Tokens \intersect Shared = {}
    /\ NoUrl \notin Urls /\ AnyUrl \notin Urls
    /\ Absent \notin Urls \union {AnyUrl}
    /\ MaxSetups \in Nat /\ MaxFaults \in Nat

Dirs == Tokens \union Shared
Identity == [token : Tokens \union {NoToken}, url : Urls \union {NoUrl}]
NoIdentity == [token |-> NoToken, url |-> NoUrl]

VARIABLES
    config,         \* config.json: the machine's identity and a project root's
    stored,         \* per directory and record: the entry's destination
    present, holders,   \* the drain lock, see LockContract
    aged,           \* records past maxEventAgeDays
    pc,             \* per process: how far it is
    multiple,       \* per process: its configuration has several identities
    conf,           \* per process: the configuration its setup loaded
    place,          \* per process: what its setup configures
    me,             \* per process: its identity, or the one setup enrolled
    held,           \* per process: the records of its run
    todo            \* per process: entries its loop has left, as it read them

(* History, read by no action but to capture a record once.                *)
VARIABLES
    captured,       \* records of any run so far
    author,         \* per record: the identity it was captured under
    offered,        \* requests: record, token, url
    taken,          \* records a request was accepted for
    lost,           \* records that died with their hook
    sole,           \* tokens that were the machine's only one
    moves,          \* what the user agreed may become what, transitively
    declined,       \* records the user was told would stay and expire
    overrun,        \* the drain lock was broken under its holder
    setups, faults

disk == <<config, stored>>
lock == <<present, holders, overrun>>
local == <<pc, multiple, conf, place, me, held, todo>>
history == <<captured, author, offered, taken, lost, sole, moves, declined, setups, faults>>
vars == <<disk, lock, aged, local, history>>

Lock == INSTANCE LockContract WITH broken <- overrun

-----------------------------------------------------------------------------
(* Whose identity a run at this place has: a root's own, or the machine's. *)
Effective(c, at) ==
    IF c[at].token # NoToken THEN c[at] ELSE c["machine"]

TokensOf(c) == {c[at].token : at \in Places} \ {NoToken}
ServesMultiple(c) == Cardinality(TokensOf(c)) > 1

PartitionName(token) == IF token = NoToken THEN "unconfigured" ELSE token
MyDir(p) == PartitionName(me[p].token)

(* Only the owner of a token nobody shares has a backlog to move.          *)
Exclusive(c, at) ==
    c[at].token # NoToken /\ c["machine"].token # c["project"].token

Matches(entry, url) == entry \in {AnyUrl, url}

(* A project root is an addition to a machine identity, with a token of    *)
(* its own; enrollment finds a URL and, once there is one, a token.        *)
Enrollable(c, at, id) ==
    /\ id.url \in Urls
    /\ c["machine"].token # NoToken \/ at = "project" => id.token # NoToken
    /\ at = "project" => c["machine"].token # NoToken

Configs == {c \in [Places -> Identity] :
    /\ \A at \in Places : c[at] # NoIdentity => c[at].url \in Urls
    /\ c["project"] # NoIdentity => c["project"].token # NoToken /\ c["machine"].token # NoToken}

SoleOf(c) == IF ServesMultiple(c) THEN {} ELSE TokensOf(c)

Init ==
    /\ config \in Configs
    /\ captured \in SUBSET Predating
    /\ \E dest \in [captured -> Urls \union {AnyUrl}] :
        /\ stored = [d \in Dirs |-> [e \in Events |->
                        IF d = "loose" /\ e \in captured THEN dest[e] ELSE Absent]]
        /\ author = [e \in Events |->
                        IF e \in captured /\ dest[e] # AnyUrl
                        THEN [token |-> NoToken, url |-> dest[e]] ELSE NoIdentity]
    /\ present = FALSE /\ holders = {} /\ overrun = FALSE
    /\ aged = {}
    /\ pc = [p \in Procs |-> "idle"]
    /\ multiple = [p \in Procs |-> FALSE]
    /\ conf = [p \in Procs |-> [at \in Places |-> NoIdentity]]
    /\ place = [p \in Procs |-> "machine"]
    /\ me = [p \in Procs |-> NoIdentity]
    /\ held = [p \in Procs |-> {}]
    /\ todo = [p \in Procs |-> {}]
    /\ offered = {}
    /\ taken = {}
    /\ lost = {}
    /\ sole = SoleOf(config)
    /\ moves = {}
    /\ declined = {}
    /\ setups = 0
    /\ faults = 0

Goto(p, label) == pc' = [pc EXCEPT ![p] = label]

End(p) ==
    /\ Goto(p, "idle")
    /\ multiple' = [multiple EXCEPT ![p] = FALSE]
    /\ conf' = [conf EXCEPT ![p] = [at \in Places |-> NoIdentity]]
    /\ place' = [place EXCEPT ![p] = "machine"]
    /\ me' = [me EXCEPT ![p] = NoIdentity]
    /\ held' = [held EXCEPT ![p] = {}]
    /\ todo' = [todo EXCEPT ![p] = {}]

Entries(dirs) ==
    {[dir |-> d, event |-> e, dest |-> stored[d][e]] : d \in dirs, e \in Events}
Files(dirs) == {f \in Entries(dirs) : f.dest # Absent}
There(f) == stored[f.dir][f.event] # Absent

Write(d, e, dest) == stored' = [stored EXCEPT ![d][e] = dest]
Rm(f) == Write(f.dir, f.event, Absent)

(* A rename replaces what is at its target; there is nothing to do within  *)
(* one directory.                                                          *)
Rename(f, target) ==
    stored' = [d \in Dirs |->
        IF d = target THEN [stored[d] EXCEPT ![f.event] = stored[f.dir][f.event]]
        ELSE IF d = f.dir THEN [stored[d] EXCEPT ![f.event] = Absent]
        ELSE stored[d]]

Handled(p, f) == todo' = [todo EXCEPT ![p] = @ \ {f}]

-----------------------------------------------------------------------------
(* A hook, or a status run, loads the configuration.                       *)
Begin(p, at, new) ==
    /\ pc[p] = "idle"
    /\ captured' = captured \union new
    /\ LET id == Effective(config, at)
       IN  /\ multiple' = [multiple EXCEPT ![p] = id.token # NoToken /\ ServesMultiple(config)]
           /\ me' = [me EXCEPT ![p] = id]
           /\ author' = [e \in Events |-> IF e \in new THEN id ELSE author[e]]
           /\ Goto(p, IF id.token = NoToken THEN "moving" ELSE "settle")
    /\ held' = [held EXCEPT ![p] = new]
    /\ UNCHANGED <<disk, lock, aged, conf, place, todo>>
    /\ UNCHANGED <<offered, taken, lost, sole, moves, declined, setups, faults>>

(* settleLegacyQueue: list both sources, then rename file by file.         *)
SettleList(p) ==
    /\ pc[p] = "settle"
    /\ todo' = [todo EXCEPT ![p] = Files({"loose", "unconfigured"})]
    /\ Goto(p, "moving")
    /\ UNCHANGED <<disk, lock, aged, multiple, conf, place, me, held, history>>

TargetAlwaysMine(p) == MyDir(p)         \* a mutant
Target(p) == IF multiple[p] THEN "unattributed" ELSE MyDir(p)

MoveEntry(p, f) ==
    /\ pc[p] = "moving" /\ f \in todo[p]
    /\ IF There(f) THEN Rename(f, Target(p)) ELSE UNCHANGED stored
    /\ Handled(p, f)
    /\ UNCHANGED <<config, lock, aged, pc, multiple, conf, place, me, held, history>>

Settled(p) == pc[p] = "moving" /\ todo[p] = {}

(* The direct send.  A failed request may have arrived all the same.       *)
Offer(p, batch, accepted) ==
    /\ offered' = offered \union
            {[event |-> e, token |-> me[p].token, url |-> me[p].url] : e \in batch}
    /\ taken' = IF accepted THEN taken \union batch ELSE taken

Send(p, accepted) ==
    /\ Settled(p) /\ held[p] # {} /\ me[p].url # NoUrl
    /\ Offer(p, held[p], accepted)
    /\ IF accepted
       THEN Goto(p, "maintain") /\ held' = [held EXCEPT ![p] = {}]
       ELSE Goto(p, "preserve") /\ UNCHANGED held
    /\ UNCHANGED <<disk, lock, aged, multiple, conf, place, me, todo>>
    /\ UNCHANGED <<captured, author, lost, sole, moves, declined, setups, faults>>

(* No backend, a cooldown, or a refused credential.                        *)
Skip(p) ==
    /\ Settled(p) /\ held[p] # {}
    /\ Goto(p, "preserve")
    /\ UNCHANGED <<disk, lock, aged, multiple, conf, place, me, held, todo, history>>

(* enqueue: the file's name is the record's id, so it is written once.     *)
Destination(p) == IF me[p].url = NoUrl THEN AnyUrl ELSE me[p].url

Enqueue(p, e) ==
    /\ pc[p] = "preserve" /\ e \in held[p]
    /\ IF stored[MyDir(p)][e] = Absent
       THEN Write(MyDir(p), e, Destination(p))
       ELSE UNCHANGED stored
    /\ held' = [held EXCEPT ![p] = @ \ {e}]
    /\ Goto(p, IF held[p] = {e} THEN "maintain" ELSE "preserve")
    /\ UNCHANGED <<config, lock, aged, multiple, conf, place, me, todo, history>>

-----------------------------------------------------------------------------
(* maintainQueue.  Both ways begin with the retention sweep of the own     *)
(* directory, without the lock in a hook that may not send.                *)
Maintaining(p) == pc[p] = "maintain" \/ (Settled(p) /\ held[p] = {})
Expired(p) == {f \in Files({MyDir(p)}) : f.event \in aged}

Sweep(p) ==
    /\ Maintaining(p)
    /\ todo' = [todo EXCEPT ![p] = Expired(p)]
    /\ Goto(p, "sweep")
    /\ UNCHANGED <<disk, lock, aged, multiple, conf, place, me, held, history>>

Drain(p) ==
    /\ Maintaining(p) /\ me[p].url # NoUrl
    /\ Lock!Acquire(p)
    /\ todo' = [todo EXCEPT ![p] = Expired(p)]
    /\ Goto(p, "sweep")
    /\ UNCHANGED <<disk, aged, multiple, conf, place, me, held, history>>

Remove(p, f) ==
    /\ pc[p] \in {"sweep", "clear"} /\ f \in todo[p]
    /\ Rm(f)
    /\ Handled(p, f)
    /\ UNCHANGED <<config, lock, aged, pc, multiple, conf, place, me, held, history>>

(* collectDue: entries in memory, of this destination or of any.           *)
Collect(p, batch) ==
    /\ pc[p] = "sweep" /\ todo[p] = {} /\ p \in holders
    /\ batch # {}
    /\ \A f \in batch : Matches(f.dest, me[p].url) /\ f.event \notin aged
    /\ todo' = [todo EXCEPT ![p] = batch]
    /\ Goto(p, "request")
    /\ UNCHANGED <<disk, lock, aged, multiple, conf, place, me, held, history>>

(* What was accepted is removed; a failure is written back with the entry  *)
(* as it was read.                                                         *)
RequestOnce(p, accepted) ==             \* a mutant: failed entries go too
    /\ pc[p] = "request"
    /\ Offer(p, {f.event : f \in todo[p]}, accepted)
    /\ Goto(p, "clear")
    /\ UNCHANGED <<disk, lock, aged, multiple, conf, place, me, held, todo>>
    /\ UNCHANGED <<captured, author, lost, sole, moves, declined, setups, faults>>

Request(p, accepted) ==
    /\ pc[p] = "request"
    /\ Offer(p, {f.event : f \in todo[p]}, accepted)
    /\ Goto(p, IF accepted THEN "clear" ELSE "charge")
    /\ UNCHANGED <<disk, lock, aged, multiple, conf, place, me, held, todo>>
    /\ UNCHANGED <<captured, author, lost, sole, moves, declined, setups, faults>>

Charge(p, f) ==
    /\ pc[p] = "charge" /\ f \in todo[p]
    /\ Write(f.dir, f.event, f.dest)
    /\ Handled(p, f)
    /\ UNCHANGED <<config, lock, aged, pc, multiple, conf, place, me, held, history>>

Unlock(p) == IF p \in holders THEN Lock!Release(p) ELSE UNCHANGED lock

Finish(p) ==
    /\ pc[p] \in {"sweep", "clear", "charge", "retarget"} /\ todo[p] = {}
    /\ Unlock(p)
    /\ End(p)
    /\ UNCHANGED <<disk, aged, history>>

(* Another process drains: the pass is skipped.                            *)
Busy(p) ==
    /\ Maintaining(p) /\ me[p].url # NoUrl /\ present
    /\ End(p)
    /\ UNCHANGED <<disk, lock, aged, history>>

-----------------------------------------------------------------------------
(* runSetup: load, save, offer, and retarget when the user agrees.         *)
Setup(p, at, id) ==
    /\ pc[p] = "idle"
    /\ setups < MaxSetups
    /\ setups' = setups + 1
    /\ Enrollable(config, at, id)
    /\ conf' = [conf EXCEPT ![p] = config]
    /\ place' = [place EXCEPT ![p] = at]
    /\ me' = [me EXCEPT ![p] = id]
    /\ Goto(p, "save")
    /\ UNCHANGED <<disk, lock, aged, multiple, held, todo>>
    /\ UNCHANGED <<captured, author, offered, taken, lost, sole, moves, declined, faults>>

Before(p) == conf[p][place[p]]
Updated(p) == [conf[p] EXCEPT ![place[p]] = me[p]]

SaveConfig(p) ==
    /\ pc[p] = "save"
    /\ config' = Updated(p)
    /\ sole' = sole \union SoleOf(Updated(p))
    /\ Goto(p, "offer")
    /\ UNCHANGED <<stored, lock, aged, multiple, conf, place, me, held, todo>>
    /\ UNCHANGED <<captured, author, offered, taken, lost, moves, declined, setups, faults>>

(* What the replaced identity left in its directory for its URL.           *)
PendingFor(p) == {f \in Files({Before(p).token}) : f.dest = Before(p).url}

Stranded(p) ==
    IF Before(p).token = NoToken \/ Before(p) = me[p] THEN {} ELSE PendingFor(p)

CanMigrate(p) == Exclusive(conf[p], place[p]) /\ Exclusive(Updated(p), place[p])

Extend(relation, x, y) ==
    relation \union
        {<<v, w>> : v \in {x} \union {u[1] : u \in {r \in relation : r[2] = x}},
                    w \in {y} \union {u[2] : u \in {r \in relation : r[1] = y}}}

Agree(p) ==
    /\ pc[p] = "offer" /\ Stranded(p) # {} /\ CanMigrate(p)
    /\ moves' = Extend(Extend(moves, Before(p).token, me[p].token), Before(p).url, me[p].url)
    /\ Goto(p, "lock")
    /\ UNCHANGED <<disk, lock, aged, multiple, conf, place, me, held, todo>>
    /\ UNCHANGED <<captured, author, offered, taken, lost, sole, declined, setups, faults>>

(* The user says no, or is told that the backlog cannot be migrated.       *)
Keep(p) ==
    /\ pc[p] = "offer"
    /\ declined' = declined \union {f.event : f \in Stranded(p)}
    /\ End(p)
    /\ UNCHANGED <<disk, lock, aged>>
    /\ UNCHANGED <<captured, author, offered, taken, lost, sole, moves, setups, faults>>

(* retarget lists its files under the drain lock.                          *)
RetargetUnlocked(p) ==                  \* a mutant
    /\ pc[p] = "lock"
    /\ Goto(p, "retarget")
    /\ todo' = [todo EXCEPT ![p] = Files({Before(p).token})]
    /\ UNCHANGED <<disk, lock, aged, multiple, conf, place, me, held, history>>

Retarget(p) ==
    /\ pc[p] = "lock"
    /\ Lock!Acquire(p)
    /\ Goto(p, "retarget")
    /\ todo' = [todo EXCEPT ![p] = Files({Before(p).token})]
    /\ UNCHANGED <<disk, aged, multiple, conf, place, me, held, history>>

(* waitForDrainLock gives up.                                              *)
QueueBusy(p) ==
    /\ pc[p] = "lock" /\ present
    /\ End(p)
    /\ UNCHANGED <<disk, lock, aged, history>>

(* An entry is read again, and only one of the previous URL goes on; it is *)
(* written back with the new one, then renamed into the new directory.     *)
Reread(p, f) ==
    /\ pc[p] = "retarget" /\ f \in todo[p]
    /\ IF stored[f.dir][f.event] = Before(p).url
       THEN held' = [held EXCEPT ![p] = {f.event}] /\ Goto(p, "repin")
       ELSE UNCHANGED <<held, pc>>
    /\ Handled(p, f)
    /\ UNCHANGED <<disk, lock, aged, multiple, conf, place, me, history>>

Repin(p, e) ==
    /\ pc[p] = "repin" /\ e \in held[p]
    /\ Write(Before(p).token, e, me[p].url)
    /\ IF me[p].token = Before(p).token
       THEN Goto(p, "retarget") /\ held' = [held EXCEPT ![p] = {}]
       ELSE Goto(p, "rename") /\ UNCHANGED held
    /\ UNCHANGED <<config, lock, aged, multiple, conf, place, me, todo, history>>

Repinned(e, p) == [dir |-> Before(p).token, event |-> e, dest |-> me[p].url]

RenameRepinned(p, e) ==
    /\ pc[p] = "rename" /\ e \in held[p]
    /\ There(Repinned(e, p))
    /\ Rename(Repinned(e, p), me[p].token)
    /\ Goto(p, "retarget")
    /\ held' = [held EXCEPT ![p] = {}]
    /\ UNCHANGED <<config, lock, aged, multiple, conf, place, me, todo, history>>

(* A sweep took the file in between: the rename throws, and setup with it. *)
RetargetThrows(p, e) ==
    /\ pc[p] = "rename" /\ e \in held[p]
    /\ ~There(Repinned(e, p))
    /\ Unlock(p)
    /\ End(p)
    /\ UNCHANGED <<disk, aged, history>>

-----------------------------------------------------------------------------
(* A process dies; a lock file it leaves, or outlives by 30 s, is broken.  *)
InHand(p) == IF pc[p] \in {"settle", "moving", "preserve"} THEN held[p] ELSE {}

Crash(p) ==
    /\ pc[p] # "idle"
    /\ faults < MaxFaults
    /\ faults' = faults + 1
    /\ lost' = lost \union InHand(p)
    /\ IF p \in holders THEN Lock!Die(p) ELSE UNCHANGED lock
    /\ End(p)
    /\ UNCHANGED <<disk, aged>>
    /\ UNCHANGED <<captured, author, offered, taken, sole, moves, declined, setups>>

BreakOrphan ==
    /\ holders = {}
    /\ present /\ present' = FALSE
    /\ UNCHANGED <<disk, holders, overrun, aged, local, history>>

BreakHeld ==
    /\ holders # {}
    /\ faults < MaxFaults
    /\ faults' = faults + 1
    /\ Lock!Break
    /\ UNCHANGED <<disk, aged, local>>
    /\ UNCHANGED <<captured, author, offered, taken, lost, sole, moves, declined, setups>>

Age(e) ==
    /\ e \notin aged
    /\ \E d \in Dirs : stored[d][e] # Absent
    /\ aged' = aged \union {e}
    /\ UNCHANGED <<disk, lock, local, history>>

Continue(p) ==
    \/ SettleList(p) \/ Skip(p) \/ Sweep(p) \/ Drain(p)
    \/ Finish(p) \/ Busy(p) \/ SaveConfig(p) \/ Agree(p) \/ Keep(p)
    \/ Retarget(p) \/ QueueBusy(p)
    \/ \E accepted \in BOOLEAN : Send(p, accepted) \/ Request(p, accepted)
    \/ \E batch \in SUBSET Files({MyDir(p)}) : Collect(p, batch)
    \/ \E f \in todo[p] : MoveEntry(p, f) \/ Remove(p, f) \/ Charge(p, f) \/ Reread(p, f)
    \/ \E e \in held[p] : Enqueue(p, e) \/ Repin(p, e) \/ RenameRepinned(p, e) \/ RetargetThrows(p, e)

Next ==
    \/ BreakOrphan \/ BreakHeld
    \/ \E e \in Events : Age(e)
    \/ \E p \in Procs :
        \/ \E at \in Places, new \in SUBSET (Events \ captured) : Begin(p, at, new)
        \/ \E at \in Places, id \in Identity : Setup(p, at, id)
        \/ Continue(p) \/ Crash(p)

Spec == Init /\ [][Next]_vars

(* Processes run to their end, an orphaned lock is broken, and hooks come  *)
(* at every place for as long as the machine is used.                      *)
FairSpec ==
    /\ Spec
    /\ WF_vars(BreakOrphan)
    /\ \A p \in Procs : WF_vars(Continue(p))
    /\ \A at \in Places : SF_vars(\E p \in Procs : Begin(p, at, {}))

-----------------------------------------------------------------------------
Listed == [dir : Dirs, event : Events, dest : Urls \union {AnyUrl}]

TypeOK ==
    /\ config \in Configs
    /\ stored \in [Dirs -> [Events -> Urls \union {AnyUrl, Absent}]]
    /\ Lock!TypeOK
    /\ aged \subseteq Events
    /\ pc \in [Procs -> {"idle", "settle", "moving", "preserve", "maintain", "sweep",
                         "request", "clear", "charge", "save", "offer", "lock", "retarget",
                         "repin", "rename"}]
    /\ multiple \in [Procs -> BOOLEAN]
    /\ conf \in [Procs -> Configs]
    /\ place \in [Procs -> Places]
    /\ me \in [Procs -> Identity]
    /\ held \in [Procs -> SUBSET Events]
    /\ todo \in [Procs -> SUBSET Listed]
    /\ author \in [Events -> Identity]
    /\ captured \subseteq Events /\ taken \subseteq Events /\ lost \subseteq Events /\ declined \subseteq Events
    /\ sole \subseteq Tokens
    /\ setups \in Nat /\ faults \in Nat

(* A drain sends only what belongs to the token it signs with              *)
(* (queue-partition.ts:32-40): whatever configuration a hook or a setup    *)
(* still acts on, a record goes to the identity it was captured under, or  *)
(* where the user agreed that it may go.  One captured under no token goes *)
(* only to a token that once was the machine's only one.                   *)
Became(x, y) == x = y \/ <<x, y>> \in moves

SentWhereConsented ==
    \A o \in offered :
        LET from == author[o.event]
        IN  /\ IF from.token = NoToken
               THEN o.token = NoToken \/ \E t \in sole : Became(t, o.token)
               ELSE Became(from.token, o.token)
            /\ from.url = NoUrl \/ Became(from.url, o.url)

(* A retarget, whatever drains, sweeps, crashes and other setups do at the *)
(* time, leaves one copy of a record, never two (queue.ts:192-195), unless *)
(* the drain lock was broken under a drain, which then writes back what it *)
(* has read.                                                               *)
Copies(e) == {d \in Dirs : stored[d][e] # Absent}
OneCopy ==
    overrun \/ \A e \in Events : author[e].token # NoToken => Cardinality(Copies(e)) <= 1

(* No move loses a record: it is on disk, or was accepted, or is past its  *)
(* age, or its hook still has it or died with it.                          *)
NothingLost ==
    \A e \in captured :
        \/ e \in taken \union lost \union aged
        \/ Copies(e) # {}
        \/ \E p \in Procs : e \in InHand(p)

(* The last three do not hold (README, divergences).                       *)
(* settleLegacyQueue, queue-partition.ts:125: a rename is atomic, "so  *)
(* no lock is needed".  A drain without a token writes back what it read   *)
(* from unconfigured/ after a hook with one has moved it.                  *)
SettledOnce == overrun \/ \A e \in Events : Cardinality(Copies(e)) <= 1

(* What the user keeps under the previous identity "expires after" its     *)
(* days (setup.ts:538), but a sweep lists only the directory of a token    *)
(* that is still configured.                                               *)
KeptExpires ==
    \A e \in Events : (e \in declined \intersect aged) ~> (Copies(e) = {})

(* A crash between the re-pin and the rename leaves an entry "where the    *)
(* next setup finds it again" (queue.ts:194-195).  The next offer counts   *)
(* entries of the URL that is configured by then, in the directory of the  *)
(* token that is.                                                          *)
Offerable(d, e) == \E at \in Places : config[at] = [token |-> d, url |-> stored[d][e]]

RepinnedIsFound ==
    \A d \in Tokens, e \in Events :
        /\ \A p \in Procs : pc[p] = "idle"
        /\ author[e].url \in Urls /\ stored[d][e] \in Urls \ {author[e].url}
        => Offerable(d, e)
=============================================================================
