----------------------- MODULE QueuePartition_proofs ------------------------
(***************************************************************************)
(* That a record goes only where its identity or the user wants it, that   *)
(* moving a backlog loses no record and leaves one copy of it, for any     *)
(* processes, records, tokens, URLs and bounds.                            *)
(*                                                                         *)
(* Typed: the types, and what a process knows of the entries in its loop.  *)
(* Keeping: what is on disk was captured, what a hook holds is nowhere     *)
(* else, what a loop removes may go; NothingLost is inductive beside it.   *)
(* Consented: each entry, on disk or in a process's memory, lies where its *)
(* author or the user's consent lets it be, and consent is transitive; an  *)
(* offer is then rightful whoever makes it.                                *)
(* Single, while no lock was broken under its holder: a record captured    *)
(* under a token has one copy, and the one process that may write it back  *)
(* has it from there.                                                      *)
(***************************************************************************)
EXTENDS QueuePartition, FiniteSetTheorems, TLAPS

Setting == {"save", "offer", "lock", "retarget", "repin", "rename"}
Retargeting == {"lock", "retarget", "repin", "rename"}
Draining == {"request", "charge", "retarget", "repin", "rename"}

(* What a process knows of the entries in its loop and of its identities.  *)
Local(p) ==
    /\ pc[p] = "idle" => todo[p] = {}
    /\ pc[p] = "settle" => me[p].token # NoToken
    /\ pc[p] = "moving" => \A f \in todo[p] : me[p].token # NoToken /\ f.dir \in {"loose", "unconfigured"}
    /\ pc[p] \in {"sweep", "request", "clear", "charge"} => \A f \in todo[p] : f.dir = MyDir(p)
    /\ pc[p] \in Setting => Enrollable(conf[p], place[p], me[p])
    /\ pc[p] \in Retargeting => Before(p).token \in Tokens /\ Before(p).url \in Urls /\ me[p].token \in Tokens
    /\ pc[p] \in {"retarget", "repin", "rename"} => \A f \in todo[p] : f.dir = Before(p).token
    /\ pc[p] = "rename" => me[p].token # Before(p).token
    /\ pc[p] \in {"sweep", "request", "clear", "charge", "maintain"} => held[p] = {}

Typed == TypeOK /\ \A p \in Procs : Local(p)

(* What is stored, in hand or in a loop was captured.                      *)
KnownStored == \A d \in Dirs, e \in Events : stored[d][e] # Absent => e \in captured
KnownBy(p) == held[p] \subseteq captured /\ \A f \in todo[p] : f.event \in captured
Known == KnownStored /\ \A p \in Procs : KnownBy(p)

(* What a hook has in its hands is nowhere else.                           *)
Only(p, e) ==
    /\ \A d \in Dirs : stored[d][e] = Absent
    /\ \A q \in Procs : (e \in held[q] => q = p) /\ \A f \in todo[q] : f.event # e
Apart == \A p \in Procs : \A e \in InHand(p) : Only(p, e)

(* What a loop removes may go.                                             *)
Disposable(p) ==
    /\ pc[p] = "sweep" => \A f \in todo[p] : f.event \in aged
    /\ pc[p] = "clear" => \A f \in todo[p] : f.event \in taken

(* Where the user's consent lets a record be, and where it lets it go.     *)
MayBeIn(e, d) ==
    /\ d \in Shared => author[e].token = NoToken
    /\ d \in Tokens => IF author[e].token = NoToken THEN \E t \in sole : Became(t, d)
                       ELSE Became(author[e].token, d)
MayGoTo(e, dest) ==
    /\ dest = AnyUrl => author[e].url = NoUrl
    /\ dest \in Urls => author[e].url = NoUrl \/ Became(author[e].url, dest)

Parties == Tokens \union Urls

(* A relation of tokens and of URLs that says how far consent reaches.     *)
Transitive(R) ==
    /\ R \subseteq Parties \X Parties
    /\ \A x, y, z \in Parties : <<x, y>> \in R /\ <<y, z>> \in R => <<x, z>> \in R

(* What a process has in memory, it has where consent lets it.             *)
Consenting(p) ==
    /\ pc[p] \in {"settle", "moving"} /\ me[p].token # NoToken /\ ~multiple[p] => me[p].token \in sole
    /\ \A e \in InHand(p) : author[e] = me[p]
    /\ pc[p] \in {"request", "charge"} => \A f \in todo[p] :
        MayBeIn(f.event, f.dir) /\ MayGoTo(f.event, f.dest) /\ Matches(f.dest, me[p].url)
    /\ pc[p] \in Retargeting => Became(Before(p).token, me[p].token) /\ Became(Before(p).url, me[p].url)
    /\ pc[p] \in {"repin", "rename"} => \A e \in held[p] : MayBeIn(e, Before(p).token) /\ MayGoTo(e, Before(p).url)

(* So has the disk.                                                        *)
InPlace == \A d \in Dirs, e \in Events : stored[d][e] # Absent => MayBeIn(e, d) /\ MayGoTo(e, stored[d][e])

(* Only captured records are offered.                                      *)
Asked == \A o \in offered : o.event \in captured

Consented ==
    /\ Asked /\ Transitive(moves) /\ SoleOf(config) \subseteq sole
    /\ InPlace
    /\ \A p \in Procs : Consenting(p)

(* While no lock was broken one process has it, and whoever drains has it. *)
Mutual == (\A p, q \in holders : p = q) /\ (holders # {} => present)
HasLock(p) == pc[p] \in Draining => p \in holders

Locking == (~overrun => Mutual) /\ \A p \in Procs : HasLock(p)

(* A record captured under a token is in one directory,                    *)
Signed(e) == author[e].token # NoToken
InOne(e, d) == \A c \in Dirs : stored[c][e] # Absent => c = d
OneDir(e) == \A c, d \in Dirs : stored[c][e] # Absent /\ stored[d][e] # Absent => c = d
(* ... the one a drain that may write it back knows it to be in.           *)
OneInMind(p, e) ==
    /\ pc[p] \in {"request", "charge"} => \A f \in todo[p] : f.event = e => InOne(e, f.dir)
    /\ pc[p] \in {"repin", "rename"} /\ e \in held[p] => InOne(e, Before(p).token)

Single ==
    ~overrun => \A e \in captured : Signed(e) => OneDir(e) /\ \A p \in Procs : OneInMind(p, e)

-----------------------------------------------------------------------------
Labels == {"idle", "settle", "moving", "preserve", "maintain", "sweep",
           "request", "clear", "charge", "save", "offer", "lock", "retarget", "repin", "rename"}

(* TypeOK in parts: no prover takes the flags and the sets at once.        *)
Flags == present \in BOOLEAN /\ overrun \in BOOLEAN /\ multiple \in [Procs -> BOOLEAN]
Stores == stored \in [Dirs -> [Events -> Urls \union {AnyUrl, Absent}]]
Stage == pc \in [Procs -> Labels]
Names == config \in Configs /\ conf \in [Procs -> Configs] /\ place \in [Procs -> Places] /\ me \in [Procs -> Identity]
Hands == held \in [Procs -> SUBSET Events] /\ todo \in [Procs -> SUBSET Listed]
Past ==
    /\ holders \subseteq Procs
    /\ aged \subseteq Events
    /\ author \in [Events -> Identity]
    /\ captured \subseteq Events /\ taken \subseteq Events /\ lost \subseteq Events /\ declined \subseteq Events
    /\ sole \subseteq Tokens
    /\ setups \in Nat /\ faults \in Nat

(* The parts make the type, before a step and after it.                    *)
LEMMA Parts ==
    /\ TypeOK <=> Flags /\ Stores /\ Stage /\ Names /\ Hands /\ Past
    /\ TypeOK' <=> Flags' /\ Stores' /\ Stage' /\ Names' /\ Hands' /\ Past'
BY DEF TypeOK, Flags, Stores, Stage, Names, Hands, Past, Lock!TypeOK, Labels

(* An identity with a token has a URL, wherever it is configured.          *)
LEMMA ConfigUrls ==
    ASSUME NEW c \in Configs, NEW at \in Places
    PROVE  /\ c[at] \in Identity /\ c[at].token \in Tokens \union {NoToken}
           /\ c[at].token # NoToken => c[at].url \in Urls
BY PartitionAssumption DEF Configs, Identity, NoIdentity

(* What enrollment accepts at a place leaves a configuration.              *)
LEMMA UpdateIsConfig ==
    ASSUME NEW c \in Configs, NEW at \in Places, NEW id \in Identity, Enrollable(c, at, id)
    PROVE  [c EXCEPT ![at] = id] \in Configs
BY PartitionAssumption DEF Configs, Identity, NoIdentity, Enrollable, Places

(* The empty configuration is one.                                         *)
LEMMA NoConfig ==
    /\ [at \in Places |-> NoIdentity] \in Configs
    /\ NoIdentity \in Identity
BY DEF Configs, Identity, NoIdentity, Places

(* The identity of a place is an identity.                                 *)
LEMMA EffectiveIs ==
    ASSUME NEW c \in Configs, NEW at \in Places
    PROVE  Effective(c, at) \in Identity
BY DEF Configs, Effective, Places

(* A process's directory is its token's, or unconfigured/.                 *)
LEMMA MyDirIs ==
    ASSUME Names, NEW p \in Procs
    PROVE  /\ me[p] \in Identity /\ MyDir(p) \in Dirs
           /\ me[p].token = NoToken => MyDir(p) = "unconfigured"
           /\ me[p].token # NoToken => MyDir(p) = me[p].token /\ me[p].token \in Tokens
BY DEF Names, MyDir, PartitionName, Identity, Dirs, Shared

(* What a listing returns: the entries that are there.                     *)
LEMMA FilesAre ==
    ASSUME Stores, NEW dirs \in SUBSET Dirs
    PROVE  /\ Files(dirs) \subseteq Listed
           /\ \A f \in Files(dirs) : /\ f.dir \in dirs /\ f.event \in Events
                                     /\ f.dest = stored[f.dir][f.event] /\ f.dest # Absent
BY DEF Stores, Files, Entries, Listed

(* One write changes one entry.                                            *)
LEMMA WriteIs ==
    ASSUME Stores, NEW d \in Dirs, NEW e \in Events, NEW x \in Urls \union {AnyUrl, Absent}, Write(d, e, x)
    PROVE  /\ Stores'
           /\ \A c \in Dirs, g \in Events :
                stored'[c][g] = IF c = d /\ g = e THEN x ELSE stored[c][g]
BY DEF Stores, Write

(* A rename moves one entry over what is at its target.                    *)
LEMMA RenameIs ==
    ASSUME Stores, NEW f, f.dir \in Dirs, f.event \in Events, NEW target \in Dirs, Rename(f, target)
    PROVE  /\ Stores'
           /\ \A c \in Dirs, g \in Events :
                stored'[c][g] = IF g # f.event THEN stored[c][g]
                                ELSE IF c = target THEN stored[f.dir][f.event]
                                ELSE IF c = f.dir THEN Absent
                                ELSE stored[c][g]
<1>1. \A c \in Dirs : stored[c] \in [Events -> Urls \union {AnyUrl, Absent}]
  BY DEF Stores
<1> DEFINE x == stored[f.dir][f.event]
<1>3. x \in Urls \union {AnyUrl, Absent}
  BY <1>1
<1>4. stored' = [d \in Dirs |-> IF d = target THEN [stored[d] EXCEPT ![f.event] = x]
                               ELSE IF d = f.dir THEN [stored[d] EXCEPT ![f.event] = Absent]
                               ELSE stored[d]]
  BY DEF Rename
<1> HIDE DEF x
<1>5. \A c \in Dirs : stored'[c] \in [Events -> Urls \union {AnyUrl, Absent}]
  BY <1>1, <1>3, <1>4
<1>6. Stores'
  BY <1>4, <1>5 DEF Stores
<1>7. ASSUME NEW c \in Dirs, NEW g \in Events
      PROVE  stored'[c][g] = IF g # f.event THEN stored[c][g]
                             ELSE IF c = target THEN x
                             ELSE IF c = f.dir THEN Absent
                             ELSE stored[c][g]
  BY <1>1, <1>4
<1> QED
  BY <1>6, <1>7 DEF x

(* A process that ends forgets all it knew, and only that.                 *)
LEMMA EndIs ==
    ASSUME NEW p \in Procs, End(p), Flags, Stage, Names, Hands
    PROVE  /\ Stage' /\ (config' = config => Names') /\ Hands'
           /\ \A q \in Procs :
                IF q = p THEN pc'[q] = "idle" /\ held'[q] = {} /\ todo'[q] = {}
                ELSE /\ pc'[q] = pc[q] /\ held'[q] = held[q] /\ todo'[q] = todo[q]
                     /\ me'[q] = me[q] /\ conf'[q] = conf[q] /\ place'[q] = place[q] /\ multiple'[q] = multiple[q]
<1>1. Stage' /\ Hands'
  BY DEF End, Goto, Stage, Labels, Hands
<1>2. config' = config => Names'
  <2>1. conf' \in [Procs -> Configs]
    BY NoConfig DEF End, Names
  <2>2. place' \in [Procs -> Places] /\ me' \in [Procs -> Identity]
    BY NoConfig DEF End, Names, Places
  <2> QED
    BY <2>1, <2>2 DEF Names
<1>3. ASSUME NEW q \in Procs, q # p
      PROVE  /\ pc'[q] = pc[q] /\ held'[q] = held[q] /\ todo'[q] = todo[q]
             /\ me'[q] = me[q] /\ conf'[q] = conf[q] /\ place'[q] = place[q] /\ multiple'[q] = multiple[q]
  BY <1>3 DEF End, Goto, Stage, Names, Hands, Flags
<1>4. pc'[p] = "idle" /\ held'[p] = {} /\ todo'[p] = {}
  BY DEF End, Goto, Stage, Hands
<1> QED
  BY <1>1, <1>2, <1>3, <1>4

(* Every step keeps the flags.                                             *)
LEMMA FlagsNext ==
    ASSUME Flags, [Next]_vars
    PROVE  Flags'
<1> USE DEF Flags, disk, lock, local, history
<1>1. CASE BreakOrphan
  BY <1>1 DEF BreakOrphan
<1>2. CASE BreakHeld
  BY <1>2 DEF BreakHeld, Lock!Break
<1>3. ASSUME NEW e \in Events, Age(e)
      PROVE  Flags'
  BY <1>3 DEF Age
<1>4. ASSUME NEW p \in Procs, NEW at \in Places, NEW new \in SUBSET (Events \ captured), Begin(p, at, new)
      PROVE  Flags'
  BY <1>4 DEF Begin, Effective, Goto
<1>5. ASSUME NEW p \in Procs, NEW at \in Places, NEW id \in Identity, Setup(p, at, id)
      PROVE  Flags'
  BY <1>5 DEF Setup, Goto
<1>6. ASSUME NEW p \in Procs, SettleList(p)
      PROVE  Flags'
  BY <1>6 DEF SettleList, Goto, Files, Entries
<1>7. ASSUME NEW p \in Procs, Skip(p)
      PROVE  Flags'
  BY <1>7 DEF Skip, Settled, Goto
<1>8. ASSUME NEW p \in Procs, Sweep(p)
      PROVE  Flags'
  BY <1>8 DEF Sweep, Maintaining, Settled, Goto, Expired, Files, Entries
<1>9. ASSUME NEW p \in Procs, Drain(p)
      PROVE  Flags'
  BY <1>9 DEF Drain, Maintaining, Settled, Lock!Acquire, Goto, Expired, Files, Entries
<1>10. ASSUME NEW p \in Procs, Finish(p)
      PROVE  Flags'
  BY <1>10 DEF Finish, Unlock, Lock!Release, End, Goto
<1>11. ASSUME NEW p \in Procs, Busy(p)
      PROVE  Flags'
  BY <1>11 DEF Busy, Maintaining, Settled, End, Goto
<1>12. ASSUME NEW p \in Procs, SaveConfig(p)
      PROVE  Flags'
  BY <1>12 DEF SaveConfig, Updated, Goto
<1>13. ASSUME NEW p \in Procs, Agree(p)
      PROVE  Flags'
  BY <1>13 DEF Agree, Goto
<1>14. ASSUME NEW p \in Procs, Keep(p)
      PROVE  Flags'
  BY <1>14 DEF Keep, End, Goto
<1>15. ASSUME NEW p \in Procs, Retarget(p)
      PROVE  Flags'
  BY <1>15 DEF Retarget, Lock!Acquire, Goto, Files, Entries
<1>16. ASSUME NEW p \in Procs, QueueBusy(p)
      PROVE  Flags'
  BY <1>16 DEF QueueBusy, End, Goto
<1>17. ASSUME NEW p \in Procs, NEW accepted \in BOOLEAN, Send(p, accepted)
      PROVE  Flags'
  BY <1>17 DEF Send, Settled, Offer, Goto
<1>18. ASSUME NEW p \in Procs, NEW accepted \in BOOLEAN, Request(p, accepted)
      PROVE  Flags'
  BY <1>18 DEF Request, Offer, Goto
<1>19. ASSUME NEW p \in Procs, NEW batch \in SUBSET Files({MyDir(p)}), Collect(p, batch)
      PROVE  Flags'
  BY <1>19 DEF Collect, Goto, Files, Entries
<1>20. ASSUME NEW p \in Procs, NEW f \in todo[p], MoveEntry(p, f)
      PROVE  Flags'
  BY <1>20 DEF MoveEntry, Handled
<1>21. ASSUME NEW p \in Procs, NEW f \in todo[p], Remove(p, f)
      PROVE  Flags'
  BY <1>21 DEF Remove, Rm, Write, Handled
<1>22. ASSUME NEW p \in Procs, NEW f \in todo[p], Charge(p, f)
      PROVE  Flags'
  BY <1>22 DEF Charge, Write, Handled
<1>23. ASSUME NEW p \in Procs, NEW f \in todo[p], Reread(p, f)
      PROVE  Flags'
  BY <1>23 DEF Reread, Goto, Handled
<1>24. ASSUME NEW p \in Procs, NEW e \in held[p], Enqueue(p, e)
      PROVE  Flags'
  BY <1>24 DEF Enqueue, Write, Destination, Goto
<1>25. ASSUME NEW p \in Procs, NEW e \in held[p], Repin(p, e)
      PROVE  Flags'
  BY <1>25 DEF Repin, Write, Goto
<1>26. ASSUME NEW p \in Procs, NEW e \in held[p], RenameRepinned(p, e)
      PROVE  Flags'
  BY <1>26 DEF RenameRepinned, Repinned, Rename, There, Goto
<1>27. ASSUME NEW p \in Procs, NEW e \in held[p], RetargetThrows(p, e)
      PROVE  Flags'
  BY <1>27 DEF RetargetThrows, Unlock, Lock!Release, End, Goto
<1>28. ASSUME NEW p \in Procs, Crash(p)
      PROVE  Flags'
  BY <1>28 DEF Crash, Lock!Die, End, Goto
<1>29. CASE UNCHANGED vars
  BY <1>29 DEF vars
<1> QED
  BY <1>1, <1>2, <1>3, <1>4, <1>5, <1>6, <1>7, <1>8, <1>9, <1>10, <1>11, <1>12, <1>13, <1>14, <1>15,
     <1>16, <1>17, <1>18, <1>19, <1>20, <1>21, <1>22, <1>23, <1>24, <1>25, <1>26, <1>27, <1>28,
     <1>29
  DEF Next, Continue

(* Every step leaves entries in the directories.                           *)
LEMMA StoresNext ==
    ASSUME Stores, Hands, Names, Stage, \A q \in Procs : Local(q), [Next]_vars
    PROVE  Stores'
<1> USE PartitionAssumption DEF disk, lock, local, history
<1>1. CASE BreakOrphan
  BY <1>1 DEF BreakOrphan, Stores
<1>2. CASE BreakHeld
  BY <1>2 DEF BreakHeld, Lock!Break, Stores
<1>3. ASSUME NEW e \in Events, Age(e)
      PROVE  Stores'
  BY <1>3 DEF Age, Stores
<1>4. ASSUME NEW p \in Procs, NEW at \in Places, NEW new \in SUBSET (Events \ captured), Begin(p, at, new)
      PROVE  Stores'
  BY <1>4 DEF Begin, Effective, Goto, Stores
<1>5. ASSUME NEW p \in Procs, NEW at \in Places, NEW id \in Identity, Setup(p, at, id)
      PROVE  Stores'
  BY <1>5 DEF Setup, Goto, Stores
<1>6. ASSUME NEW p \in Procs, SettleList(p)
      PROVE  Stores'
  BY <1>6 DEF SettleList, Goto, Files, Entries, Stores
<1>7. ASSUME NEW p \in Procs, Skip(p)
      PROVE  Stores'
  BY <1>7 DEF Skip, Settled, Goto, Stores
<1>8. ASSUME NEW p \in Procs, Sweep(p)
      PROVE  Stores'
  BY <1>8 DEF Sweep, Maintaining, Settled, Goto, Expired, Files, Entries, Stores
<1>9. ASSUME NEW p \in Procs, Drain(p)
      PROVE  Stores'
  BY <1>9 DEF Drain, Maintaining, Settled, Lock!Acquire, Goto, Expired, Files, Entries, Stores
<1>10. ASSUME NEW p \in Procs, Finish(p)
      PROVE  Stores'
  BY <1>10 DEF Finish, Unlock, Lock!Release, End, Goto, Stores
<1>11. ASSUME NEW p \in Procs, Busy(p)
      PROVE  Stores'
  BY <1>11 DEF Busy, Maintaining, Settled, End, Goto, Stores
<1>12. ASSUME NEW p \in Procs, SaveConfig(p)
      PROVE  Stores'
  BY <1>12 DEF SaveConfig, Updated, Goto, Stores
<1>13. ASSUME NEW p \in Procs, Agree(p)
      PROVE  Stores'
  BY <1>13 DEF Agree, Goto, Stores
<1>14. ASSUME NEW p \in Procs, Keep(p)
      PROVE  Stores'
  BY <1>14 DEF Keep, End, Goto, Stores
<1>15. ASSUME NEW p \in Procs, Retarget(p)
      PROVE  Stores'
  BY <1>15 DEF Retarget, Lock!Acquire, Goto, Files, Entries, Stores
<1>16. ASSUME NEW p \in Procs, QueueBusy(p)
      PROVE  Stores'
  BY <1>16 DEF QueueBusy, End, Goto, Stores
<1>17. ASSUME NEW p \in Procs, NEW accepted \in BOOLEAN, Send(p, accepted)
      PROVE  Stores'
  BY <1>17 DEF Send, Settled, Offer, Goto, Stores
<1>18. ASSUME NEW p \in Procs, NEW accepted \in BOOLEAN, Request(p, accepted)
      PROVE  Stores'
  BY <1>18 DEF Request, Offer, Goto, Stores
<1>19. ASSUME NEW p \in Procs, NEW batch \in SUBSET Files({MyDir(p)}), Collect(p, batch)
      PROVE  Stores'
  BY <1>19 DEF Collect, Goto, Files, Entries, Stores
<1>20. ASSUME NEW p \in Procs, NEW f \in todo[p], MoveEntry(p, f)
      PROVE  Stores'
  <2>1. f \in Listed
    BY <1>20 DEF Hands
  <2>2. Target(p) \in Dirs
    BY MyDirIs DEF Target, Dirs, Shared
  <2> QED
    BY <1>20, <2>1, <2>2, RenameIs DEF MoveEntry, Listed, Stores
<1>21. ASSUME NEW p \in Procs, NEW f \in todo[p], Remove(p, f)
      PROVE  Stores'
  BY <1>21, WriteIs DEF Remove, Rm, Hands, Listed
<1>22. ASSUME NEW p \in Procs, NEW f \in todo[p], Charge(p, f)
      PROVE  Stores'
  BY <1>22, WriteIs DEF Charge, Hands, Listed
<1>23. ASSUME NEW p \in Procs, NEW f \in todo[p], Reread(p, f)
      PROVE  Stores'
  BY <1>23 DEF Reread, Goto, Handled, Stores
<1>24. ASSUME NEW p \in Procs, NEW e \in held[p], Enqueue(p, e)
      PROVE  Stores'
  <2>1. Destination(p) \in Urls \union {AnyUrl, Absent}
    BY DEF Destination, Names, Identity
  <2>2. e \in Events /\ MyDir(p) \in Dirs
    BY MyDirIs DEF Hands
  <2> QED
    BY <1>24, <2>1, <2>2, WriteIs DEF Enqueue, Stores
<1>25. ASSUME NEW p \in Procs, NEW e \in held[p], Repin(p, e)
      PROVE  Stores'
  <2>1. Before(p).token \in Dirs /\ me[p].url \in Urls /\ e \in Events
    BY <1>25 DEF Repin, Local, Setting, Retargeting, Enrollable, Dirs, Hands
  <2> QED
    BY <1>25, <2>1, WriteIs DEF Repin
<1>26. ASSUME NEW p \in Procs, NEW e \in held[p], RenameRepinned(p, e)
      PROVE  Stores'
  <2>1. Before(p).token \in Dirs /\ me[p].token \in Dirs /\ e \in Events
    BY <1>26 DEF RenameRepinned, Local, Retargeting, Dirs, Hands
  <2> QED
    BY <1>26, <2>1, RenameIs DEF RenameRepinned, Repinned
<1>27. ASSUME NEW p \in Procs, NEW e \in held[p], RetargetThrows(p, e)
      PROVE  Stores'
  BY <1>27 DEF RetargetThrows, Unlock, Lock!Release, End, Goto, Stores
<1>28. ASSUME NEW p \in Procs, Crash(p)
      PROVE  Stores'
  BY <1>28 DEF Crash, Lock!Die, End, Goto, Stores
<1>29. CASE UNCHANGED vars
  BY <1>29 DEF vars, Stores
<1> QED
  BY <1>1, <1>2, <1>3, <1>4, <1>5, <1>6, <1>7, <1>8, <1>9, <1>10, <1>11, <1>12, <1>13, <1>14, <1>15,
     <1>16, <1>17, <1>18, <1>19, <1>20, <1>21, <1>22, <1>23, <1>24, <1>25, <1>26, <1>27, <1>28,
     <1>29
  DEF Next, Continue

(* Every step leaves each process at a stage.                              *)
LEMMA StageNext ==
    ASSUME Stage, [Next]_vars
    PROVE  Stage'
<1> USE DEF Stage, Labels, disk, lock, local, history
<1>1. CASE BreakOrphan
  BY <1>1 DEF BreakOrphan
<1>2. CASE BreakHeld
  BY <1>2 DEF BreakHeld, Lock!Break
<1>3. ASSUME NEW e \in Events, Age(e)
      PROVE  Stage'
  BY <1>3 DEF Age
<1>4. ASSUME NEW p \in Procs, NEW at \in Places, NEW new \in SUBSET (Events \ captured), Begin(p, at, new)
      PROVE  Stage'
  BY <1>4 DEF Begin, Effective, Goto
<1>5. ASSUME NEW p \in Procs, NEW at \in Places, NEW id \in Identity, Setup(p, at, id)
      PROVE  Stage'
  BY <1>5 DEF Setup, Goto
<1>6. ASSUME NEW p \in Procs, SettleList(p)
      PROVE  Stage'
  BY <1>6 DEF SettleList, Goto, Files, Entries
<1>7. ASSUME NEW p \in Procs, Skip(p)
      PROVE  Stage'
  BY <1>7 DEF Skip, Settled, Goto
<1>8. ASSUME NEW p \in Procs, Sweep(p)
      PROVE  Stage'
  BY <1>8 DEF Sweep, Maintaining, Settled, Goto, Expired, Files, Entries
<1>9. ASSUME NEW p \in Procs, Drain(p)
      PROVE  Stage'
  BY <1>9 DEF Drain, Maintaining, Settled, Lock!Acquire, Goto, Expired, Files, Entries
<1>10. ASSUME NEW p \in Procs, Finish(p)
      PROVE  Stage'
  BY <1>10 DEF Finish, Unlock, Lock!Release, End, Goto
<1>11. ASSUME NEW p \in Procs, Busy(p)
      PROVE  Stage'
  BY <1>11 DEF Busy, Maintaining, Settled, End, Goto
<1>12. ASSUME NEW p \in Procs, SaveConfig(p)
      PROVE  Stage'
  BY <1>12 DEF SaveConfig, Updated, Goto
<1>13. ASSUME NEW p \in Procs, Agree(p)
      PROVE  Stage'
  BY <1>13 DEF Agree, Goto
<1>14. ASSUME NEW p \in Procs, Keep(p)
      PROVE  Stage'
  BY <1>14 DEF Keep, End, Goto
<1>15. ASSUME NEW p \in Procs, Retarget(p)
      PROVE  Stage'
  BY <1>15 DEF Retarget, Lock!Acquire, Goto, Files, Entries
<1>16. ASSUME NEW p \in Procs, QueueBusy(p)
      PROVE  Stage'
  BY <1>16 DEF QueueBusy, End, Goto
<1>17. ASSUME NEW p \in Procs, NEW accepted \in BOOLEAN, Send(p, accepted)
      PROVE  Stage'
  BY <1>17 DEF Send, Settled, Offer, Goto
<1>18. ASSUME NEW p \in Procs, NEW accepted \in BOOLEAN, Request(p, accepted)
      PROVE  Stage'
  BY <1>18 DEF Request, Offer, Goto
<1>19. ASSUME NEW p \in Procs, NEW batch \in SUBSET Files({MyDir(p)}), Collect(p, batch)
      PROVE  Stage'
  BY <1>19 DEF Collect, Goto, Files, Entries
<1>20. ASSUME NEW p \in Procs, NEW f \in todo[p], MoveEntry(p, f)
      PROVE  Stage'
  BY <1>20 DEF MoveEntry, Handled
<1>21. ASSUME NEW p \in Procs, NEW f \in todo[p], Remove(p, f)
      PROVE  Stage'
  BY <1>21 DEF Remove, Rm, Write, Handled
<1>22. ASSUME NEW p \in Procs, NEW f \in todo[p], Charge(p, f)
      PROVE  Stage'
  BY <1>22 DEF Charge, Write, Handled
<1>23. ASSUME NEW p \in Procs, NEW f \in todo[p], Reread(p, f)
      PROVE  Stage'
  BY <1>23 DEF Reread, Goto, Handled
<1>24. ASSUME NEW p \in Procs, NEW e \in held[p], Enqueue(p, e)
      PROVE  Stage'
  BY <1>24 DEF Enqueue, Write, Destination, Goto
<1>25. ASSUME NEW p \in Procs, NEW e \in held[p], Repin(p, e)
      PROVE  Stage'
  BY <1>25 DEF Repin, Write, Goto
<1>26. ASSUME NEW p \in Procs, NEW e \in held[p], RenameRepinned(p, e)
      PROVE  Stage'
  BY <1>26 DEF RenameRepinned, Repinned, Rename, There, Goto
<1>27. ASSUME NEW p \in Procs, NEW e \in held[p], RetargetThrows(p, e)
      PROVE  Stage'
  BY <1>27 DEF RetargetThrows, Unlock, Lock!Release, End, Goto
<1>28. ASSUME NEW p \in Procs, Crash(p)
      PROVE  Stage'
  BY <1>28 DEF Crash, Lock!Die, End, Goto
<1>29. CASE UNCHANGED vars
  BY <1>29 DEF vars
<1> QED
  BY <1>1, <1>2, <1>3, <1>4, <1>5, <1>6, <1>7, <1>8, <1>9, <1>10, <1>11, <1>12, <1>13, <1>14, <1>15,
     <1>16, <1>17, <1>18, <1>19, <1>20, <1>21, <1>22, <1>23, <1>24, <1>25, <1>26, <1>27, <1>28,
     <1>29
  DEF Next, Continue

(* Every step leaves configurations and identities.                        *)
LEMMA NamesNext ==
    ASSUME Flags, Hands, Names, Stage, \A p \in Procs : Local(p), [Next]_vars
    PROVE  Names'
<1> USE PartitionAssumption DEF disk, lock, local, history
<1>1. CASE BreakOrphan
  BY <1>1 DEF BreakOrphan, Names
<1>2. CASE BreakHeld
  BY <1>2 DEF BreakHeld, Lock!Break, Names
<1>3. ASSUME NEW e \in Events, Age(e)
      PROVE  Names'
  BY <1>3 DEF Age, Names
<1>4. ASSUME NEW p \in Procs, NEW at \in Places, NEW new \in SUBSET (Events \ captured), Begin(p, at, new)
      PROVE  Names'
  <2>1. Effective(config, at) \in Identity
    BY EffectiveIs DEF Names
  <2> QED
    BY <1>4, <2>1 DEF Begin, Names
<1>5. ASSUME NEW p \in Procs, NEW at \in Places, NEW id \in Identity, Setup(p, at, id)
      PROVE  Names'
  BY <1>5 DEF Setup, Goto, Names
<1>6. ASSUME NEW p \in Procs, SettleList(p)
      PROVE  Names'
  BY <1>6 DEF SettleList, Goto, Files, Entries, Names
<1>7. ASSUME NEW p \in Procs, Skip(p)
      PROVE  Names'
  BY <1>7 DEF Skip, Settled, Goto, Names
<1>8. ASSUME NEW p \in Procs, Sweep(p)
      PROVE  Names'
  BY <1>8 DEF Sweep, Maintaining, Settled, Goto, Expired, Files, Entries, Names
<1>9. ASSUME NEW p \in Procs, Drain(p)
      PROVE  Names'
  BY <1>9 DEF Drain, Maintaining, Settled, Lock!Acquire, Goto, Expired, Files, Entries, Names
<1>10. ASSUME NEW p \in Procs, Finish(p)
      PROVE  Names'
  BY <1>10, EndIs DEF Finish, Names
<1>11. ASSUME NEW p \in Procs, Busy(p)
      PROVE  Names'
  BY <1>11, EndIs DEF Busy, Names
<1>12. ASSUME NEW p \in Procs, SaveConfig(p)
      PROVE  Names'
  <2>1. Updated(p) \in Configs
    BY <1>12, UpdateIsConfig DEF Names, Updated, SaveConfig, Local, Setting
  <2> QED
    BY <1>12, <2>1 DEF SaveConfig, Names
<1>13. ASSUME NEW p \in Procs, Agree(p)
      PROVE  Names'
  BY <1>13 DEF Agree, Goto, Names
<1>14. ASSUME NEW p \in Procs, Keep(p)
      PROVE  Names'
  BY <1>14, EndIs DEF Keep, Names
<1>15. ASSUME NEW p \in Procs, Retarget(p)
      PROVE  Names'
  BY <1>15 DEF Retarget, Lock!Acquire, Goto, Files, Entries, Names
<1>16. ASSUME NEW p \in Procs, QueueBusy(p)
      PROVE  Names'
  BY <1>16, EndIs DEF QueueBusy, Names
<1>17. ASSUME NEW p \in Procs, NEW accepted \in BOOLEAN, Send(p, accepted)
      PROVE  Names'
  BY <1>17 DEF Send, Settled, Offer, Goto, Names
<1>18. ASSUME NEW p \in Procs, NEW accepted \in BOOLEAN, Request(p, accepted)
      PROVE  Names'
  BY <1>18 DEF Request, Offer, Goto, Names
<1>19. ASSUME NEW p \in Procs, NEW batch \in SUBSET Files({MyDir(p)}), Collect(p, batch)
      PROVE  Names'
  BY <1>19 DEF Collect, Goto, Files, Entries, Names
<1>20. ASSUME NEW p \in Procs, NEW f \in todo[p], MoveEntry(p, f)
      PROVE  Names'
  BY <1>20 DEF MoveEntry, Handled, Names
<1>21. ASSUME NEW p \in Procs, NEW f \in todo[p], Remove(p, f)
      PROVE  Names'
  BY <1>21 DEF Remove, Rm, Write, Handled, Names
<1>22. ASSUME NEW p \in Procs, NEW f \in todo[p], Charge(p, f)
      PROVE  Names'
  BY <1>22 DEF Charge, Write, Handled, Names
<1>23. ASSUME NEW p \in Procs, NEW f \in todo[p], Reread(p, f)
      PROVE  Names'
  BY <1>23 DEF Reread, Goto, Handled, Names
<1>24. ASSUME NEW p \in Procs, NEW e \in held[p], Enqueue(p, e)
      PROVE  Names'
  BY <1>24 DEF Enqueue, Write, Destination, Goto, Names
<1>25. ASSUME NEW p \in Procs, NEW e \in held[p], Repin(p, e)
      PROVE  Names'
  BY <1>25 DEF Repin, Write, Goto, Names
<1>26. ASSUME NEW p \in Procs, NEW e \in held[p], RenameRepinned(p, e)
      PROVE  Names'
  BY <1>26 DEF RenameRepinned, Repinned, Rename, There, Goto, Names
<1>27. ASSUME NEW p \in Procs, NEW e \in held[p], RetargetThrows(p, e)
      PROVE  Names'
  BY <1>27, EndIs DEF RetargetThrows, Names
<1>28. ASSUME NEW p \in Procs, Crash(p)
      PROVE  Names'
  BY <1>28, EndIs DEF Crash, Names
<1>29. CASE UNCHANGED vars
  BY <1>29 DEF vars, Names
<1> QED
  BY <1>1, <1>2, <1>3, <1>4, <1>5, <1>6, <1>7, <1>8, <1>9, <1>10, <1>11, <1>12, <1>13, <1>14, <1>15,
     <1>16, <1>17, <1>18, <1>19, <1>20, <1>21, <1>22, <1>23, <1>24, <1>25, <1>26, <1>27, <1>28,
     <1>29
  DEF Next, Continue

(* Every step leaves each process with records and entries.                *)
LEMMA HandsNext ==
    ASSUME Flags, Stage, Hands, Stores, Names, \A q \in Procs : Local(q), [Next]_vars
    PROVE  Hands'
<1> USE DEF disk, lock, local, history
<1>1. CASE BreakOrphan
  BY <1>1 DEF BreakOrphan, Hands
<1>2. CASE BreakHeld
  BY <1>2 DEF BreakHeld, Lock!Break, Hands
<1>3. ASSUME NEW e \in Events, Age(e)
      PROVE  Hands'
  BY <1>3 DEF Age, Hands
<1>4. ASSUME NEW p \in Procs, NEW at \in Places, NEW new \in SUBSET (Events \ captured), Begin(p, at, new)
      PROVE  Hands'
  BY <1>4 DEF Begin, Effective, Goto, Hands
<1>5. ASSUME NEW p \in Procs, NEW at \in Places, NEW id \in Identity, Setup(p, at, id)
      PROVE  Hands'
  BY <1>5 DEF Setup, Goto, Hands
<1>6. ASSUME NEW p \in Procs, SettleList(p)
      PROVE  Hands'
  <2>1. {"loose", "unconfigured"} \subseteq Dirs
    BY <1>6, MyDirIs DEF SettleList, Dirs, Shared, Local, Retargeting
  <2>2. Files({"loose", "unconfigured"}) \subseteq Listed
    BY <2>1, FilesAre
  <2> QED
    BY <1>6, <2>2 DEF SettleList, Hands
<1>7. ASSUME NEW p \in Procs, Skip(p)
      PROVE  Hands'
  BY <1>7 DEF Skip, Settled, Goto, Hands
<1>8. ASSUME NEW p \in Procs, Sweep(p)
      PROVE  Hands'
  <2>1. {MyDir(p)} \subseteq Dirs
    BY <1>8, MyDirIs DEF Sweep, Dirs, Shared, Local, Retargeting
  <2>2. Files({MyDir(p)}) \subseteq Listed
    BY <2>1, FilesAre
  <2> QED
    BY <1>8, <2>2 DEF Sweep, Hands, Expired
<1>9. ASSUME NEW p \in Procs, Drain(p)
      PROVE  Hands'
  <2>1. {MyDir(p)} \subseteq Dirs
    BY <1>9, MyDirIs DEF Drain, Dirs, Shared, Local, Retargeting
  <2>2. Files({MyDir(p)}) \subseteq Listed
    BY <2>1, FilesAre
  <2> QED
    BY <1>9, <2>2 DEF Drain, Hands, Expired
<1>10. ASSUME NEW p \in Procs, Finish(p)
      PROVE  Hands'
  BY <1>10, EndIs DEF Finish
<1>11. ASSUME NEW p \in Procs, Busy(p)
      PROVE  Hands'
  BY <1>11, EndIs DEF Busy
<1>12. ASSUME NEW p \in Procs, SaveConfig(p)
      PROVE  Hands'
  BY <1>12 DEF SaveConfig, Updated, Goto, Hands
<1>13. ASSUME NEW p \in Procs, Agree(p)
      PROVE  Hands'
  BY <1>13 DEF Agree, Goto, Hands
<1>14. ASSUME NEW p \in Procs, Keep(p)
      PROVE  Hands'
  BY <1>14, EndIs DEF Keep
<1>15. ASSUME NEW p \in Procs, Retarget(p)
      PROVE  Hands'
  <2>1. {Before(p).token} \subseteq Dirs
    BY <1>15, MyDirIs DEF Retarget, Dirs, Shared, Local, Retargeting
  <2>2. Files({Before(p).token}) \subseteq Listed
    BY <2>1, FilesAre
  <2> QED
    BY <1>15, <2>2 DEF Retarget, Hands
<1>16. ASSUME NEW p \in Procs, QueueBusy(p)
      PROVE  Hands'
  BY <1>16, EndIs DEF QueueBusy
<1>17. ASSUME NEW p \in Procs, NEW accepted \in BOOLEAN, Send(p, accepted)
      PROVE  Hands'
  BY <1>17 DEF Send, Settled, Offer, Goto, Hands
<1>18. ASSUME NEW p \in Procs, NEW accepted \in BOOLEAN, Request(p, accepted)
      PROVE  Hands'
  BY <1>18 DEF Request, Offer, Goto, Hands
<1>19. ASSUME NEW p \in Procs, NEW batch \in SUBSET Files({MyDir(p)}), Collect(p, batch)
      PROVE  Hands'
  <2>1. {MyDir(p)} \subseteq Dirs
    BY <1>19, MyDirIs DEF Collect, Dirs, Shared, Local, Retargeting
  <2>2. Files({MyDir(p)}) \subseteq Listed
    BY <2>1, FilesAre
  <2> QED
    BY <1>19, <2>2 DEF Collect, Hands
<1>20. ASSUME NEW p \in Procs, NEW f \in todo[p], MoveEntry(p, f)
      PROVE  Hands'
  BY <1>20 DEF MoveEntry, Handled, Hands
<1>21. ASSUME NEW p \in Procs, NEW f \in todo[p], Remove(p, f)
      PROVE  Hands'
  BY <1>21 DEF Remove, Rm, Write, Handled, Hands
<1>22. ASSUME NEW p \in Procs, NEW f \in todo[p], Charge(p, f)
      PROVE  Hands'
  BY <1>22 DEF Charge, Write, Handled, Hands
<1>23. ASSUME NEW p \in Procs, NEW f \in todo[p], Reread(p, f)
      PROVE  Hands'
  <2>1. f.event \in Events
    BY <1>23 DEF Hands, Listed
  <2> QED
    BY <1>23, <2>1 DEF Reread, Handled, Hands
<1>24. ASSUME NEW p \in Procs, NEW e \in held[p], Enqueue(p, e)
      PROVE  Hands'
  BY <1>24 DEF Enqueue, Write, Destination, Goto, Hands
<1>25. ASSUME NEW p \in Procs, NEW e \in held[p], Repin(p, e)
      PROVE  Hands'
  BY <1>25 DEF Repin, Write, Goto, Hands
<1>26. ASSUME NEW p \in Procs, NEW e \in held[p], RenameRepinned(p, e)
      PROVE  Hands'
  BY <1>26 DEF RenameRepinned, Repinned, Rename, There, Goto, Hands
<1>27. ASSUME NEW p \in Procs, NEW e \in held[p], RetargetThrows(p, e)
      PROVE  Hands'
  BY <1>27, EndIs DEF RetargetThrows
<1>28. ASSUME NEW p \in Procs, Crash(p)
      PROVE  Hands'
  BY <1>28, EndIs DEF Crash
<1>29. CASE UNCHANGED vars
  BY <1>29 DEF vars, Hands
<1> QED
  BY <1>1, <1>2, <1>3, <1>4, <1>5, <1>6, <1>7, <1>8, <1>9, <1>10, <1>11, <1>12, <1>13, <1>14, <1>15,
     <1>16, <1>17, <1>18, <1>19, <1>20, <1>21, <1>22, <1>23, <1>24, <1>25, <1>26, <1>27, <1>28,
     <1>29
  DEF Next, Continue

(* Every step keeps the types of the rest.                                 *)
LEMMA PastNext ==
    ASSUME Past, Hands, Names, Stores, \A q \in Procs : Local(q), [Next]_vars
    PROVE  Past'
<1> USE PartitionAssumption DEF disk, lock, local, history
<1>1. CASE BreakOrphan
  BY <1>1 DEF BreakOrphan, Past
<1>2. CASE BreakHeld
  BY <1>2 DEF BreakHeld, Lock!Break, Past
<1>3. ASSUME NEW e \in Events, Age(e)
      PROVE  Past'
  BY <1>3 DEF Age, Past
<1>4. ASSUME NEW p \in Procs, NEW at \in Places, NEW new \in SUBSET (Events \ captured), Begin(p, at, new)
      PROVE  Past'
  <2>1. Effective(config, at) \in Identity
    BY EffectiveIs DEF Names
  <2> QED
    BY <1>4, <2>1 DEF Begin, Past
<1>5. ASSUME NEW p \in Procs, NEW at \in Places, NEW id \in Identity, Setup(p, at, id)
      PROVE  Past'
  BY <1>5 DEF Setup, Goto, Past
<1>6. ASSUME NEW p \in Procs, SettleList(p)
      PROVE  Past'
  BY <1>6 DEF SettleList, Goto, Files, Entries, Past
<1>7. ASSUME NEW p \in Procs, Skip(p)
      PROVE  Past'
  BY <1>7 DEF Skip, Settled, Goto, Past
<1>8. ASSUME NEW p \in Procs, Sweep(p)
      PROVE  Past'
  BY <1>8 DEF Sweep, Maintaining, Settled, Goto, Expired, Files, Entries, Past
<1>9. ASSUME NEW p \in Procs, Drain(p)
      PROVE  Past'
  BY <1>9 DEF Drain, Maintaining, Settled, Lock!Acquire, Goto, Expired, Files, Entries, Past
<1>10. ASSUME NEW p \in Procs, Finish(p)
      PROVE  Past'
  BY <1>10 DEF Finish, Unlock, Lock!Release, End, Goto, Past
<1>11. ASSUME NEW p \in Procs, Busy(p)
      PROVE  Past'
  BY <1>11 DEF Busy, Maintaining, Settled, End, Goto, Past
<1>12. ASSUME NEW p \in Procs, SaveConfig(p)
      PROVE  Past'
  <2>1. SoleOf(Updated(p)) \subseteq Tokens
    BY <1>12, UpdateIsConfig DEF Names, Updated, SaveConfig, Local, Setting, SoleOf, TokensOf,
       Configs, Identity
  <2> QED
    BY <1>12, <2>1 DEF SaveConfig, Past
<1>13. ASSUME NEW p \in Procs, Agree(p)
      PROVE  Past'
  BY <1>13 DEF Agree, Goto, Past
<1>14. ASSUME NEW p \in Procs, Keep(p)
      PROVE  Past'
  <2>1. Stranded(p) \subseteq Listed
    BY FilesAre DEF Stranded, PendingFor, Before, Names, Configs, Identity, Dirs
  <2> QED
    BY <1>14, <2>1 DEF Keep, Past, Listed
<1>15. ASSUME NEW p \in Procs, Retarget(p)
      PROVE  Past'
  BY <1>15 DEF Retarget, Lock!Acquire, Goto, Files, Entries, Past
<1>16. ASSUME NEW p \in Procs, QueueBusy(p)
      PROVE  Past'
  BY <1>16 DEF QueueBusy, End, Goto, Past
<1>17. ASSUME NEW p \in Procs, NEW accepted \in BOOLEAN, Send(p, accepted)
      PROVE  Past'
  BY <1>17 DEF Send, Offer, Past, Hands
<1>18. ASSUME NEW p \in Procs, NEW accepted \in BOOLEAN, Request(p, accepted)
      PROVE  Past'
  <2>1. \A g \in todo[p] : g.event \in Events
    BY <1>18 DEF Hands, Listed
  <2> QED
    BY <1>18, <2>1 DEF Request, Offer, Past
<1>19. ASSUME NEW p \in Procs, NEW batch \in SUBSET Files({MyDir(p)}), Collect(p, batch)
      PROVE  Past'
  BY <1>19 DEF Collect, Goto, Files, Entries, Past
<1>20. ASSUME NEW p \in Procs, NEW f \in todo[p], MoveEntry(p, f)
      PROVE  Past'
  BY <1>20 DEF MoveEntry, Handled, Past
<1>21. ASSUME NEW p \in Procs, NEW f \in todo[p], Remove(p, f)
      PROVE  Past'
  BY <1>21 DEF Remove, Rm, Write, Handled, Past
<1>22. ASSUME NEW p \in Procs, NEW f \in todo[p], Charge(p, f)
      PROVE  Past'
  BY <1>22 DEF Charge, Write, Handled, Past
<1>23. ASSUME NEW p \in Procs, NEW f \in todo[p], Reread(p, f)
      PROVE  Past'
  BY <1>23 DEF Reread, Goto, Handled, Past
<1>24. ASSUME NEW p \in Procs, NEW e \in held[p], Enqueue(p, e)
      PROVE  Past'
  BY <1>24 DEF Enqueue, Write, Destination, Goto, Past
<1>25. ASSUME NEW p \in Procs, NEW e \in held[p], Repin(p, e)
      PROVE  Past'
  BY <1>25 DEF Repin, Write, Goto, Past
<1>26. ASSUME NEW p \in Procs, NEW e \in held[p], RenameRepinned(p, e)
      PROVE  Past'
  BY <1>26 DEF RenameRepinned, Repinned, Rename, There, Goto, Past
<1>27. ASSUME NEW p \in Procs, NEW e \in held[p], RetargetThrows(p, e)
      PROVE  Past'
  BY <1>27 DEF RetargetThrows, Unlock, Lock!Release, End, Goto, Past
<1>28. ASSUME NEW p \in Procs, Crash(p)
      PROVE  Past'
  <2>1. InHand(p) \subseteq Events
    BY DEF InHand, Hands
  <2> QED
    BY <1>28, <2>1 DEF Crash, Past, Lock!Die
<1>29. CASE UNCHANGED vars
  BY <1>29 DEF vars, Past
<1> QED
  BY <1>1, <1>2, <1>3, <1>4, <1>5, <1>6, <1>7, <1>8, <1>9, <1>10, <1>11, <1>12, <1>13, <1>14, <1>15,
     <1>16, <1>17, <1>18, <1>19, <1>20, <1>21, <1>22, <1>23, <1>24, <1>25, <1>26, <1>27, <1>28,
     <1>29
  DEF Next, Continue

(* What a process does, and what the others keep.                          *)
Act(p) ==
    \/ \E at \in Places, new \in SUBSET (Events \ captured) : Begin(p, at, new)
    \/ \E at \in Places, id \in Identity : Setup(p, at, id)
    \/ Continue(p) \/ Crash(p)

Same(q) ==
    /\ pc'[q] = pc[q] /\ held'[q] = held[q] /\ todo'[q] = todo[q]
    /\ me'[q] = me[q] /\ conf'[q] = conf[q] /\ place'[q] = place[q] /\ multiple'[q] = multiple[q]

(* What one process does leaves the memory of the others.                  *)
LEMMA OthersSame ==
    ASSUME NEW p \in Procs, Flags, Stage, Names, Hands, Act(p)
    PROVE  \A q \in Procs : q # p => Same(q)
<1>1. ASSUME NEW at \in Places, NEW new \in SUBSET (Events \ captured), Begin(p, at, new)
      PROVE  \A q \in Procs : q # p => Same(q)
  BY <1>1 DEF Begin, Goto, Same, Stage, Hands, Names, Flags, lock, disk
<1>2. ASSUME NEW at \in Places, NEW id \in Identity, Setup(p, at, id)
      PROVE  \A q \in Procs : q # p => Same(q)
  BY <1>2 DEF Setup, Goto, Same, Stage, Hands, Names, Flags, lock, disk
<1>3. CASE SettleList(p)
  BY <1>3 DEF SettleList, Goto, Same, Stage, Hands, Names, Flags, lock, history, disk
<1>4. CASE Skip(p)
  BY <1>4 DEF Skip, Goto, Same, Stage, Hands, Names, Flags, lock, history, disk
<1>5. CASE Sweep(p)
  BY <1>5 DEF Sweep, Goto, Same, Stage, Hands, Names, Flags, lock, history, disk
<1>6. CASE Drain(p)
  BY <1>6 DEF Drain, Goto, Same, Stage, Hands, Names, Flags, history, disk
<1>7. CASE Finish(p)
  BY <1>7, EndIs DEF Finish, Same
<1>8. CASE Busy(p)
  BY <1>8, EndIs DEF Busy, Same
<1>9. CASE SaveConfig(p)
  BY <1>9 DEF SaveConfig, Goto, Same, Stage, Hands, Names, Flags, lock
<1>10. CASE Agree(p)
  BY <1>10 DEF Agree, Goto, Same, Stage, Hands, Names, Flags, lock, disk
<1>11. CASE Keep(p)
  BY <1>11, EndIs DEF Keep, Same
<1>12. CASE Retarget(p)
  BY <1>12 DEF Retarget, Goto, Same, Stage, Hands, Names, Flags, lock, history, disk
<1>13. CASE QueueBusy(p)
  BY <1>13, EndIs DEF QueueBusy, Same
<1>14. ASSUME NEW accepted \in BOOLEAN, Send(p, accepted)
      PROVE  \A q \in Procs : q # p => Same(q)
  BY <1>14 DEF Send, Goto, Same, Stage, Hands, Names, Flags, lock, disk
<1>15. ASSUME NEW accepted \in BOOLEAN, Request(p, accepted)
      PROVE  \A q \in Procs : q # p => Same(q)
  BY <1>15 DEF Request, Goto, Same, Stage, Hands, Names, Flags, lock, disk
<1>16. ASSUME NEW batch \in SUBSET Files({MyDir(p)}), Collect(p, batch)
      PROVE  \A q \in Procs : q # p => Same(q)
  BY <1>16 DEF Collect, Goto, Same, Stage, Hands, Names, Flags, lock, history, disk
<1>17. ASSUME NEW f \in todo[p], MoveEntry(p, f)
      PROVE  \A q \in Procs : q # p => Same(q)
  BY <1>17 DEF MoveEntry, Handled, Same, Stage, Hands, Names, Flags, lock, history
<1>18. ASSUME NEW f \in todo[p], Remove(p, f)
      PROVE  \A q \in Procs : q # p => Same(q)
  BY <1>18 DEF Remove, Handled, Same, Stage, Hands, Names, Flags, lock, history
<1>19. ASSUME NEW f \in todo[p], Charge(p, f)
      PROVE  \A q \in Procs : q # p => Same(q)
  BY <1>19 DEF Charge, Handled, Same, Stage, Hands, Names, Flags, lock, history
<1>20. ASSUME NEW f \in todo[p], Reread(p, f)
      PROVE  \A q \in Procs : q # p => Same(q)
  BY <1>20 DEF Reread, Goto, Handled, Same, Stage, Hands, Names, Flags, lock, history, disk
<1>21. ASSUME NEW e \in held[p], Enqueue(p, e)
      PROVE  \A q \in Procs : q # p => Same(q)
  BY <1>21 DEF Enqueue, Goto, Same, Stage, Hands, Names, Flags, lock, history
<1>22. ASSUME NEW e \in held[p], Repin(p, e)
      PROVE  \A q \in Procs : q # p => Same(q)
  BY <1>22 DEF Repin, Goto, Same, Stage, Hands, Names, Flags, lock, history
<1>23. ASSUME NEW e \in held[p], RenameRepinned(p, e)
      PROVE  \A q \in Procs : q # p => Same(q)
  BY <1>23 DEF RenameRepinned, Goto, Same, Stage, Hands, Names, Flags, lock, history
<1>24. ASSUME NEW e \in held[p], RetargetThrows(p, e)
      PROVE  \A q \in Procs : q # p => Same(q)
  BY <1>24, EndIs DEF RetargetThrows, Same
<1>25. CASE Crash(p)
  BY <1>25, EndIs DEF Crash, Same
<1> QED
  BY <1>1, <1>2, <1>3, <1>4, <1>5, <1>6, <1>7, <1>8, <1>9, <1>10, <1>11, <1>12, <1>13, <1>14, <1>15,
     <1>16, <1>17, <1>18, <1>19, <1>20, <1>21, <1>22, <1>23, <1>24, <1>25
  DEF Act, Continue

(* What is known of a process that does nothing stays true.                *)
LEMMA LocalSame ==
    ASSUME NEW q \in Procs, Local(q), Same(q)
    PROVE  Local(q)'
BY DEF Local, Same, MyDir, PartitionName, Before

(* What a process does keeps what is known of it.                          *)
LEMMA LocalStep ==
    ASSUME NEW p \in Procs, Flags, Stores, Stage, Names, Hands, \A q \in Procs : Local(q), Act(p)
    PROVE  Local(p)'
<1> USE PartitionAssumption
<1>1. ASSUME NEW at \in Places, NEW new \in SUBSET (Events \ captured), Begin(p, at, new)
      PROVE  Local(p)'
  <2>1. /\ pc'[p] = (IF Effective(config, at).token = NoToken THEN "moving" ELSE "settle")
        /\ me'[p] = Effective(config, at) /\ todo'[p] = {}
    BY <1>1 DEF Begin, Goto, Local, Stage, Names
  <2> QED
    BY <2>1 DEF Local, Setting, Retargeting
<1>2. ASSUME NEW at \in Places, NEW id \in Identity, Setup(p, at, id)
      PROVE  Local(p)'
  BY <1>2 DEF Setup, Goto, Local, MyDir, PartitionName, Before, Setting, Retargeting, Stage, Hands,
     Names
<1>3. CASE SettleList(p)
  <2>1. {"loose", "unconfigured"} \subseteq Dirs
    BY <1>3, MyDirIs DEF SettleList, Dirs, Shared, Local, Retargeting
  <2>2. \A f \in Files({"loose", "unconfigured"}) : f.dir \in {"loose", "unconfigured"}
    BY <2>1, FilesAre
  <2> QED
    BY <1>3, <2>2 DEF SettleList, Goto, Local, MyDir, PartitionName, Before, Setting, Retargeting,
       Stage, Hands, Names
<1>4. CASE Skip(p)
  BY <1>4 DEF Skip, Settled, Goto, Local, MyDir, PartitionName, Before, Setting, Retargeting, Stage,
     Hands, Names
<1>5. CASE Sweep(p)
  <2>1. {MyDir(p)} \subseteq Dirs
    BY <1>5, MyDirIs DEF Sweep, Dirs, Shared, Local, Retargeting
  <2>2. \A f \in Files({MyDir(p)}) : f.dir \in {MyDir(p)}
    BY <2>1, FilesAre
  <2> QED
    BY <1>5, <2>2 DEF Sweep, Goto, Local, MyDir, PartitionName, Before, Setting, Retargeting, Stage,
       Hands, Names, Expired, Maintaining, Settled
<1>6. CASE Drain(p)
  <2>1. {MyDir(p)} \subseteq Dirs
    BY <1>6, MyDirIs DEF Drain, Dirs, Shared, Local, Retargeting
  <2>2. \A f \in Files({MyDir(p)}) : f.dir \in {MyDir(p)}
    BY <2>1, FilesAre
  <2> QED
    BY <1>6, <2>2 DEF Drain, Goto, Local, MyDir, PartitionName, Before, Setting, Retargeting, Stage,
       Hands, Names, Expired, Maintaining, Settled
<1>7. CASE Finish(p)
  BY <1>7, EndIs DEF Finish, Local, Setting, Retargeting
<1>8. CASE Busy(p)
  BY <1>8, EndIs DEF Busy, Local, Setting, Retargeting
<1>9. CASE SaveConfig(p)
  BY <1>9 DEF SaveConfig, Updated, Goto, Local, MyDir, PartitionName, Before, Setting, Retargeting,
     Stage, Hands, Names
<1>10. CASE Agree(p)
  <2>1. Before(p).token \in Tokens /\ Before(p).url \in Urls
    BY <1>10, ConfigUrls DEF Agree, Stranded, Before, Names
  <2>2. me[p].token \in Tokens
    BY <1>10 DEF Agree, CanMigrate, Exclusive, Updated, Names, Configs, Identity, Places
  <2> QED
    BY <1>10, <2>1, <2>2 DEF Agree, Goto, Local, MyDir, PartitionName, Before, Setting, Retargeting,
       Stage, Hands, Names
<1>11. CASE Keep(p)
  BY <1>11, EndIs DEF Keep, Local, Setting, Retargeting
<1>12. CASE Retarget(p)
  <2>1. {Before(p).token} \subseteq Dirs
    BY <1>12, MyDirIs DEF Retarget, Dirs, Shared, Local, Retargeting
  <2>2. \A f \in Files({Before(p).token}) : f.dir \in {Before(p).token}
    BY <2>1, FilesAre
  <2> QED
    BY <1>12, <2>2 DEF Retarget, Goto, Local, MyDir, PartitionName, Before, Setting, Retargeting,
       Stage, Hands, Names
<1>13. CASE QueueBusy(p)
  BY <1>13, EndIs DEF QueueBusy, Local, Setting, Retargeting
<1>14. ASSUME NEW accepted \in BOOLEAN, Send(p, accepted)
      PROVE  Local(p)'
  BY <1>14 DEF Send, Settled, Offer, Goto, Local, MyDir, PartitionName, Before, Setting,
     Retargeting, Stage, Hands, Names
<1>15. ASSUME NEW accepted \in BOOLEAN, Request(p, accepted)
      PROVE  Local(p)'
  BY <1>15 DEF Request, Offer, Goto, Local, MyDir, PartitionName, Before, Setting, Retargeting,
     Stage, Hands, Names
<1>16. ASSUME NEW batch \in SUBSET Files({MyDir(p)}), Collect(p, batch)
      PROVE  Local(p)'
  <2>1. {MyDir(p)} \subseteq Dirs
    BY <1>16, MyDirIs DEF Collect, Dirs, Shared, Local, Retargeting
  <2>2. \A f \in Files({MyDir(p)}) : f.dir \in {MyDir(p)}
    BY <2>1, FilesAre
  <2> QED
    BY <1>16, <2>2 DEF Collect, Goto, Local, MyDir, PartitionName, Before, Setting, Retargeting,
       Stage, Hands, Names
<1>17. ASSUME NEW f \in todo[p], MoveEntry(p, f)
      PROVE  Local(p)'
  BY <1>17 DEF MoveEntry, Handled, Local, MyDir, PartitionName, Before, Setting, Retargeting, Stage,
     Hands, Names
<1>18. ASSUME NEW f \in todo[p], Remove(p, f)
      PROVE  Local(p)'
  BY <1>18 DEF Remove, Rm, Write, Handled, Local, MyDir, PartitionName, Before, Setting,
     Retargeting, Stage, Hands, Names
<1>19. ASSUME NEW f \in todo[p], Charge(p, f)
      PROVE  Local(p)'
  BY <1>19 DEF Charge, Write, Handled, Local, MyDir, PartitionName, Before, Setting, Retargeting,
     Stage, Hands, Names
<1>20. ASSUME NEW f \in todo[p], Reread(p, f)
      PROVE  Local(p)'
  BY <1>20 DEF Reread, Goto, Handled, Local, MyDir, PartitionName, Before, Setting, Retargeting,
     Stage, Hands, Names
<1>21. ASSUME NEW e \in held[p], Enqueue(p, e)
      PROVE  Local(p)'
  BY <1>21 DEF Enqueue, Write, Destination, Goto, Local, MyDir, PartitionName, Before, Setting,
     Retargeting, Stage, Hands, Names
<1>22. ASSUME NEW e \in held[p], Repin(p, e)
      PROVE  Local(p)'
  BY <1>22 DEF Repin, Write, Goto, Local, MyDir, PartitionName, Before, Setting, Retargeting, Stage,
     Hands, Names
<1>23. ASSUME NEW e \in held[p], RenameRepinned(p, e)
      PROVE  Local(p)'
  BY <1>23 DEF RenameRepinned, Repinned, Rename, There, Goto, Local, MyDir, PartitionName, Before,
     Setting, Retargeting, Stage, Hands, Names
<1>24. ASSUME NEW e \in held[p], RetargetThrows(p, e)
      PROVE  Local(p)'
  BY <1>24, EndIs DEF RetargetThrows, Local, Setting, Retargeting
<1>25. CASE Crash(p)
  BY <1>25, EndIs DEF Crash, Local, Setting, Retargeting
<1> QED
  BY <1>1, <1>2, <1>3, <1>4, <1>5, <1>6, <1>7, <1>8, <1>9, <1>10, <1>11, <1>12, <1>13, <1>14, <1>15,
     <1>16, <1>17, <1>18, <1>19, <1>20, <1>21, <1>22, <1>23, <1>24, <1>25
  DEF Act, Continue

Shaped == Flags /\ Stores /\ Stage /\ Names /\ Hands /\ \A q \in Procs : Local(q)

(* A settled entry goes to the hook's target, if it is still there.        *)
LEMMA MoveEntryIs ==
    ASSUME Shaped, NEW p \in Procs, NEW f \in todo[p], MoveEntry(p, f)
    PROVE  /\ Target(p) \in Dirs /\ f \in Listed
           /\ \A c \in Dirs, g \in Events :
                stored'[c][g] = IF g # f.event \/ ~There(f) THEN stored[c][g]
                                ELSE IF c = Target(p) THEN stored[f.dir][f.event]
                                ELSE IF c = f.dir THEN Absent
                                ELSE stored[c][g]
<1>1. f \in Listed
  BY DEF Shaped, Hands
<1>2. Target(p) \in Dirs
  BY MyDirIs DEF Shaped, Target, Dirs, Shared
<1>3. CASE There(f)
  BY <1>1, <1>2, <1>3, RenameIs DEF MoveEntry, Listed, Shaped
<1>4. CASE ~There(f)
  BY <1>1, <1>2, <1>4 DEF MoveEntry
<1> QED
  BY <1>3, <1>4

(* A removal takes one entry.                                              *)
LEMMA RemoveIs ==
    ASSUME Shaped, NEW p \in Procs, NEW f \in todo[p], Remove(p, f)
    PROVE  /\ f \in Listed
           /\ \A c \in Dirs, g \in Events :
                stored'[c][g] = IF c = f.dir /\ g = f.event THEN Absent ELSE stored[c][g]
<1>1. f \in Listed
  BY DEF Shaped, Hands
<1> QED
  BY <1>1, WriteIs, PartitionAssumption DEF Remove, Rm, Listed, Shaped

(* A charge writes one entry as it was read.                               *)
LEMMA ChargeIs ==
    ASSUME Shaped, NEW p \in Procs, NEW f \in todo[p], Charge(p, f)
    PROVE  /\ f \in Listed
           /\ \A c \in Dirs, g \in Events :
                stored'[c][g] = IF c = f.dir /\ g = f.event THEN f.dest ELSE stored[c][g]
<1>1. f \in Listed
  BY DEF Shaped, Hands
<1> QED
  BY <1>1, WriteIs DEF Charge, Listed, Shaped

(* An enqueue writes into the own directory, where nothing is.             *)
LEMMA EnqueueIs ==
    ASSUME Shaped, NEW p \in Procs, NEW e \in held[p], Enqueue(p, e)
    PROVE  /\ e \in Events /\ MyDir(p) \in Dirs /\ Destination(p) \in Urls \union {AnyUrl}
           /\ \A c \in Dirs, g \in Events :
                stored'[c][g] = IF c = MyDir(p) /\ g = e /\ stored[c][g] = Absent THEN Destination(p)
                                ELSE stored[c][g]
<1>1. Destination(p) \in Urls \union {AnyUrl}
  BY DEF Shaped, Destination, Names, Identity
<1>2. e \in Events /\ MyDir(p) \in Dirs
  BY MyDirIs DEF Shaped, Hands
<1>3. CASE stored[MyDir(p)][e] = Absent
  BY <1>1, <1>2, <1>3, WriteIs DEF Enqueue, Shaped
<1>4. CASE stored[MyDir(p)][e] # Absent
  BY <1>1, <1>2, <1>4 DEF Enqueue
<1> QED
  BY <1>3, <1>4

(* A re-pin writes the new URL into the previous directory.                *)
LEMMA RepinIs ==
    ASSUME Shaped, NEW p \in Procs, NEW e \in held[p], Repin(p, e)
    PROVE  /\ e \in Events /\ Before(p).token \in Dirs /\ me[p].url \in Urls
           /\ \A c \in Dirs, g \in Events :
                stored'[c][g] = IF c = Before(p).token /\ g = e THEN me[p].url ELSE stored[c][g]
<1>1. Before(p).token \in Dirs /\ me[p].url \in Urls /\ e \in Events
  BY DEF Shaped, Repin, Local, Setting, Retargeting, Enrollable, Dirs, Hands
<1> QED
  BY <1>1, WriteIs DEF Repin, Shaped

(* The rename then takes the entry into the new one.                       *)
LEMMA RenameRepinnedIs ==
    ASSUME Shaped, NEW p \in Procs, NEW e \in held[p], RenameRepinned(p, e)
    PROVE  /\ e \in Events /\ Before(p).token \in Dirs /\ me[p].token \in Dirs
           /\ me[p].token # Before(p).token
           /\ stored[Before(p).token][e] # Absent
           /\ \A c \in Dirs, g \in Events :
                stored'[c][g] = IF g # e THEN stored[c][g]
                                ELSE IF c = me[p].token THEN stored[Before(p).token][e]
                                ELSE IF c = Before(p).token THEN Absent
                                ELSE stored[c][g]
<1>1. Before(p).token \in Dirs /\ me[p].token \in Dirs /\ e \in Events /\ me[p].token # Before(p).token
  BY DEF Shaped, RenameRepinned, Local, Retargeting, Dirs, Hands
<1>2. stored[Before(p).token][e] # Absent
  BY DEF RenameRepinned, There, Repinned
<1> QED
  BY <1>1, <1>2, RenameIs DEF RenameRepinned, Repinned, Shaped

(* Typed, in its parts.                                                    *)
LEMMA TypedIs == Typed <=> Shaped /\ Past
BY Parts DEF Typed, Shaped

(* The initial states have the types.                                      *)
LEMMA TypedInit ==
    ASSUME Init
    PROVE  Typed
<1> USE PartitionAssumption
<1>1. Flags /\ Stage /\ Hands
  BY DEF Init, Flags, Stage, Labels, Hands
<1>2. Names
  BY NoConfig DEF Init, Names, Places
<1>3. captured \subseteq Events
  BY DEF Init
<1>4. PICK dest \in [captured -> Urls \union {AnyUrl}] :
        /\ stored = [d \in Dirs |-> [e \in Events |->
                        IF d = "loose" /\ e \in captured THEN dest[e] ELSE Absent]]
        /\ author = [e \in Events |->
                        IF e \in captured /\ dest[e] # AnyUrl
                        THEN [token |-> NoToken, url |-> dest[e]] ELSE NoIdentity]
  BY DEF Init
<1>5. Stores
  BY <1>4 DEF Stores
<1>6. author \in [Events -> Identity]
  BY <1>4, NoConfig DEF Identity
<1>7. SoleOf(config) \subseteq Tokens
  BY DEF Init, SoleOf, TokensOf, Configs, Identity
<1>8. Past
  BY <1>3, <1>6, <1>7 DEF Init, Past
<1>9. \A p \in Procs : Local(p)
  BY DEF Init, Local, Setting, Retargeting
<1> QED
  BY <1>1, <1>2, <1>5, <1>8, <1>9, TypedIs DEF Shaped

(* Every step keeps them.                                                  *)
LEMMA TypedNext ==
    ASSUME Typed, [Next]_vars
    PROVE  Typed'
<1> USE PartitionAssumption
<1>1. Shaped /\ Past
  BY TypedIs
<1>2. Flags' /\ Stores' /\ Stage' /\ Names' /\ Hands' /\ Past'
  BY <1>1, FlagsNext, StoresNext, StageNext, NamesNext, HandsNext, PastNext DEF Shaped
<1>3. ASSUME NEW p \in Procs, Act(p), NEW q \in Procs
      PROVE  Local(q)'
  <2>1. CASE q = p
    BY <1>1, <1>3, <2>1, LocalStep DEF Shaped
  <2>2. CASE q # p
    BY <1>1, <1>3, <2>2, LocalSame, OthersSame DEF Shaped
  <2> QED
    BY <2>1, <2>2
<1>4. CASE BreakOrphan \/ BreakHeld \/ (\E e \in Events : Age(e)) \/ UNCHANGED vars
  <2>1. \A q \in Procs : Same(q)
    BY <1>4 DEF BreakOrphan, BreakHeld, Age, vars, local, Same
  <2> QED
    BY <1>1, <1>2, <2>1, LocalSame, Parts DEF Shaped, Typed
<1>5. \A q \in Procs : Local(q)'
  BY <1>1, <1>3, <1>4 DEF Next, Act, Typed
<1> QED
  BY <1>2, <1>5, Parts DEF Typed

(* They hold in every state.                                               *)
LEMMA TypedInvariance == Spec => []Typed
BY TypedInit, TypedNext, PTL DEF Spec

(* Disk, lock, processes and history keep their types.                     *)
THEOREM TypeCorrect == Spec => []TypeOK
<1>1. Typed => TypeOK
  BY DEF Typed
<1> QED
  BY <1>1, TypedInvariance, PTL

-----------------------------------------------------------------------------

(* Nothing is taken back; what is captured is in its hook's hands.         *)
LEMMA Grows ==
    ASSUME NEW p \in Procs, Shaped, Act(p)
    PROVE  /\ captured \subseteq captured' /\ taken \subseteq taken' /\ lost \subseteq lost' /\ aged' = aged
           /\ captured' \ captured \subseteq InHand(p)'
<1>1. ASSUME NEW at \in Places, NEW new \in SUBSET (Events \ captured), Begin(p, at, new)
      PROVE  /\ captured \subseteq captured' /\ taken \subseteq taken' /\ lost \subseteq lost' /\ aged' = aged
           /\ captured' \ captured \subseteq InHand(p)'
  BY <1>1 DEF Begin, Goto, Shaped, Hands, Stage, InHand, Shaped
<1>2. ASSUME NEW at \in Places, NEW id \in Identity, Setup(p, at, id)
      PROVE  /\ captured \subseteq captured' /\ taken \subseteq taken' /\ lost \subseteq lost' /\ aged' = aged
           /\ captured' \ captured \subseteq InHand(p)'
  BY <1>2 DEF Setup, Goto, Shaped
<1>3. CASE SettleList(p)
  BY <1>3 DEF SettleList, Goto, history, Shaped
<1>4. CASE Skip(p)
  BY <1>4 DEF Skip, Goto, history, Shaped
<1>5. CASE Sweep(p)
  BY <1>5 DEF Sweep, Goto, history, Shaped
<1>6. CASE Drain(p)
  BY <1>6 DEF Drain, Goto, history, Shaped
<1>7. CASE Finish(p)
  BY <1>7 DEF Finish, history, Shaped
<1>8. CASE Busy(p)
  BY <1>8 DEF Busy, history, Shaped
<1>9. CASE SaveConfig(p)
  BY <1>9 DEF SaveConfig, Goto, Shaped
<1>10. CASE Agree(p)
  BY <1>10 DEF Agree, Goto, Shaped
<1>11. CASE Keep(p)
  BY <1>11 DEF Keep, Shaped
<1>12. CASE Retarget(p)
  BY <1>12 DEF Retarget, Goto, history, Shaped
<1>13. CASE QueueBusy(p)
  BY <1>13 DEF QueueBusy, history, Shaped
<1>14. ASSUME NEW accepted \in BOOLEAN, Send(p, accepted)
      PROVE  /\ captured \subseteq captured' /\ taken \subseteq taken' /\ lost \subseteq lost' /\ aged' = aged
           /\ captured' \ captured \subseteq InHand(p)'
  BY <1>14 DEF Send, Offer, Goto, Shaped
<1>15. ASSUME NEW accepted \in BOOLEAN, Request(p, accepted)
      PROVE  /\ captured \subseteq captured' /\ taken \subseteq taken' /\ lost \subseteq lost' /\ aged' = aged
           /\ captured' \ captured \subseteq InHand(p)'
  BY <1>15 DEF Request, Offer, Goto, Shaped
<1>16. ASSUME NEW batch \in SUBSET Files({MyDir(p)}), Collect(p, batch)
      PROVE  /\ captured \subseteq captured' /\ taken \subseteq taken' /\ lost \subseteq lost' /\ aged' = aged
           /\ captured' \ captured \subseteq InHand(p)'
  BY <1>16 DEF Collect, Goto, history, Shaped
<1>17. ASSUME NEW f \in todo[p], MoveEntry(p, f)
      PROVE  /\ captured \subseteq captured' /\ taken \subseteq taken' /\ lost \subseteq lost' /\ aged' = aged
           /\ captured' \ captured \subseteq InHand(p)'
  BY <1>17 DEF MoveEntry, history, Shaped
<1>18. ASSUME NEW f \in todo[p], Remove(p, f)
      PROVE  /\ captured \subseteq captured' /\ taken \subseteq taken' /\ lost \subseteq lost' /\ aged' = aged
           /\ captured' \ captured \subseteq InHand(p)'
  BY <1>18 DEF Remove, history, Shaped
<1>19. ASSUME NEW f \in todo[p], Charge(p, f)
      PROVE  /\ captured \subseteq captured' /\ taken \subseteq taken' /\ lost \subseteq lost' /\ aged' = aged
           /\ captured' \ captured \subseteq InHand(p)'
  BY <1>19 DEF Charge, history, Shaped
<1>20. ASSUME NEW f \in todo[p], Reread(p, f)
      PROVE  /\ captured \subseteq captured' /\ taken \subseteq taken' /\ lost \subseteq lost' /\ aged' = aged
           /\ captured' \ captured \subseteq InHand(p)'
  BY <1>20 DEF Reread, Goto, history, Shaped
<1>21. ASSUME NEW e \in held[p], Enqueue(p, e)
      PROVE  /\ captured \subseteq captured' /\ taken \subseteq taken' /\ lost \subseteq lost' /\ aged' = aged
           /\ captured' \ captured \subseteq InHand(p)'
  BY <1>21 DEF Enqueue, Goto, history, Shaped
<1>22. ASSUME NEW e \in held[p], Repin(p, e)
      PROVE  /\ captured \subseteq captured' /\ taken \subseteq taken' /\ lost \subseteq lost' /\ aged' = aged
           /\ captured' \ captured \subseteq InHand(p)'
  BY <1>22 DEF Repin, Goto, history, Shaped
<1>23. ASSUME NEW e \in held[p], RenameRepinned(p, e)
      PROVE  /\ captured \subseteq captured' /\ taken \subseteq taken' /\ lost \subseteq lost' /\ aged' = aged
           /\ captured' \ captured \subseteq InHand(p)'
  BY <1>23 DEF RenameRepinned, Goto, history, Shaped
<1>24. ASSUME NEW e \in held[p], RetargetThrows(p, e)
      PROVE  /\ captured \subseteq captured' /\ taken \subseteq taken' /\ lost \subseteq lost' /\ aged' = aged
           /\ captured' \ captured \subseteq InHand(p)'
  BY <1>24 DEF RetargetThrows, history, Shaped
<1>25. CASE Crash(p)
  BY <1>25 DEF Crash, Shaped
<1> QED
  BY <1>1, <1>2, <1>3, <1>4, <1>5, <1>6, <1>7, <1>8, <1>9, <1>10, <1>11, <1>12, <1>13, <1>14, <1>15,
     <1>16, <1>17, <1>18, <1>19, <1>20, <1>21, <1>22, <1>23, <1>24, <1>25
  DEF Act, Continue

(* A record comes into a process's hands new, or from the disk.            *)
LEMMA HeldStep ==
    ASSUME NEW p \in Procs, Shaped, Act(p)
    PROVE  \A e \in held'[p] : e \in held[p] \/ e \notin captured \/ \E d \in Dirs : stored[d][e] # Absent
<1>1. ASSUME NEW at \in Places, NEW new \in SUBSET (Events \ captured), Begin(p, at, new)
      PROVE  \A e \in held'[p] : e \in held[p] \/ e \notin captured \/ \E d \in Dirs : stored[d][e] # Absent
  BY <1>1 DEF Begin, Shaped, Hands, disk, lock
<1>2. ASSUME NEW at \in Places, NEW id \in Identity, Setup(p, at, id)
      PROVE  \A e \in held'[p] : e \in held[p] \/ e \notin captured \/ \E d \in Dirs : stored[d][e] # Absent
  BY <1>2 DEF Setup, Shaped, Hands, disk, lock
<1>3. CASE SettleList(p)
  BY <1>3 DEF SettleList, Shaped, Hands, disk, lock, history
<1>4. CASE Skip(p)
  BY <1>4 DEF Skip, Shaped, Hands, disk, lock, history
<1>5. CASE Sweep(p)
  BY <1>5 DEF Sweep, Shaped, Hands, disk, lock, history
<1>6. CASE Drain(p)
  BY <1>6 DEF Drain, Shaped, Hands, disk, history
<1>7. CASE Finish(p)
  BY <1>7, EndIs DEF Finish, Shaped
<1>8. CASE Busy(p)
  BY <1>8, EndIs DEF Busy, Shaped
<1>9. CASE SaveConfig(p)
  BY <1>9 DEF SaveConfig, Shaped, Hands, lock
<1>10. CASE Agree(p)
  BY <1>10 DEF Agree, Shaped, Hands, disk, lock
<1>11. CASE Keep(p)
  BY <1>11, EndIs DEF Keep, Shaped
<1>12. CASE Retarget(p)
  BY <1>12 DEF Retarget, Shaped, Hands, disk, lock, history
<1>13. CASE QueueBusy(p)
  BY <1>13, EndIs DEF QueueBusy, Shaped
<1>14. ASSUME NEW accepted \in BOOLEAN, Send(p, accepted)
      PROVE  \A e \in held'[p] : e \in held[p] \/ e \notin captured \/ \E d \in Dirs : stored[d][e] # Absent
  BY <1>14 DEF Send, Shaped, Hands, disk, lock
<1>15. ASSUME NEW accepted \in BOOLEAN, Request(p, accepted)
      PROVE  \A e \in held'[p] : e \in held[p] \/ e \notin captured \/ \E d \in Dirs : stored[d][e] # Absent
  BY <1>15 DEF Request, Shaped, Hands, disk, lock
<1>16. ASSUME NEW batch \in SUBSET Files({MyDir(p)}), Collect(p, batch)
      PROVE  \A e \in held'[p] : e \in held[p] \/ e \notin captured \/ \E d \in Dirs : stored[d][e] # Absent
  BY <1>16 DEF Collect, Shaped, Hands, disk, lock, history
<1>17. ASSUME NEW f \in todo[p], MoveEntry(p, f)
      PROVE  \A e \in held'[p] : e \in held[p] \/ e \notin captured \/ \E d \in Dirs : stored[d][e] # Absent
  BY <1>17 DEF MoveEntry, Shaped, Hands, lock, history
<1>18. ASSUME NEW f \in todo[p], Remove(p, f)
      PROVE  \A e \in held'[p] : e \in held[p] \/ e \notin captured \/ \E d \in Dirs : stored[d][e] # Absent
  BY <1>18 DEF Remove, Shaped, Hands, lock, history
<1>19. ASSUME NEW f \in todo[p], Charge(p, f)
      PROVE  \A e \in held'[p] : e \in held[p] \/ e \notin captured \/ \E d \in Dirs : stored[d][e] # Absent
  BY <1>19 DEF Charge, Shaped, Hands, lock, history
<1>20. ASSUME NEW f \in todo[p], Reread(p, f)
      PROVE  \A e \in held'[p] : e \in held[p] \/ e \notin captured \/ \E d \in Dirs : stored[d][e] # Absent
  <2>1. f \in Listed /\ Before(p).url # Absent
    BY <1>20, PartitionAssumption DEF Shaped, Hands, Reread, Local, Retargeting
  <2> QED
    BY <1>20, <2>1 DEF Reread, Shaped, Hands, Listed
<1>21. ASSUME NEW e \in held[p], Enqueue(p, e)
      PROVE  \A x \in held'[p] : x \in held[p] \/ x \notin captured \/ \E d \in Dirs : stored[d][x] # Absent
  BY <1>21 DEF Enqueue, Shaped, Hands, lock, history
<1>22. ASSUME NEW e \in held[p], Repin(p, e)
      PROVE  \A x \in held'[p] : x \in held[p] \/ x \notin captured \/ \E d \in Dirs : stored[d][x] # Absent
  BY <1>22 DEF Repin, Shaped, Hands, lock, history
<1>23. ASSUME NEW e \in held[p], RenameRepinned(p, e)
      PROVE  \A x \in held'[p] : x \in held[p] \/ x \notin captured \/ \E d \in Dirs : stored[d][x] # Absent
  BY <1>23 DEF RenameRepinned, Shaped, Hands, lock, history
<1>24. ASSUME NEW e \in held[p], RetargetThrows(p, e)
      PROVE  \A x \in held'[p] : x \in held[p] \/ x \notin captured \/ \E d \in Dirs : stored[d][x] # Absent
  BY <1>24, EndIs DEF RetargetThrows, Shaped
<1>25. CASE Crash(p)
  BY <1>25, EndIs DEF Crash, Shaped
<1> QED
  BY <1>1, <1>2, <1>3, <1>4, <1>5, <1>6, <1>7, <1>8, <1>9, <1>10, <1>11, <1>12, <1>13, <1>14, <1>15,
     <1>16, <1>17, <1>18, <1>19, <1>20, <1>21, <1>22, <1>23, <1>24, <1>25
  DEF Act, Continue

(* ... and into the hands InHand speaks of, only new.                      *)
LEMMA InHandStep ==
    ASSUME NEW p \in Procs, Shaped, Act(p)
    PROVE  \A e \in InHand(p)' : e \in InHand(p) \/ e \notin captured
<1>1. ASSUME NEW at \in Places, NEW new \in SUBSET (Events \ captured), Begin(p, at, new)
      PROVE  \A e \in InHand(p)' : e \in InHand(p) \/ e \notin captured
  BY <1>1 DEF Begin, Goto, Shaped, Hands, Stage, InHand, disk, lock
<1>2. ASSUME NEW at \in Places, NEW id \in Identity, Setup(p, at, id)
      PROVE  \A e \in InHand(p)' : e \in InHand(p) \/ e \notin captured
  BY <1>2 DEF Setup, Goto, Shaped, Hands, Stage, InHand, disk, lock
<1>3. CASE SettleList(p)
  BY <1>3 DEF SettleList, Goto, Shaped, Hands, Stage, InHand, disk, lock, history
<1>4. CASE Skip(p)
  BY <1>4 DEF Skip, Settled, Goto, Shaped, Hands, Stage, InHand, disk, lock, history
<1>5. CASE Sweep(p)
  BY <1>5 DEF Sweep, Settled, Maintaining, Goto, Shaped, Hands, Stage, InHand, disk, lock, history
<1>6. CASE Drain(p)
  BY <1>6 DEF Drain, Settled, Maintaining, Goto, Shaped, Hands, Stage, InHand, disk, history
<1>7. CASE Finish(p)
  BY <1>7, EndIs DEF Finish, Shaped, InHand
<1>8. CASE Busy(p)
  BY <1>8, EndIs DEF Busy, Shaped, InHand
<1>9. CASE SaveConfig(p)
  BY <1>9 DEF SaveConfig, Goto, Shaped, Hands, Stage, InHand, lock
<1>10. CASE Agree(p)
  BY <1>10 DEF Agree, Goto, Shaped, Hands, Stage, InHand, disk, lock
<1>11. CASE Keep(p)
  BY <1>11, EndIs DEF Keep, Shaped, InHand
<1>12. CASE Retarget(p)
  BY <1>12 DEF Retarget, Goto, Shaped, Hands, Stage, InHand, disk, lock, history
<1>13. CASE QueueBusy(p)
  BY <1>13, EndIs DEF QueueBusy, Shaped, InHand
<1>14. ASSUME NEW accepted \in BOOLEAN, Send(p, accepted)
      PROVE  \A e \in InHand(p)' : e \in InHand(p) \/ e \notin captured
  BY <1>14 DEF Send, Settled, Goto, Shaped, Hands, Stage, InHand, disk, lock
<1>15. ASSUME NEW accepted \in BOOLEAN, Request(p, accepted)
      PROVE  \A e \in InHand(p)' : e \in InHand(p) \/ e \notin captured
  BY <1>15 DEF Request, Goto, Shaped, Hands, Stage, InHand, disk, lock
<1>16. ASSUME NEW batch \in SUBSET Files({MyDir(p)}), Collect(p, batch)
      PROVE  \A e \in InHand(p)' : e \in InHand(p) \/ e \notin captured
  BY <1>16 DEF Collect, Goto, Shaped, Hands, Stage, InHand, disk, lock, history
<1>17. ASSUME NEW f \in todo[p], MoveEntry(p, f)
      PROVE  \A e \in InHand(p)' : e \in InHand(p) \/ e \notin captured
  BY <1>17 DEF MoveEntry, Shaped, Hands, Stage, InHand, lock, history
<1>18. ASSUME NEW f \in todo[p], Remove(p, f)
      PROVE  \A e \in InHand(p)' : e \in InHand(p) \/ e \notin captured
  BY <1>18 DEF Remove, Shaped, Hands, Stage, InHand, lock, history
<1>19. ASSUME NEW f \in todo[p], Charge(p, f)
      PROVE  \A e \in InHand(p)' : e \in InHand(p) \/ e \notin captured
  BY <1>19 DEF Charge, Shaped, Hands, Stage, InHand, lock, history
<1>20. ASSUME NEW f \in todo[p], Reread(p, f)
      PROVE  \A e \in InHand(p)' : e \in InHand(p) \/ e \notin captured
  BY <1>20 DEF Reread, Goto, Shaped, Hands, Stage, InHand, disk, lock, history
<1>21. ASSUME NEW e \in held[p], Enqueue(p, e)
      PROVE  \A x \in InHand(p)' : x \in InHand(p) \/ x \notin captured
  BY <1>21 DEF Enqueue, Goto, Shaped, Hands, Stage, InHand, lock, history
<1>22. ASSUME NEW e \in held[p], Repin(p, e)
      PROVE  \A x \in InHand(p)' : x \in InHand(p) \/ x \notin captured
  BY <1>22 DEF Repin, Goto, Shaped, Hands, Stage, InHand, lock, history
<1>23. ASSUME NEW e \in held[p], RenameRepinned(p, e)
      PROVE  \A x \in InHand(p)' : x \in InHand(p) \/ x \notin captured
  BY <1>23 DEF RenameRepinned, Goto, Shaped, Hands, Stage, InHand, lock, history
<1>24. ASSUME NEW e \in held[p], RetargetThrows(p, e)
      PROVE  \A x \in InHand(p)' : x \in InHand(p) \/ x \notin captured
  BY <1>24, EndIs DEF RetargetThrows, Shaped, InHand
<1>25. CASE Crash(p)
  BY <1>25, EndIs DEF Crash, Shaped, InHand
<1> QED
  BY <1>1, <1>2, <1>3, <1>4, <1>5, <1>6, <1>7, <1>8, <1>9, <1>10, <1>11, <1>12, <1>13, <1>14, <1>15,
     <1>16, <1>17, <1>18, <1>19, <1>20, <1>21, <1>22, <1>23, <1>24, <1>25
  DEF Act, Continue

(* A record that is nowhere stays nowhere, but for its own hook's enqueue. *)
LEMMA Untouched ==
    ASSUME NEW p \in Procs, Shaped, NEW g \in Events, \A d \in Dirs : stored[d][g] = Absent, \A f \in todo[p] : f.event # g,
           g \in held[p] => g \in InHand(p)', Act(p)
    PROVE  /\ \A d \in Dirs : stored'[d][g] = Absent
           /\ \A f \in todo'[p] : f.event # g
<1>1. ASSUME NEW at \in Places, NEW new \in SUBSET (Events \ captured), Begin(p, at, new)
      PROVE  /\ \A d \in Dirs : stored'[d][g] = Absent
           /\ \A f \in todo'[p] : f.event # g
  BY <1>1 DEF Begin, Shaped, Hands, disk, lock
<1>2. ASSUME NEW at \in Places, NEW id \in Identity, Setup(p, at, id)
      PROVE  /\ \A d \in Dirs : stored'[d][g] = Absent
           /\ \A f \in todo'[p] : f.event # g
  BY <1>2 DEF Setup, Shaped, Hands, disk, lock
<1>3. CASE SettleList(p)
  <2>1. {"loose", "unconfigured"} \subseteq Dirs
    BY <1>3, MyDirIs DEF SettleList, Dirs, Shared, Local, Retargeting, Shaped
  <2>2. \A f \in Files({"loose", "unconfigured"}) : f.dir \in {"loose", "unconfigured"} /\ f.event \in Events /\ stored[f.dir][f.event] # Absent /\ f.dest = stored[f.dir][f.event]
    BY <2>1, FilesAre DEF Shaped
  <2> QED
    BY <1>3, <2>1, <2>2 DEF SettleList, Shaped, Hands, disk
<1>4. CASE Skip(p)
  BY <1>4 DEF Skip, Shaped, Hands, disk, lock, history
<1>5. CASE Sweep(p)
  <2>1. {MyDir(p)} \subseteq Dirs
    BY <1>5, MyDirIs DEF Sweep, Dirs, Shared, Local, Retargeting, Shaped
  <2>2. \A f \in Files({MyDir(p)}) : f.dir \in {MyDir(p)} /\ f.event \in Events /\ stored[f.dir][f.event] # Absent /\ f.dest = stored[f.dir][f.event]
    BY <2>1, FilesAre DEF Shaped
  <2> QED
    BY <1>5, <2>1, <2>2 DEF Sweep, Shaped, Hands, disk, Expired
<1>6. CASE Drain(p)
  <2>1. {MyDir(p)} \subseteq Dirs
    BY <1>6, MyDirIs DEF Drain, Dirs, Shared, Local, Retargeting, Shaped
  <2>2. \A f \in Files({MyDir(p)}) : f.dir \in {MyDir(p)} /\ f.event \in Events /\ stored[f.dir][f.event] # Absent /\ f.dest = stored[f.dir][f.event]
    BY <2>1, FilesAre DEF Shaped
  <2> QED
    BY <1>6, <2>1, <2>2 DEF Drain, Shaped, Hands, disk, Expired
<1>7. CASE Finish(p)
  BY <1>7, EndIs DEF Finish, Shaped, disk
<1>8. CASE Busy(p)
  BY <1>8, EndIs DEF Busy, Shaped, disk
<1>9. CASE SaveConfig(p)
  BY <1>9 DEF SaveConfig, Shaped, Hands, lock
<1>10. CASE Agree(p)
  BY <1>10 DEF Agree, Shaped, Hands, disk, lock
<1>11. CASE Keep(p)
  BY <1>11, EndIs DEF Keep, Shaped, disk
<1>12. CASE Retarget(p)
  <2>1. {Before(p).token} \subseteq Dirs
    BY <1>12, MyDirIs DEF Retarget, Dirs, Shared, Local, Retargeting, Shaped
  <2>2. \A f \in Files({Before(p).token}) : f.dir \in {Before(p).token} /\ f.event \in Events /\ stored[f.dir][f.event] # Absent /\ f.dest = stored[f.dir][f.event]
    BY <2>1, FilesAre DEF Shaped
  <2> QED
    BY <1>12, <2>1, <2>2 DEF Retarget, Shaped, Hands, disk
<1>13. CASE QueueBusy(p)
  BY <1>13, EndIs DEF QueueBusy, Shaped, disk
<1>14. ASSUME NEW accepted \in BOOLEAN, Send(p, accepted)
      PROVE  /\ \A d \in Dirs : stored'[d][g] = Absent
           /\ \A f \in todo'[p] : f.event # g
  BY <1>14 DEF Send, Shaped, Hands, disk, lock
<1>15. ASSUME NEW accepted \in BOOLEAN, Request(p, accepted)
      PROVE  /\ \A d \in Dirs : stored'[d][g] = Absent
           /\ \A f \in todo'[p] : f.event # g
  BY <1>15 DEF Request, Shaped, Hands, disk, lock
<1>16. ASSUME NEW batch \in SUBSET Files({MyDir(p)}), Collect(p, batch)
      PROVE  /\ \A d \in Dirs : stored'[d][g] = Absent
           /\ \A f \in todo'[p] : f.event # g
  <2>1. {MyDir(p)} \subseteq Dirs
    BY <1>16, MyDirIs DEF Collect, Dirs, Shared, Local, Retargeting, Shaped
  <2>2. \A f \in Files({MyDir(p)}) : f.dir \in {MyDir(p)} /\ f.event \in Events /\ stored[f.dir][f.event] # Absent /\ f.dest = stored[f.dir][f.event]
    BY <2>1, FilesAre DEF Shaped
  <2> QED
    BY <1>16, <2>1, <2>2 DEF Collect, Shaped, Hands, disk
<1>17. ASSUME NEW f \in todo[p], MoveEntry(p, f)
      PROVE  /\ \A d \in Dirs : stored'[d][g] = Absent
           /\ \A x \in todo'[p] : x.event # g
  <2>1. f.event # g
    BY <1>17 DEF MoveEntry, InHand, Shaped, Hands, Stage
  <2>2. \A d \in Dirs : stored'[d][g] = stored[d][g]
    BY <1>17, <2>1, MoveEntryIs
  <2>3. todo'[p] \subseteq todo[p]
    BY <1>17 DEF MoveEntry, Handled, Shaped, Hands
  <2> QED
    BY <2>2, <2>3
<1>18. ASSUME NEW f \in todo[p], Remove(p, f)
      PROVE  /\ \A d \in Dirs : stored'[d][g] = Absent
           /\ \A x \in todo'[p] : x.event # g
  <2>1. f.event # g
    BY <1>18 DEF Remove, InHand, Shaped, Hands, Stage
  <2>2. \A d \in Dirs : stored'[d][g] = stored[d][g]
    BY <1>18, <2>1, RemoveIs
  <2>3. todo'[p] \subseteq todo[p]
    BY <1>18 DEF Remove, Handled, Shaped, Hands
  <2> QED
    BY <2>2, <2>3
<1>19. ASSUME NEW f \in todo[p], Charge(p, f)
      PROVE  /\ \A d \in Dirs : stored'[d][g] = Absent
           /\ \A x \in todo'[p] : x.event # g
  <2>1. f.event # g
    BY <1>19 DEF Charge, InHand, Shaped, Hands, Stage
  <2>2. \A d \in Dirs : stored'[d][g] = stored[d][g]
    BY <1>19, <2>1, ChargeIs
  <2>3. todo'[p] \subseteq todo[p]
    BY <1>19 DEF Charge, Handled, Shaped, Hands
  <2> QED
    BY <2>2, <2>3
<1>20. ASSUME NEW f \in todo[p], Reread(p, f)
      PROVE  /\ \A d \in Dirs : stored'[d][g] = Absent
           /\ \A x \in todo'[p] : x.event # g
  BY <1>20 DEF Reread, Handled, Shaped, Hands, disk, lock, history
<1>21. ASSUME NEW e \in held[p], Enqueue(p, e)
      PROVE  /\ \A d \in Dirs : stored'[d][g] = Absent
           /\ \A f \in todo'[p] : f.event # g
  <2>1. e # g
    BY <1>21 DEF Enqueue, InHand, Shaped, Hands, Stage, Goto
  <2>2. \A d \in Dirs : stored'[d][g] = stored[d][g]
    BY <1>21, <2>1, EnqueueIs
  <2>3. todo'[p] \subseteq todo[p]
    BY <1>21 DEF Enqueue, Shaped, Hands
  <2> QED
    BY <2>2, <2>3
<1>22. ASSUME NEW e \in held[p], Repin(p, e)
      PROVE  /\ \A d \in Dirs : stored'[d][g] = Absent
           /\ \A f \in todo'[p] : f.event # g
  <2>1. e # g
    BY <1>22 DEF Repin, InHand, Shaped, Hands, Stage, Goto
  <2>2. \A d \in Dirs : stored'[d][g] = stored[d][g]
    BY <1>22, <2>1, RepinIs
  <2>3. todo'[p] \subseteq todo[p]
    BY <1>22 DEF Repin, Shaped, Hands
  <2> QED
    BY <2>2, <2>3
<1>23. ASSUME NEW e \in held[p], RenameRepinned(p, e)
      PROVE  /\ \A d \in Dirs : stored'[d][g] = Absent
           /\ \A f \in todo'[p] : f.event # g
  <2>1. e # g
    BY <1>23 DEF RenameRepinned, InHand, Shaped, Hands, Stage, Goto
  <2>2. \A d \in Dirs : stored'[d][g] = stored[d][g]
    BY <1>23, <2>1, RenameRepinnedIs
  <2>3. todo'[p] \subseteq todo[p]
    BY <1>23 DEF RenameRepinned, Shaped, Hands
  <2> QED
    BY <2>2, <2>3
<1>24. ASSUME NEW e \in held[p], RetargetThrows(p, e)
      PROVE  /\ \A d \in Dirs : stored'[d][g] = Absent
           /\ \A f \in todo'[p] : f.event # g
  BY <1>24, EndIs DEF RetargetThrows, Shaped, disk
<1>25. CASE Crash(p)
  BY <1>25, EndIs DEF Crash, Shaped, disk
<1> QED
  BY <1>1, <1>2, <1>3, <1>4, <1>5, <1>6, <1>7, <1>8, <1>9, <1>10, <1>11, <1>12, <1>13, <1>14, <1>15,
     <1>16, <1>17, <1>18, <1>19, <1>20, <1>21, <1>22, <1>23, <1>24, <1>25
  DEF Act, Continue

(* A process writes, holds and lists only what was captured.               *)
LEMMA KnownStep ==
    ASSUME NEW p \in Procs, Shaped, KnownStored, KnownBy(p), Act(p)
    PROVE  KnownStored' /\ KnownBy(p)'
<1>1. ASSUME NEW at \in Places, NEW new \in SUBSET (Events \ captured), Begin(p, at, new)
      PROVE  KnownStored' /\ KnownBy(p)'
  BY <1>1 DEF Begin, KnownStored, KnownBy, Shaped, Hands, disk, lock
<1>2. ASSUME NEW at \in Places, NEW id \in Identity, Setup(p, at, id)
      PROVE  KnownStored' /\ KnownBy(p)'
  BY <1>2 DEF Setup, KnownStored, KnownBy, Shaped, Hands, disk, lock
<1>3. CASE SettleList(p)
  <2>1. {"loose", "unconfigured"} \subseteq Dirs
    BY <1>3, MyDirIs DEF SettleList, Dirs, Shared, Local, Retargeting, Shaped
  <2>2. \A f \in Files({"loose", "unconfigured"}) : f.dir \in {"loose", "unconfigured"} /\ f.event \in Events /\ stored[f.dir][f.event] # Absent /\ f.dest = stored[f.dir][f.event]
    BY <2>1, FilesAre DEF Shaped
  <2> QED
    BY <1>3, <2>1, <2>2 DEF SettleList, KnownStored, KnownBy, Shaped, Hands, disk, history
<1>4. CASE Skip(p)
  BY <1>4 DEF Skip, KnownStored, KnownBy, Shaped, Hands, disk, lock, history
<1>5. CASE Sweep(p)
  <2>1. {MyDir(p)} \subseteq Dirs
    BY <1>5, MyDirIs DEF Sweep, Dirs, Shared, Local, Retargeting, Shaped
  <2>2. \A f \in Files({MyDir(p)}) : f.dir \in {MyDir(p)} /\ f.event \in Events /\ stored[f.dir][f.event] # Absent /\ f.dest = stored[f.dir][f.event]
    BY <2>1, FilesAre DEF Shaped
  <2> QED
    BY <1>5, <2>1, <2>2 DEF Sweep, KnownStored, KnownBy, Shaped, Hands, disk, history, Expired
<1>6. CASE Drain(p)
  <2>1. {MyDir(p)} \subseteq Dirs
    BY <1>6, MyDirIs DEF Drain, Dirs, Shared, Local, Retargeting, Shaped
  <2>2. \A f \in Files({MyDir(p)}) : f.dir \in {MyDir(p)} /\ f.event \in Events /\ stored[f.dir][f.event] # Absent /\ f.dest = stored[f.dir][f.event]
    BY <2>1, FilesAre DEF Shaped
  <2> QED
    BY <1>6, <2>1, <2>2 DEF Drain, KnownStored, KnownBy, Shaped, Hands, disk, history, Expired
<1>7. CASE Finish(p)
  BY <1>7, EndIs DEF Finish, Shaped, KnownStored, KnownBy, disk, history
<1>8. CASE Busy(p)
  BY <1>8, EndIs DEF Busy, Shaped, KnownStored, KnownBy, disk, history
<1>9. CASE SaveConfig(p)
  BY <1>9 DEF SaveConfig, KnownStored, KnownBy, Shaped, Hands, lock
<1>10. CASE Agree(p)
  BY <1>10 DEF Agree, KnownStored, KnownBy, Shaped, Hands, disk, lock
<1>11. CASE Keep(p)
  BY <1>11, EndIs DEF Keep, Shaped, KnownStored, KnownBy, disk
<1>12. CASE Retarget(p)
  <2>1. {Before(p).token} \subseteq Dirs
    BY <1>12, MyDirIs DEF Retarget, Dirs, Shared, Local, Retargeting, Shaped
  <2>2. \A f \in Files({Before(p).token}) : f.dir \in {Before(p).token} /\ f.event \in Events /\ stored[f.dir][f.event] # Absent /\ f.dest = stored[f.dir][f.event]
    BY <2>1, FilesAre DEF Shaped
  <2> QED
    BY <1>12, <2>1, <2>2 DEF Retarget, KnownStored, KnownBy, Shaped, Hands, disk, history
<1>13. CASE QueueBusy(p)
  BY <1>13, EndIs DEF QueueBusy, Shaped, KnownStored, KnownBy, disk, history
<1>14. ASSUME NEW accepted \in BOOLEAN, Send(p, accepted)
      PROVE  KnownStored' /\ KnownBy(p)'
  BY <1>14 DEF Send, KnownStored, KnownBy, Shaped, Hands, disk, lock
<1>15. ASSUME NEW accepted \in BOOLEAN, Request(p, accepted)
      PROVE  KnownStored' /\ KnownBy(p)'
  BY <1>15 DEF Request, KnownStored, KnownBy, Shaped, Hands, disk, lock
<1>16. ASSUME NEW batch \in SUBSET Files({MyDir(p)}), Collect(p, batch)
      PROVE  KnownStored' /\ KnownBy(p)'
  <2>1. {MyDir(p)} \subseteq Dirs
    BY <1>16, MyDirIs DEF Collect, Dirs, Shared, Local, Retargeting, Shaped
  <2>2. \A f \in Files({MyDir(p)}) : f.dir \in {MyDir(p)} /\ f.event \in Events /\ stored[f.dir][f.event] # Absent /\ f.dest = stored[f.dir][f.event]
    BY <2>1, FilesAre DEF Shaped
  <2> QED
    BY <1>16, <2>1, <2>2 DEF Collect, KnownStored, KnownBy, Shaped, Hands, disk, history
<1>17. ASSUME NEW f \in todo[p], MoveEntry(p, f)
      PROVE  KnownStored' /\ KnownBy(p)'
  <2>1. KnownStored'
    <3>1. captured' = captured /\ f.event \in captured
      BY <1>17 DEF MoveEntry, KnownBy, history
    <3> QED
      BY <1>17, <3>1, MoveEntryIs, PartitionAssumption DEF KnownStored, There
  <2>2. KnownBy(p)'
    BY <1>17 DEF MoveEntry, KnownBy, Shaped, Hands, Handled, history
  <2> QED
    BY <2>1, <2>2
<1>18. ASSUME NEW f \in todo[p], Remove(p, f)
      PROVE  KnownStored' /\ KnownBy(p)'
  <2>1. KnownStored'
    <3>1. captured' = captured /\ f.event \in captured
      BY <1>18 DEF Remove, KnownBy, history
    <3> QED
      BY <1>18, <3>1, RemoveIs, PartitionAssumption DEF KnownStored
  <2>2. KnownBy(p)'
    BY <1>18 DEF Remove, KnownBy, Shaped, Hands, Handled, history
  <2> QED
    BY <2>1, <2>2
<1>19. ASSUME NEW f \in todo[p], Charge(p, f)
      PROVE  KnownStored' /\ KnownBy(p)'
  <2>1. KnownStored'
    <3>1. captured' = captured /\ f.event \in captured
      BY <1>19 DEF Charge, KnownBy, history
    <3> QED
      BY <1>19, <3>1, ChargeIs, PartitionAssumption DEF KnownStored
  <2>2. KnownBy(p)'
    BY <1>19 DEF Charge, KnownBy, Shaped, Hands, Handled, history
  <2> QED
    BY <2>1, <2>2
<1>20. ASSUME NEW f \in todo[p], Reread(p, f)
      PROVE  KnownStored' /\ KnownBy(p)'
  <2>1. f.event \in captured /\ f \in Listed
    BY <1>20 DEF KnownBy, Shaped, Hands
  <2> QED
    BY <1>20, <2>1 DEF Reread, Handled, KnownStored, KnownBy, Shaped, Hands, disk, history
<1>21. ASSUME NEW e \in held[p], Enqueue(p, e)
      PROVE  KnownStored' /\ KnownBy(p)'
  <2>1. KnownStored'
    <3>1. captured' = captured /\ e \in captured
      BY <1>21 DEF Enqueue, KnownBy, history
    <3> QED
      BY <1>21, <3>1, EnqueueIs, PartitionAssumption DEF KnownStored
  <2>2. KnownBy(p)'
    BY <1>21 DEF Enqueue, KnownBy, Shaped, Hands, history
  <2> QED
    BY <2>1, <2>2
<1>22. ASSUME NEW e \in held[p], Repin(p, e)
      PROVE  KnownStored' /\ KnownBy(p)'
  <2>1. KnownStored'
    <3>1. captured' = captured /\ e \in captured
      BY <1>22 DEF Repin, KnownBy, history
    <3> QED
      BY <1>22, <3>1, RepinIs, PartitionAssumption DEF KnownStored
  <2>2. KnownBy(p)'
    BY <1>22 DEF Repin, KnownBy, Shaped, Hands, history
  <2> QED
    BY <2>1, <2>2
<1>23. ASSUME NEW e \in held[p], RenameRepinned(p, e)
      PROVE  KnownStored' /\ KnownBy(p)'
  <2>1. KnownStored'
    <3>1. captured' = captured /\ e \in captured
      BY <1>23 DEF RenameRepinned, KnownBy, history
    <3> QED
      BY <1>23, <3>1, RenameRepinnedIs, PartitionAssumption DEF KnownStored
  <2>2. KnownBy(p)'
    BY <1>23 DEF RenameRepinned, KnownBy, Shaped, Hands, history
  <2> QED
    BY <2>1, <2>2
<1>24. ASSUME NEW e \in held[p], RetargetThrows(p, e)
      PROVE  KnownStored' /\ KnownBy(p)'
  BY <1>24, EndIs DEF RetargetThrows, Shaped, KnownStored, KnownBy, disk, history
<1>25. CASE Crash(p)
  BY <1>25, EndIs DEF Crash, Shaped, KnownStored, KnownBy, disk
<1> QED
  BY <1>1, <1>2, <1>3, <1>4, <1>5, <1>6, <1>7, <1>8, <1>9, <1>10, <1>11, <1>12, <1>13, <1>14, <1>15,
     <1>16, <1>17, <1>18, <1>19, <1>20, <1>21, <1>22, <1>23, <1>24, <1>25
  DEF Act, Continue

(* A process lists for removal only what may go.                           *)
LEMMA DisposableStep ==
    ASSUME NEW p \in Procs, Shaped, Disposable(p), Act(p)
    PROVE  Disposable(p)'
<1>1. ASSUME NEW at \in Places, NEW new \in SUBSET (Events \ captured), Begin(p, at, new)
      PROVE  Disposable(p)'
  BY <1>1 DEF Begin, Effective, Goto, Disposable, Shaped, Stage, Hands, disk, lock
<1>2. ASSUME NEW at \in Places, NEW id \in Identity, Setup(p, at, id)
      PROVE  Disposable(p)'
  BY <1>2 DEF Setup, Goto, Disposable, Shaped, Stage, Hands, disk, lock
<1>3. CASE SettleList(p)
  BY <1>3 DEF SettleList, Goto, Files, Entries, Disposable, Shaped, Stage, Hands, disk, lock,
     history
<1>4. CASE Skip(p)
  BY <1>4 DEF Skip, Settled, Goto, Disposable, Shaped, Stage, Hands, disk, lock, history
<1>5. CASE Sweep(p)
  BY <1>5 DEF Sweep, Disposable, Expired, Goto, Shaped, Hands, Stage, disk, lock, history
<1>6. CASE Drain(p)
  BY <1>6 DEF Drain, Disposable, Expired, Goto, Shaped, Hands, Stage, disk, history
<1>7. CASE Finish(p)
  BY <1>7, EndIs DEF Finish, Disposable, Shaped
<1>8. CASE Busy(p)
  BY <1>8, EndIs DEF Busy, Disposable, Shaped
<1>9. CASE SaveConfig(p)
  BY <1>9 DEF SaveConfig, Updated, Goto, Disposable, Shaped, Stage, Hands, lock
<1>10. CASE Agree(p)
  BY <1>10 DEF Agree, Goto, Disposable, Shaped, Stage, Hands, disk, lock
<1>11. CASE Keep(p)
  BY <1>11, EndIs DEF Keep, Disposable, Shaped
<1>12. CASE Retarget(p)
  BY <1>12 DEF Retarget, Lock!Acquire, Goto, Files, Entries, Disposable, Shaped, Stage, Hands, disk,
     lock, history
<1>13. CASE QueueBusy(p)
  BY <1>13, EndIs DEF QueueBusy, Disposable, Shaped
<1>14. ASSUME NEW accepted \in BOOLEAN, Send(p, accepted)
      PROVE  Disposable(p)'
  BY <1>14 DEF Send, Settled, Offer, Goto, Disposable, Shaped, Stage, Hands, disk, lock
<1>15. ASSUME NEW accepted \in BOOLEAN, Request(p, accepted)
      PROVE  Disposable(p)'
  BY <1>15 DEF Request, Offer, Goto, Disposable, Shaped, Stage, Hands, disk, lock
<1>16. ASSUME NEW batch \in SUBSET Files({MyDir(p)}), Collect(p, batch)
      PROVE  Disposable(p)'
  BY <1>16 DEF Collect, Goto, Files, Entries, Disposable, Shaped, Stage, Hands, disk, lock, history
<1>17. ASSUME NEW f \in todo[p], MoveEntry(p, f)
      PROVE  Disposable(p)'
  BY <1>17 DEF MoveEntry, Handled, Disposable, Shaped, Stage, Hands, lock, history
<1>18. ASSUME NEW f \in todo[p], Remove(p, f)
      PROVE  Disposable(p)'
  <2>1. todo'[p] \subseteq todo[p] /\ pc' = pc
    BY <1>18 DEF Remove, Handled, Shaped, Hands
  <2> QED
    BY <1>18, <2>1 DEF Remove, Disposable, history
<1>19. ASSUME NEW f \in todo[p], Charge(p, f)
      PROVE  Disposable(p)'
  BY <1>19 DEF Charge, Write, Handled, Disposable, Shaped, Stage, Hands, lock, history
<1>20. ASSUME NEW f \in todo[p], Reread(p, f)
      PROVE  Disposable(p)'
  BY <1>20 DEF Reread, Goto, Handled, Disposable, Shaped, Stage, Hands, disk, lock, history
<1>21. ASSUME NEW e \in held[p], Enqueue(p, e)
      PROVE  Disposable(p)'
  BY <1>21 DEF Enqueue, Write, Destination, Goto, Disposable, Shaped, Stage, Hands, lock, history
<1>22. ASSUME NEW e \in held[p], Repin(p, e)
      PROVE  Disposable(p)'
  BY <1>22 DEF Repin, Write, Goto, Disposable, Shaped, Stage, Hands, lock, history
<1>23. ASSUME NEW e \in held[p], RenameRepinned(p, e)
      PROVE  Disposable(p)'
  BY <1>23 DEF RenameRepinned, Repinned, Rename, There, Goto, Disposable, Shaped, Stage, Hands,
     lock, history
<1>24. ASSUME NEW e \in held[p], RetargetThrows(p, e)
      PROVE  Disposable(p)'
  BY <1>24, EndIs DEF RetargetThrows, Disposable, Shaped
<1>25. CASE Crash(p)
  BY <1>25, EndIs DEF Crash, Disposable, Shaped
<1> QED
  BY <1>1, <1>2, <1>3, <1>4, <1>5, <1>6, <1>7, <1>8, <1>9, <1>10, <1>11, <1>12, <1>13, <1>14, <1>15,
     <1>16, <1>17, <1>18, <1>19, <1>20, <1>21, <1>22, <1>23, <1>24, <1>25
  DEF Act, Continue

(* A step leaves a copy of a record that had one and is still wanted.      *)
LEMMA CopyStep ==
    ASSUME NEW p \in Procs, Shaped, Disposable(p), Act(p)
    PROVE  \A g \in Events : (\E c \in Dirs : stored[c][g] # Absent) /\ g \notin aged \union taken
                => \E d \in Dirs : stored'[d][g] # Absent
<1>1. ASSUME NEW at \in Places, NEW new \in SUBSET (Events \ captured), Begin(p, at, new)
      PROVE  \A g \in Events : (\E c \in Dirs : stored[c][g] # Absent) /\ g \notin aged \union taken
                => \E d \in Dirs : stored'[d][g] # Absent
  BY <1>1 DEF Begin, disk, lock
<1>2. ASSUME NEW at \in Places, NEW id \in Identity, Setup(p, at, id)
      PROVE  \A g \in Events : (\E c \in Dirs : stored[c][g] # Absent) /\ g \notin aged \union taken
                => \E d \in Dirs : stored'[d][g] # Absent
  BY <1>2 DEF Setup, disk, lock
<1>3. CASE SettleList(p)
  BY <1>3 DEF SettleList, disk, lock, history
<1>4. CASE Skip(p)
  BY <1>4 DEF Skip, disk, lock, history
<1>5. CASE Sweep(p)
  BY <1>5 DEF Sweep, disk, lock, history
<1>6. CASE Drain(p)
  BY <1>6 DEF Drain, disk, history
<1>7. CASE Finish(p)
  BY <1>7 DEF Finish, disk
<1>8. CASE Busy(p)
  BY <1>8 DEF Busy, disk
<1>9. CASE SaveConfig(p)
  BY <1>9 DEF SaveConfig, lock
<1>10. CASE Agree(p)
  BY <1>10 DEF Agree, disk, lock
<1>11. CASE Keep(p)
  BY <1>11 DEF Keep, disk
<1>12. CASE Retarget(p)
  BY <1>12 DEF Retarget, disk, lock, history
<1>13. CASE QueueBusy(p)
  BY <1>13 DEF QueueBusy, disk
<1>14. ASSUME NEW accepted \in BOOLEAN, Send(p, accepted)
      PROVE  \A g \in Events : (\E c \in Dirs : stored[c][g] # Absent) /\ g \notin aged \union taken
                => \E d \in Dirs : stored'[d][g] # Absent
  BY <1>14 DEF Send, disk, lock
<1>15. ASSUME NEW accepted \in BOOLEAN, Request(p, accepted)
      PROVE  \A g \in Events : (\E c \in Dirs : stored[c][g] # Absent) /\ g \notin aged \union taken
                => \E d \in Dirs : stored'[d][g] # Absent
  BY <1>15 DEF Request, disk, lock
<1>16. ASSUME NEW batch \in SUBSET Files({MyDir(p)}), Collect(p, batch)
      PROVE  \A g \in Events : (\E c \in Dirs : stored[c][g] # Absent) /\ g \notin aged \union taken
                => \E d \in Dirs : stored'[d][g] # Absent
  BY <1>16 DEF Collect, disk, lock, history
<1>17. ASSUME NEW f \in todo[p], MoveEntry(p, f)
      PROVE  \A g \in Events : (\E c \in Dirs : stored[c][g] # Absent) /\ g \notin aged \union taken
                => \E d \in Dirs : stored'[d][g] # Absent
  <2>1. ASSUME NEW g \in Events, NEW c \in Dirs, stored[c][g] # Absent, g \notin aged \union taken
        PROVE  \E d \in Dirs : stored'[d][g] # Absent
    BY <1>17, <2>1, MoveEntryIs, PartitionAssumption DEF MoveEntry, Disposable, There, Listed
  <2> QED
    BY <2>1
<1>18. ASSUME NEW f \in todo[p], Remove(p, f)
      PROVE  \A g \in Events : (\E c \in Dirs : stored[c][g] # Absent) /\ g \notin aged \union taken
                => \E d \in Dirs : stored'[d][g] # Absent
  <2>1. ASSUME NEW g \in Events, NEW c \in Dirs, stored[c][g] # Absent, g \notin aged \union taken
        PROVE  \E d \in Dirs : stored'[d][g] # Absent
    BY <1>18, <2>1, RemoveIs, PartitionAssumption DEF Remove, Disposable, Listed
  <2> QED
    BY <2>1
<1>19. ASSUME NEW f \in todo[p], Charge(p, f)
      PROVE  \A g \in Events : (\E c \in Dirs : stored[c][g] # Absent) /\ g \notin aged \union taken
                => \E d \in Dirs : stored'[d][g] # Absent
  <2>1. ASSUME NEW g \in Events, NEW c \in Dirs, stored[c][g] # Absent, g \notin aged \union taken
        PROVE  \E d \in Dirs : stored'[d][g] # Absent
    BY <1>19, <2>1, ChargeIs, PartitionAssumption DEF Charge, Disposable, Listed
  <2> QED
    BY <2>1
<1>20. ASSUME NEW f \in todo[p], Reread(p, f)
      PROVE  \A g \in Events : (\E c \in Dirs : stored[c][g] # Absent) /\ g \notin aged \union taken
                => \E d \in Dirs : stored'[d][g] # Absent
  BY <1>20 DEF Reread, disk, lock, history
<1>21. ASSUME NEW e \in held[p], Enqueue(p, e)
      PROVE  \A g \in Events : (\E c \in Dirs : stored[c][g] # Absent) /\ g \notin aged \union taken
                => \E d \in Dirs : stored'[d][g] # Absent
  <2>1. ASSUME NEW g \in Events, NEW c \in Dirs, stored[c][g] # Absent, g \notin aged \union taken
        PROVE  \E d \in Dirs : stored'[d][g] # Absent
    BY <1>21, <2>1, EnqueueIs, PartitionAssumption DEF Enqueue, Disposable
  <2> QED
    BY <2>1
<1>22. ASSUME NEW e \in held[p], Repin(p, e)
      PROVE  \A g \in Events : (\E c \in Dirs : stored[c][g] # Absent) /\ g \notin aged \union taken
                => \E d \in Dirs : stored'[d][g] # Absent
  <2>1. ASSUME NEW g \in Events, NEW c \in Dirs, stored[c][g] # Absent, g \notin aged \union taken
        PROVE  \E d \in Dirs : stored'[d][g] # Absent
    BY <1>22, <2>1, RepinIs, PartitionAssumption DEF Repin, Disposable
  <2> QED
    BY <2>1
<1>23. ASSUME NEW e \in held[p], RenameRepinned(p, e)
      PROVE  \A g \in Events : (\E c \in Dirs : stored[c][g] # Absent) /\ g \notin aged \union taken
                => \E d \in Dirs : stored'[d][g] # Absent
  <2>1. ASSUME NEW g \in Events, NEW c \in Dirs, stored[c][g] # Absent
        PROVE  \E d \in Dirs : stored'[d][g] # Absent
    <3>1. CASE g = e
      <4>1. stored'[me[p].token][e] # Absent /\ me[p].token \in Dirs
        BY <1>23, RenameRepinnedIs
      <4> QED
        BY <3>1, <4>1
    <3>2. CASE g # e
      BY <1>23, <2>1, <3>2, RenameRepinnedIs
    <3> QED
      BY <3>1, <3>2
  <2> QED
    BY <2>1
<1>24. ASSUME NEW e \in held[p], RetargetThrows(p, e)
      PROVE  \A g \in Events : (\E c \in Dirs : stored[c][g] # Absent) /\ g \notin aged \union taken
                => \E d \in Dirs : stored'[d][g] # Absent
  BY <1>24 DEF RetargetThrows, disk
<1>25. CASE Crash(p)
  BY <1>25 DEF Crash, disk
<1> QED
  BY <1>1, <1>2, <1>3, <1>4, <1>5, <1>6, <1>7, <1>8, <1>9, <1>10, <1>11, <1>12, <1>13, <1>14, <1>15,
     <1>16, <1>17, <1>18, <1>19, <1>20, <1>21, <1>22, <1>23, <1>24, <1>25
  DEF Act, Continue

(* A record leaves a hook's hands to the disk, the backend or with a crash.*)
LEMMA HandLeaves ==
    ASSUME NEW p \in Procs, Shaped, Act(p)
    PROVE  \A e \in InHand(p) : e \in InHand(p)' \union taken' \union lost' \/ \E d \in Dirs : stored'[d][e] # Absent
<1>1. ASSUME NEW at \in Places, NEW new \in SUBSET (Events \ captured), Begin(p, at, new)
      PROVE  \A e \in InHand(p) : e \in InHand(p)' \union taken' \union lost' \/ \E d \in Dirs : stored'[d][e] # Absent
  BY <1>1 DEF Begin, Goto, InHand, Shaped, Hands, Stage
<1>2. ASSUME NEW at \in Places, NEW id \in Identity, Setup(p, at, id)
      PROVE  \A e \in InHand(p) : e \in InHand(p)' \union taken' \union lost' \/ \E d \in Dirs : stored'[d][e] # Absent
  BY <1>2 DEF Setup, Goto, InHand, Shaped, Hands, Stage
<1>3. CASE SettleList(p)
  BY <1>3 DEF SettleList, Goto, InHand, Shaped, Hands, Stage
<1>4. CASE Skip(p)
  BY <1>4 DEF Skip, Settled, Goto, InHand, Shaped, Hands, Stage
<1>5. CASE Sweep(p)
  BY <1>5 DEF Sweep, Settled, Maintaining, Goto, InHand, Shaped, Hands, Stage
<1>6. CASE Drain(p)
  BY <1>6 DEF Drain, Settled, Maintaining, Goto, InHand, Shaped, Hands, Stage
<1>7. CASE Finish(p)
  BY <1>7 DEF Finish, InHand
<1>8. CASE Busy(p)
  BY <1>8 DEF Busy, InHand, Maintaining, Settled
<1>9. CASE SaveConfig(p)
  BY <1>9 DEF SaveConfig, Goto, InHand, Shaped, Hands, Stage
<1>10. CASE Agree(p)
  BY <1>10 DEF Agree, Goto, InHand, Shaped, Hands, Stage
<1>11. CASE Keep(p)
  BY <1>11 DEF Keep, InHand
<1>12. CASE Retarget(p)
  BY <1>12 DEF Retarget, Goto, InHand, Shaped, Hands, Stage
<1>13. CASE QueueBusy(p)
  BY <1>13 DEF QueueBusy, InHand
<1>14. ASSUME NEW accepted \in BOOLEAN, Send(p, accepted)
      PROVE  \A e \in InHand(p) : e \in InHand(p)' \union taken' \union lost' \/ \E d \in Dirs : stored'[d][e] # Absent
  BY <1>14 DEF Send, Settled, Offer, Goto, InHand, Shaped, Hands, Stage
<1>15. ASSUME NEW accepted \in BOOLEAN, Request(p, accepted)
      PROVE  \A e \in InHand(p) : e \in InHand(p)' \union taken' \union lost' \/ \E d \in Dirs : stored'[d][e] # Absent
  BY <1>15 DEF Request, Offer, Goto, InHand, Shaped, Hands, Stage
<1>16. ASSUME NEW batch \in SUBSET Files({MyDir(p)}), Collect(p, batch)
      PROVE  \A e \in InHand(p) : e \in InHand(p)' \union taken' \union lost' \/ \E d \in Dirs : stored'[d][e] # Absent
  BY <1>16 DEF Collect, Goto, InHand, Shaped, Hands, Stage
<1>17. ASSUME NEW f \in todo[p], MoveEntry(p, f)
      PROVE  \A e \in InHand(p) : e \in InHand(p)' \union taken' \union lost' \/ \E d \in Dirs : stored'[d][e] # Absent
  BY <1>17 DEF MoveEntry, InHand, Shaped, Hands, Stage
<1>18. ASSUME NEW f \in todo[p], Remove(p, f)
      PROVE  \A e \in InHand(p) : e \in InHand(p)' \union taken' \union lost' \/ \E d \in Dirs : stored'[d][e] # Absent
  BY <1>18 DEF Remove, InHand, Shaped, Hands, Stage
<1>19. ASSUME NEW f \in todo[p], Charge(p, f)
      PROVE  \A e \in InHand(p) : e \in InHand(p)' \union taken' \union lost' \/ \E d \in Dirs : stored'[d][e] # Absent
  BY <1>19 DEF Charge, InHand, Shaped, Hands, Stage
<1>20. ASSUME NEW f \in todo[p], Reread(p, f)
      PROVE  \A e \in InHand(p) : e \in InHand(p)' \union taken' \union lost' \/ \E d \in Dirs : stored'[d][e] # Absent
  BY <1>20 DEF Reread, Goto, InHand, Shaped, Hands, Stage
<1>21. ASSUME NEW e \in held[p], Enqueue(p, e)
      PROVE  \A x \in InHand(p) : x \in InHand(p)' \union taken' \union lost' \/ \E d \in Dirs : stored'[d][x] # Absent
  <2>1. e \in Events /\ MyDir(p) \in Dirs /\ stored'[MyDir(p)][e] # Absent
    BY <1>21, EnqueueIs, PartitionAssumption
  <2>2. \A g \in InHand(p) : g = e \/ g \in InHand(p)'
    BY <1>21 DEF Enqueue, Goto, InHand, Shaped, Hands, Stage
  <2> QED
    BY <2>1, <2>2
<1>22. ASSUME NEW e \in held[p], Repin(p, e)
      PROVE  \A x \in InHand(p) : x \in InHand(p)' \union taken' \union lost' \/ \E d \in Dirs : stored'[d][x] # Absent
  BY <1>22 DEF Repin, Goto, InHand, Shaped, Hands, Stage
<1>23. ASSUME NEW e \in held[p], RenameRepinned(p, e)
      PROVE  \A x \in InHand(p) : x \in InHand(p)' \union taken' \union lost' \/ \E d \in Dirs : stored'[d][x] # Absent
  BY <1>23 DEF RenameRepinned, Goto, InHand, Shaped, Hands, Stage
<1>24. ASSUME NEW e \in held[p], RetargetThrows(p, e)
      PROVE  \A x \in InHand(p) : x \in InHand(p)' \union taken' \union lost' \/ \E d \in Dirs : stored'[d][x] # Absent
  BY <1>24 DEF RetargetThrows, InHand
<1>25. CASE Crash(p)
  BY <1>25 DEF Crash, InHand
<1> QED
  BY <1>1, <1>2, <1>3, <1>4, <1>5, <1>6, <1>7, <1>8, <1>9, <1>10, <1>11, <1>12, <1>13, <1>14, <1>15,
     <1>16, <1>17, <1>18, <1>19, <1>20, <1>21, <1>22, <1>23, <1>24, <1>25
  DEF Act, Continue

(* Steps of the clock and of waiters at the lock leave every process alone. *)
Bystander == BreakOrphan \/ BreakHeld \/ (\E e \in Events : Age(e)) \/ UNCHANGED vars

(* They change neither the disk nor what was sent or agreed.               *)
LEMMA BystanderKeeps ==
    ASSUME Bystander
    PROVE  /\ config' = config /\ stored' = stored /\ author' = author /\ captured' = captured
           /\ offered' = offered /\ taken' = taken /\ lost' = lost /\ sole' = sole /\ moves' = moves
           /\ aged \subseteq aged'
           /\ pc' = pc /\ held' = held /\ todo' = todo /\ me' = me
           /\ \A q \in Procs : Same(q)
BY DEF Bystander, BreakOrphan, BreakHeld, Age, vars, disk, local, history, Same

Keeping == Known /\ Apart /\ \A p \in Procs : Disposable(p)

(* KnownBy outlasts the steps of other processes.                          *)
LEMMA SameKnown ==
    ASSUME NEW q \in Procs, Same(q), captured \subseteq captured', KnownBy(q)
    PROVE  KnownBy(q)'
BY DEF Same, KnownBy

(* So does Disposable.                                                     *)
LEMMA SameDisposable ==
    ASSUME NEW q \in Procs, Same(q), aged \subseteq aged', taken \subseteq taken', Disposable(q)
    PROVE  Disposable(q)'
BY DEF Same, Disposable

(* A process that does nothing has the same in its hands.                  *)
LEMMA SameInHand ==
    ASSUME NEW q \in Procs, Same(q)
    PROVE  InHand(q)' = InHand(q)
BY DEF Same, InHand

(* What is in a hook's hands after a step is nowhere else.                 *)
LEMMA ApartStep ==
    ASSUME NEW p \in Procs, Shaped, Known, Apart, Act(p), NEW q \in Procs, NEW e \in InHand(q)'
    PROVE  Only(q, e)'
<1>1. \A r \in Procs : r # p => Same(r)
  BY OthersSame DEF Shaped
<1>2. InHand(q) \subseteq Events /\ InHand(q)' \subseteq held'[q] /\ e \in Events
  <2>1. [Next]_vars
    BY DEF Act, Next
  <2>2. Hands'
    BY <2>1, HandsNext DEF Shaped
  <2> QED
    BY <2>2 DEF InHand, Shaped, Hands
<1>3. e \in InHand(q) \/ (q = p /\ e \notin captured)
  BY <1>1, InHandStep, SameInHand
<1>4. \A d \in Dirs : stored[d][e] = Absent
  BY <1>2, <1>3 DEF Apart, Only, Known, KnownStored
<1>5. \A r \in Procs : (e \in held[r] => r = q) /\ \A f \in todo[r] : f.event # e
  BY <1>3 DEF Apart, Only, Known, KnownBy
<1>6. e \in held[p] => e \in InHand(p)'
  BY <1>5
<1>7. (\A d \in Dirs : stored'[d][e] = Absent) /\ \A f \in todo'[p] : f.event # e
  BY <1>2, <1>4, <1>5, <1>6, Untouched
<1>8. e \in held'[p] => p = q
  <2>1. CASE e \in captured
    BY <1>4, <1>5, <2>1, HeldStep
  <2>2. CASE e \notin captured
    BY <1>3, <2>2 DEF Apart, Known, KnownBy, InHand
  <2> QED
    BY <2>1, <2>2
<1> QED
  BY <1>1, <1>5, <1>7, <1>8 DEF Only, Same

(* Every step keeps Keeping.                                               *)
LEMMA KeepingNext ==
    ASSUME Typed, Keeping, [Next]_vars
    PROVE  Keeping'
<1>1. Shaped
  BY TypedIs
<1>2. ASSUME NEW p \in Procs, Act(p)
      PROVE  Keeping'
  <2>1. captured \subseteq captured' /\ taken \subseteq taken' /\ aged' = aged
    BY <1>1, <1>2, Grows
  <2>2. \A q \in Procs : q # p => Same(q)
    BY <1>1, <1>2, OthersSame DEF Shaped
  <2>3. KnownStored' /\ \A q \in Procs : KnownBy(q)'
    BY <1>1, <1>2, <2>1, <2>2, KnownStep, SameKnown DEF Keeping, Known
  <2>4. \A q \in Procs : Disposable(q)'
    BY <1>1, <1>2, <2>1, <2>2, DisposableStep, SameDisposable DEF Keeping
  <2>5. Apart'
    BY <1>1, <1>2, ApartStep DEF Keeping, Apart
  <2> QED
    BY <2>3, <2>4, <2>5 DEF Keeping, Known
<1>3. CASE Bystander
  <2>1. Known'
    BY <1>3, BystanderKeeps DEF Keeping, Known, KnownStored, KnownBy
  <2>2. Apart'
    BY <1>3, BystanderKeeps DEF Keeping, Apart, Only, InHand
  <2>3. \A q \in Procs : Disposable(q)'
    BY <1>3, BystanderKeeps DEF Keeping, Disposable
  <2> QED
    BY <2>1, <2>2, <2>3 DEF Keeping
<1> QED
  BY <1>2, <1>3 DEF Next, Act, Bystander

(* A release without partitions left its entries in one directory.         *)
LEMMA KeepingInit ==
    ASSUME Init
    PROVE  Keeping
<1>1. \A d \in Dirs, e \in Events : stored[d][e] # Absent => e \in captured
  BY DEF Init
<1> QED
  BY <1>1 DEF Init, Keeping, Known, KnownStored, KnownBy, Apart, InHand, Disposable

(* Keeping holds in every state.                                           *)
LEMMA KeepingInvariance == Spec => []Keeping
BY KeepingInit, KeepingNext, TypedInvariance, PTL DEF Spec

(* Every step keeps NothingLost: a copy, a hook's hand, or an end.         *)
LEMMA NothingLostNext ==
    ASSUME Typed, Keeping, NothingLost, [Next]_vars
    PROVE  NothingLost'
<1>1. Shaped /\ captured \subseteq Events
  BY TypedIs DEF Past
<1>2. ASSUME NEW p \in Procs, Act(p)
      PROVE  NothingLost'
  <2>1. taken \subseteq taken' /\ lost \subseteq lost' /\ aged' = aged /\ captured' \ captured \subseteq InHand(p)'
    BY <1>1, <1>2, Grows
  <2>2. \A q \in Procs : q # p => InHand(q)' = InHand(q)
    BY <1>1, <1>2, OthersSame, SameInHand DEF Shaped
  <2> SUFFICES ASSUME NEW e \in captured', e \notin taken' \union lost' \union aged'
               PROVE  (\E d \in Dirs : stored'[d][e] # Absent) \/ \E q \in Procs : e \in InHand(q)'
    BY DEF NothingLost, Copies
  <2>3. CASE e \in captured /\ \E d \in Dirs : stored[d][e] # Absent
    BY <1>1, <1>2, <2>1, <2>3, CopyStep DEF Keeping
  <2>4. CASE \E q \in Procs : e \in InHand(q)
    BY <1>1, <1>2, <2>1, <2>2, <2>4, HandLeaves
  <2>5. CASE e \notin captured
    BY <2>1, <2>5
  <2> QED
    BY <2>1, <2>3, <2>4, <2>5 DEF NothingLost, Copies
<1>3. CASE Bystander
  BY <1>3, BystanderKeeps DEF NothingLost, Copies, InHand
<1> QED
  BY <1>2, <1>3 DEF Next, Act, Bystander

(* No move loses a record.                                                 *)
THEOREM KeepsEveryRecord == Spec => []NothingLost
<1>1. Init => NothingLost
  <2> SUFFICES ASSUME Init
               PROVE  NothingLost
    OBVIOUS
  <2>1. \A e \in captured : "loose" \in Dirs /\ stored["loose"][e] # Absent
    BY PartitionAssumption DEF Init, Dirs, Shared
  <2> QED
    BY <2>1 DEF NothingLost, Copies
<1> QED
  BY <1>1, NothingLostNext, TypedInvariance, KeepingInvariance, PTL DEF Spec

-----------------------------------------------------------------------------

(* A move agreed to is added, and none is taken back.                      *)
LEMMA ExtendGrows ==
    ASSUME NEW R, NEW x, NEW y, NEW u, NEW v
    PROVE  /\ R \subseteq Extend(R, x, y)
           /\ <<x, y>> \in Extend(R, x, y)
           /\ <<x, y>> \in Extend(Extend(R, x, y), u, v)
BY DEF Extend

(* Extend adds what leads to x before what y leads to.                     *)
LEMMA ExtendIs ==
    ASSUME NEW R, R \subseteq Parties \X Parties, NEW x \in Parties, NEW y \in Parties
    PROVE  /\ Extend(R, x, y) \subseteq Parties \X Parties
           /\ \A v, w \in Parties : <<v, w>> \in Extend(R, x, y)
                <=> <<v, w>> \in R \/ ((v = x \/ <<v, x>> \in R) /\ (w = y \/ <<y, w>> \in R))
<1> DEFINE from == {x} \union {u[1] : u \in {r \in R : r[2] = x}}
           to == {y} \union {u[2] : u \in {r \in R : r[1] = y}}
<1>1. Extend(R, x, y) = R \union {<<v, w>> : v \in from, w \in to}
  BY DEF Extend
<1>2. \A r \in R : r = <<r[1], r[2]>> /\ r[1] \in Parties /\ r[2] \in Parties
  OBVIOUS
<1>3. \A v \in Parties : v \in from <=> v = x \/ <<v, x>> \in R
  BY <1>2
<1>4. \A w \in Parties : w \in to <=> w = y \/ <<y, w>> \in R
  BY <1>2
<1>5. from \subseteq Parties /\ to \subseteq Parties
  BY <1>2
<1> HIDE DEF from, to
<1>6. {<<v, w>> : v \in from, w \in to} \subseteq Parties \X Parties
  BY <1>5
<1>7. \A v, w : <<v, w>> \in {<<a, b>> : a \in from, b \in to} <=> v \in from /\ w \in to
  OBVIOUS
<1> QED
  BY <1>1, <1>3, <1>4, <1>6, <1>7

(* A transitive relation stays so: a record may go all the way.            *)
LEMMA ExtendTransitive ==
    ASSUME NEW R, Transitive(R), NEW x \in Parties, NEW y \in Parties
    PROVE  Transitive(Extend(R, x, y))
<1> DEFINE S == Extend(R, x, y)
<1>1. S \subseteq Parties \X Parties
  BY ExtendIs DEF Transitive
<1>2. \A v, w \in Parties : <<v, w>> \in S <=> <<v, w>> \in R \/ ((v = x \/ <<v, x>> \in R) /\ (w = y \/ <<y, w>> \in R))
  BY ExtendIs DEF Transitive
<1>3. \A a, b, c \in Parties : <<a, b>> \in R /\ <<b, c>> \in R => <<a, c>> \in R
  BY DEF Transitive
<1> HIDE DEF S
<1>4. ASSUME NEW a \in Parties, NEW b \in Parties, NEW c \in Parties, <<a, b>> \in S, <<b, c>> \in S
      PROVE  <<a, c>> \in S
  BY <1>2, <1>3, <1>4
<1> QED
  BY <1>1, <1>4 DEF Transitive, S

(* Consent, and who captured a record, outlast every step.                 *)
LEMMA ConsentGrows ==
    ASSUME NEW p \in Procs, Shaped, Past, Act(p)
    PROVE  /\ sole \subseteq sole' /\ moves \subseteq moves' /\ overrun' = overrun
           /\ \A e \in captured : author'[e] = author[e]
<1>1. ASSUME NEW at \in Places, NEW new \in SUBSET (Events \ captured), Begin(p, at, new)
      PROVE  /\ sole \subseteq sole' /\ moves \subseteq moves' /\ overrun' = overrun
           /\ \A e \in captured : author'[e] = author[e]
  BY <1>1 DEF Begin, Past, lock
<1>2. ASSUME NEW at \in Places, NEW id \in Identity, Setup(p, at, id)
      PROVE  /\ sole \subseteq sole' /\ moves \subseteq moves' /\ overrun' = overrun
           /\ \A e \in captured : author'[e] = author[e]
  BY <1>2 DEF Setup, lock
<1>3. CASE SettleList(p)
  BY <1>3 DEF SettleList, lock, history
<1>4. CASE Skip(p)
  BY <1>4 DEF Skip, lock, history
<1>5. CASE Sweep(p)
  BY <1>5 DEF Sweep, lock, history
<1>6. CASE Drain(p)
  BY <1>6 DEF Drain, Lock!Acquire, history
<1>7. CASE Finish(p)
  BY <1>7 DEF Finish, Unlock, Lock!Release, lock, history
<1>8. CASE Busy(p)
  BY <1>8 DEF Busy, lock, history
<1>9. CASE SaveConfig(p)
  BY <1>9 DEF SaveConfig, lock
<1>10. CASE Agree(p)
  BY <1>10, ExtendGrows DEF Agree, lock
<1>11. CASE Keep(p)
  BY <1>11 DEF Keep, lock
<1>12. CASE Retarget(p)
  BY <1>12 DEF Retarget, Lock!Acquire, lock, history
<1>13. CASE QueueBusy(p)
  BY <1>13 DEF QueueBusy, lock, history
<1>14. ASSUME NEW accepted \in BOOLEAN, Send(p, accepted)
      PROVE  /\ sole \subseteq sole' /\ moves \subseteq moves' /\ overrun' = overrun
           /\ \A e \in captured : author'[e] = author[e]
  BY <1>14 DEF Send, Offer, lock
<1>15. ASSUME NEW accepted \in BOOLEAN, Request(p, accepted)
      PROVE  /\ sole \subseteq sole' /\ moves \subseteq moves' /\ overrun' = overrun
           /\ \A e \in captured : author'[e] = author[e]
  BY <1>15 DEF Request, Offer, lock
<1>16. ASSUME NEW batch \in SUBSET Files({MyDir(p)}), Collect(p, batch)
      PROVE  /\ sole \subseteq sole' /\ moves \subseteq moves' /\ overrun' = overrun
           /\ \A e \in captured : author'[e] = author[e]
  BY <1>16 DEF Collect, lock, history
<1>17. ASSUME NEW f \in todo[p], MoveEntry(p, f)
      PROVE  /\ sole \subseteq sole' /\ moves \subseteq moves' /\ overrun' = overrun
           /\ \A e \in captured : author'[e] = author[e]
  BY <1>17 DEF MoveEntry, lock, history
<1>18. ASSUME NEW f \in todo[p], Remove(p, f)
      PROVE  /\ sole \subseteq sole' /\ moves \subseteq moves' /\ overrun' = overrun
           /\ \A e \in captured : author'[e] = author[e]
  BY <1>18 DEF Remove, lock, history
<1>19. ASSUME NEW f \in todo[p], Charge(p, f)
      PROVE  /\ sole \subseteq sole' /\ moves \subseteq moves' /\ overrun' = overrun
           /\ \A e \in captured : author'[e] = author[e]
  BY <1>19 DEF Charge, lock, history
<1>20. ASSUME NEW f \in todo[p], Reread(p, f)
      PROVE  /\ sole \subseteq sole' /\ moves \subseteq moves' /\ overrun' = overrun
           /\ \A e \in captured : author'[e] = author[e]
  BY <1>20 DEF Reread, lock, history
<1>21. ASSUME NEW e \in held[p], Enqueue(p, e)
      PROVE  /\ sole \subseteq sole' /\ moves \subseteq moves' /\ overrun' = overrun
           /\ \A x \in captured : author'[x] = author[x]
  BY <1>21 DEF Enqueue, lock, history
<1>22. ASSUME NEW e \in held[p], Repin(p, e)
      PROVE  /\ sole \subseteq sole' /\ moves \subseteq moves' /\ overrun' = overrun
           /\ \A x \in captured : author'[x] = author[x]
  BY <1>22 DEF Repin, lock, history
<1>23. ASSUME NEW e \in held[p], RenameRepinned(p, e)
      PROVE  /\ sole \subseteq sole' /\ moves \subseteq moves' /\ overrun' = overrun
           /\ \A x \in captured : author'[x] = author[x]
  BY <1>23 DEF RenameRepinned, lock, history
<1>24. ASSUME NEW e \in held[p], RetargetThrows(p, e)
      PROVE  /\ sole \subseteq sole' /\ moves \subseteq moves' /\ overrun' = overrun
           /\ \A x \in captured : author'[x] = author[x]
  BY <1>24 DEF RetargetThrows, Unlock, Lock!Release, lock, history
<1>25. CASE Crash(p)
  BY <1>25 DEF Crash, Lock!Die, lock
<1> QED
  BY <1>1, <1>2, <1>3, <1>4, <1>5, <1>6, <1>7, <1>8, <1>9, <1>10, <1>11, <1>12, <1>13, <1>14, <1>15,
     <1>16, <1>17, <1>18, <1>19, <1>20, <1>21, <1>22, <1>23, <1>24, <1>25
  DEF Act, Continue

(* What a process has in memory stays where consent lets it be.            *)
LEMMA ConsentingStep ==
    ASSUME NEW p \in Procs, Shaped, Past, Consenting(p), InPlace, SoleOf(config) \subseteq sole, Act(p)
    PROVE  Consenting(p)'
<1>1. ASSUME NEW at \in Places, NEW new \in SUBSET (Events \ captured), Begin(p, at, new)
      PROVE  Consenting(p)'
  <2>1. pc[p] = "idle" /\ author' = [e \in Events |-> IF e \in new THEN Effective(config, at) ELSE author[e]]
    BY <1>1 DEF Begin
  <2>2. /\ pc'[p] \in {"settle", "moving"} /\ me'[p] = Effective(config, at) /\ held'[p] = new
        /\ multiple'[p] = (Effective(config, at).token # NoToken /\ ServesMultiple(config))
    BY <1>1 DEF Begin, Goto, Shaped, Stage, Names, Hands, Flags
  <2>3. Effective(config, at).token # NoToken => Effective(config, at).token \in TokensOf(config)
    BY DEF Effective, TokensOf, Places
  <2>4. ~ServesMultiple(config) => TokensOf(config) \subseteq sole'
    BY <1>1 DEF Begin, SoleOf
  <2>5. \A e \in new : author'[e] = Effective(config, at)
    BY <2>1
  <2> QED
    BY <2>2, <2>3, <2>4, <2>5 DEF Consenting, Retargeting, InHand
<1>2. ASSUME NEW at \in Places, NEW id \in Identity, Setup(p, at, id)
      PROVE  Consenting(p)'
  BY <1>2 DEF Setup, Goto, Consenting, InHand, Retargeting, Before, Shaped, Stage, Hands, Names,
     Flags, Matches, MayBeIn, MayGoTo, Became, disk, lock
<1>3. CASE SettleList(p)
  BY <1>3 DEF SettleList, Goto, Consenting, InHand, Retargeting, Before, Shaped, Stage, Hands,
     Names, Flags, Matches, MayBeIn, MayGoTo, Became, disk, lock, history
<1>4. CASE Skip(p)
  BY <1>4 DEF Skip, Goto, Settled, Consenting, InHand, Retargeting, Before, Shaped, Stage, Hands,
     Names, Flags, Matches, MayBeIn, MayGoTo, Became, disk, lock, history
<1>5. CASE Sweep(p)
  BY <1>5 DEF Sweep, Goto, Settled, Maintaining, Consenting, InHand, Retargeting, Before, Shaped,
     Stage, Hands, Names, Flags, Matches, MayBeIn, MayGoTo, Became, disk, lock, history
<1>6. CASE Drain(p)
  BY <1>6 DEF Drain, Goto, Settled, Maintaining, Lock!Acquire, Consenting, InHand, Retargeting,
     Before, Shaped, Stage, Hands, Names, Flags, Matches, MayBeIn, MayGoTo, Became, disk, lock,
     history
<1>7. CASE Finish(p)
  BY <1>7, EndIs DEF Finish, Consenting, Retargeting, InHand, Shaped
<1>8. CASE Busy(p)
  BY <1>8, EndIs DEF Busy, Consenting, Retargeting, InHand, Shaped
<1>9. CASE SaveConfig(p)
  BY <1>9 DEF SaveConfig, Goto, Consenting, InHand, Retargeting, Before, Shaped, Stage, Hands,
     Names, Flags, Matches, MayBeIn, MayGoTo, Became, lock
<1>10. CASE Agree(p)
  <2>1. pc'[p] = "lock" /\ UNCHANGED <<me, conf, place>>
    BY <1>10 DEF Agree, Goto, Shaped, Stage
  <2>2. <<Before(p).token, me[p].token>> \in moves' /\ <<Before(p).url, me[p].url>> \in moves'
    BY <1>10, ExtendGrows DEF Agree
  <2> QED
    BY <2>1, <2>2 DEF Consenting, InHand, Retargeting, Before, MayBeIn, MayGoTo, Became
<1>11. CASE Keep(p)
  BY <1>11, EndIs DEF Keep, Consenting, Retargeting, InHand, Shaped
<1>12. CASE Retarget(p)
  BY <1>12 DEF Retarget, Goto, Lock!Acquire, Consenting, InHand, Retargeting, Before, Shaped, Stage,
     Hands, Names, Flags, Matches, MayBeIn, MayGoTo, Became, disk, lock, history
<1>13. CASE QueueBusy(p)
  BY <1>13, EndIs DEF QueueBusy, Consenting, Retargeting, InHand, Shaped
<1>14. ASSUME NEW accepted \in BOOLEAN, Send(p, accepted)
      PROVE  Consenting(p)'
  BY <1>14 DEF Send, Goto, Settled, Offer, Consenting, InHand, Retargeting, Before, Shaped, Stage,
     Hands, Names, Flags, Matches, MayBeIn, MayGoTo, Became, disk, lock
<1>15. ASSUME NEW accepted \in BOOLEAN, Request(p, accepted)
      PROVE  Consenting(p)'
  <2>1. todo'[p] \subseteq todo[p] /\ UNCHANGED <<me, held, conf, place, author, sole, moves, multiple>>
    BY <1>15 DEF Request, Offer, Shaped, Hands
  <2>2. pc[p] = "request" /\ pc'[p] \in {"clear", "charge"}
    BY <1>15 DEF Request, Goto, Shaped, Stage
  <2> QED
    BY <2>1, <2>2 DEF Consenting, InHand, Retargeting, Before, Matches, MayBeIn, MayGoTo, Became
<1>16. ASSUME NEW batch \in SUBSET Files({MyDir(p)}), Collect(p, batch)
      PROVE  Consenting(p)'
  <2>1. \A f \in batch : f.dir = MyDir(p) /\ f.event \in Events /\ MyDir(p) \in Dirs /\ f.dest = stored[f.dir][f.event] /\ f.dest # Absent
    BY FilesAre, MyDirIs DEF Shaped
  <2>2. \A f \in batch : MayBeIn(f.event, f.dir) /\ MayGoTo(f.event, f.dest) /\ Matches(f.dest, me[p].url)
    BY <1>16, <2>1 DEF Collect, InPlace
  <2>3. pc'[p] = "request" /\ todo'[p] = batch /\ UNCHANGED <<me, held, author, sole, moves>>
    BY <1>16 DEF Collect, Goto, Shaped, Stage, Hands, history
  <2> QED
    BY <2>2, <2>3 DEF Consenting, InHand, Retargeting, MayBeIn, MayGoTo, Became, Matches
<1>17. ASSUME NEW f \in todo[p], MoveEntry(p, f)
      PROVE  Consenting(p)'
  <2>1. todo'[p] \subseteq todo[p] /\ UNCHANGED <<me, held, conf, place, author, sole, moves, multiple>>
    BY <1>17 DEF MoveEntry, Handled, Shaped, Hands, history
  <2>2. pc' = pc
    BY <1>17 DEF MoveEntry, Shaped, Stage
  <2> QED
    BY <2>1, <2>2 DEF Consenting, InHand, Retargeting, Before, Matches, MayBeIn, MayGoTo, Became
<1>18. ASSUME NEW f \in todo[p], Remove(p, f)
      PROVE  Consenting(p)'
  <2>1. todo'[p] \subseteq todo[p] /\ UNCHANGED <<me, held, conf, place, author, sole, moves, multiple>>
    BY <1>18 DEF Remove, Handled, Shaped, Hands, history
  <2>2. pc' = pc
    BY <1>18 DEF Remove, Shaped, Stage
  <2> QED
    BY <2>1, <2>2 DEF Consenting, InHand, Retargeting, Before, Matches, MayBeIn, MayGoTo, Became
<1>19. ASSUME NEW f \in todo[p], Charge(p, f)
      PROVE  Consenting(p)'
  <2>1. todo'[p] \subseteq todo[p] /\ UNCHANGED <<me, held, conf, place, author, sole, moves, multiple>>
    BY <1>19 DEF Charge, Handled, Shaped, Hands, history
  <2>2. pc' = pc
    BY <1>19 DEF Charge, Shaped, Stage
  <2> QED
    BY <2>1, <2>2 DEF Consenting, InHand, Retargeting, Before, Matches, MayBeIn, MayGoTo, Became
<1>20. ASSUME NEW f \in todo[p], Reread(p, f)
      PROVE  Consenting(p)'
  <2>1. f \in Listed /\ f.dir = Before(p).token /\ f.dir \in Tokens /\ Before(p).url \in Urls /\ Absent \notin Urls
    BY <1>20, PartitionAssumption DEF Shaped, Hands, Reread, Local, Retargeting
  <2>2. stored[f.dir][f.event] = Before(p).url => MayBeIn(f.event, Before(p).token) /\ MayGoTo(f.event, Before(p).url)
    BY <2>1 DEF InPlace, Listed
  <2>3. UNCHANGED <<me, conf, place, author, sole, moves>>
    BY <1>20 DEF Reread, history
  <2>4. pc'[p] \in {"retarget", "repin"} /\ (pc'[p] = "repin" => stored[f.dir][f.event] = Before(p).url /\ held'[p] = {f.event})
    BY <1>20 DEF Reread, Goto, Shaped, Stage, Hands
  <2>5. Became(Before(p).token, me[p].token) /\ Became(Before(p).url, me[p].url)
    BY <1>20 DEF Reread, Consenting, Retargeting
  <2> QED
    BY <2>2, <2>3, <2>4, <2>5 DEF Consenting, InHand, Retargeting, Before, MayBeIn, MayGoTo, Became
<1>21. ASSUME NEW e \in held[p], Enqueue(p, e)
      PROVE  Consenting(p)'
  BY <1>21 DEF Enqueue, Goto, Consenting, InHand, Retargeting, Before, Shaped, Stage, Hands, Names,
     Flags, Matches, MayBeIn, MayGoTo, Became, lock, history
<1>22. ASSUME NEW e \in held[p], Repin(p, e)
      PROVE  Consenting(p)'
  BY <1>22 DEF Repin, Goto, Consenting, InHand, Retargeting, Before, Shaped, Stage, Hands, Names,
     Flags, Matches, MayBeIn, MayGoTo, Became, lock, history
<1>23. ASSUME NEW e \in held[p], RenameRepinned(p, e)
      PROVE  Consenting(p)'
  BY <1>23 DEF RenameRepinned, Goto, Consenting, InHand, Retargeting, Before, Shaped, Stage, Hands,
     Names, Flags, Matches, MayBeIn, MayGoTo, Became, lock, history
<1>24. ASSUME NEW e \in held[p], RetargetThrows(p, e)
      PROVE  Consenting(p)'
  BY <1>24, EndIs DEF RetargetThrows, Consenting, Retargeting, InHand, Shaped
<1>25. CASE Crash(p)
  BY <1>25, EndIs DEF Crash, Consenting, Retargeting, InHand, Shaped
<1> QED
  BY <1>1, <1>2, <1>3, <1>4, <1>5, <1>6, <1>7, <1>8, <1>9, <1>10, <1>11, <1>12, <1>13, <1>14, <1>15,
     <1>16, <1>17, <1>18, <1>19, <1>20, <1>21, <1>22, <1>23, <1>24, <1>25
  DEF Act, Continue

(* Only captured records are offered.                                      *)
LEMMA AskedStep ==
    ASSUME NEW p \in Procs, Shaped, KnownBy(p), Asked, captured \subseteq captured', Act(p)
    PROVE  Asked'
<1>1. ASSUME NEW at \in Places, NEW new \in SUBSET (Events \ captured), Begin(p, at, new)
      PROVE  Asked'
  BY <1>1 DEF Begin, Asked
<1>2. ASSUME NEW at \in Places, NEW id \in Identity, Setup(p, at, id)
      PROVE  Asked'
  BY <1>2 DEF Setup, Asked
<1>3. CASE SettleList(p)
  BY <1>3 DEF SettleList, Asked, history
<1>4. CASE Skip(p)
  BY <1>4 DEF Skip, Asked, history
<1>5. CASE Sweep(p)
  BY <1>5 DEF Sweep, Asked, history
<1>6. CASE Drain(p)
  BY <1>6 DEF Drain, Asked, history
<1>7. CASE Finish(p)
  BY <1>7 DEF Finish, Asked, history
<1>8. CASE Busy(p)
  BY <1>8 DEF Busy, Asked, history
<1>9. CASE SaveConfig(p)
  BY <1>9 DEF SaveConfig, Asked
<1>10. CASE Agree(p)
  BY <1>10 DEF Agree, Asked
<1>11. CASE Keep(p)
  BY <1>11 DEF Keep, Asked
<1>12. CASE Retarget(p)
  BY <1>12 DEF Retarget, Asked, history
<1>13. CASE QueueBusy(p)
  BY <1>13 DEF QueueBusy, Asked, history
<1>14. ASSUME NEW accepted \in BOOLEAN, Send(p, accepted)
      PROVE  Asked'
  <2>1. \A x \in offered' : x \in offered \/ x.event \in captured
    BY <1>14 DEF Send, Offer, KnownBy
  <2> QED
    BY <2>1 DEF Asked
<1>15. ASSUME NEW accepted \in BOOLEAN, Request(p, accepted)
      PROVE  Asked'
  <2>1. \A x \in offered' : x \in offered \/ x.event \in captured
    BY <1>15 DEF Request, Offer, KnownBy
  <2> QED
    BY <2>1 DEF Asked
<1>16. ASSUME NEW batch \in SUBSET Files({MyDir(p)}), Collect(p, batch)
      PROVE  Asked'
  BY <1>16 DEF Collect, Asked, history
<1>17. ASSUME NEW f \in todo[p], MoveEntry(p, f)
      PROVE  Asked'
  BY <1>17 DEF MoveEntry, Asked, history
<1>18. ASSUME NEW f \in todo[p], Remove(p, f)
      PROVE  Asked'
  BY <1>18 DEF Remove, Asked, history
<1>19. ASSUME NEW f \in todo[p], Charge(p, f)
      PROVE  Asked'
  BY <1>19 DEF Charge, Asked, history
<1>20. ASSUME NEW f \in todo[p], Reread(p, f)
      PROVE  Asked'
  BY <1>20 DEF Reread, Asked, history
<1>21. ASSUME NEW e \in held[p], Enqueue(p, e)
      PROVE  Asked'
  BY <1>21 DEF Enqueue, Asked, history
<1>22. ASSUME NEW e \in held[p], Repin(p, e)
      PROVE  Asked'
  BY <1>22 DEF Repin, Asked, history
<1>23. ASSUME NEW e \in held[p], RenameRepinned(p, e)
      PROVE  Asked'
  BY <1>23 DEF RenameRepinned, Asked, history
<1>24. ASSUME NEW e \in held[p], RetargetThrows(p, e)
      PROVE  Asked'
  BY <1>24 DEF RetargetThrows, Asked, history
<1>25. CASE Crash(p)
  BY <1>25 DEF Crash, Asked
<1> QED
  BY <1>1, <1>2, <1>3, <1>4, <1>5, <1>6, <1>7, <1>8, <1>9, <1>10, <1>11, <1>12, <1>13, <1>14, <1>15,
     <1>16, <1>17, <1>18, <1>19, <1>20, <1>21, <1>22, <1>23, <1>24, <1>25
  DEF Act, Continue

(* Agreeing keeps the moves transitive; saving adds a token to sole.       *)
LEMMA MovesStep ==
    ASSUME NEW p \in Procs, Shaped, Transitive(moves), SoleOf(config) \subseteq sole, Act(p)
    PROVE  Transitive(moves)' /\ SoleOf(config)' \subseteq sole'
<1>1. ASSUME NEW at \in Places, NEW new \in SUBSET (Events \ captured), Begin(p, at, new)
      PROVE  Transitive(moves)' /\ SoleOf(config)' \subseteq sole'
  BY <1>1 DEF Begin, Transitive, SoleOf, TokensOf, ServesMultiple, disk
<1>2. ASSUME NEW at \in Places, NEW id \in Identity, Setup(p, at, id)
      PROVE  Transitive(moves)' /\ SoleOf(config)' \subseteq sole'
  BY <1>2 DEF Setup, Transitive, SoleOf, TokensOf, ServesMultiple, disk
<1>3. CASE SettleList(p)
  BY <1>3 DEF SettleList, Transitive, SoleOf, TokensOf, ServesMultiple, disk, history
<1>4. CASE Skip(p)
  BY <1>4 DEF Skip, Transitive, SoleOf, TokensOf, ServesMultiple, disk, history
<1>5. CASE Sweep(p)
  BY <1>5 DEF Sweep, Transitive, SoleOf, TokensOf, ServesMultiple, disk, history
<1>6. CASE Drain(p)
  BY <1>6 DEF Drain, Transitive, SoleOf, TokensOf, ServesMultiple, disk, history
<1>7. CASE Finish(p)
  BY <1>7 DEF Finish, Transitive, SoleOf, TokensOf, ServesMultiple, disk, history
<1>8. CASE Busy(p)
  BY <1>8 DEF Busy, Transitive, SoleOf, TokensOf, ServesMultiple, disk, history
<1>9. CASE SaveConfig(p)
  BY <1>9 DEF SaveConfig
<1>10. CASE Agree(p)
  <2>1. Before(p).token \in Parties /\ Before(p).url \in Parties
    BY <1>10, ConfigUrls DEF Agree, Stranded, Before, Names, Shaped, Parties
  <2>2. me[p].token \in Parties /\ me[p].url \in Parties
    <3>1. me[p].token \in Tokens
      BY <1>10 DEF Agree, CanMigrate, Exclusive, Updated, Names, Configs, Identity, Places, Shaped
    <3>2. me[p].url \in Urls
      BY <1>10 DEF Agree, Shaped, Local, Setting, Enrollable
    <3> QED
      BY <3>1, <3>2 DEF Parties
  <2>3. Transitive(moves')
    BY <1>10, <2>1, <2>2, ExtendTransitive DEF Agree
  <2> QED
    BY <1>10, <2>3 DEF Agree, disk, Transitive
<1>11. CASE Keep(p)
  BY <1>11 DEF Keep, Transitive, SoleOf, TokensOf, ServesMultiple, disk
<1>12. CASE Retarget(p)
  BY <1>12 DEF Retarget, Transitive, SoleOf, TokensOf, ServesMultiple, disk, history
<1>13. CASE QueueBusy(p)
  BY <1>13 DEF QueueBusy, Transitive, SoleOf, TokensOf, ServesMultiple, disk, history
<1>14. ASSUME NEW accepted \in BOOLEAN, Send(p, accepted)
      PROVE  Transitive(moves)' /\ SoleOf(config)' \subseteq sole'
  BY <1>14 DEF Send, Transitive, SoleOf, TokensOf, ServesMultiple, Offer, disk
<1>15. ASSUME NEW accepted \in BOOLEAN, Request(p, accepted)
      PROVE  Transitive(moves)' /\ SoleOf(config)' \subseteq sole'
  BY <1>15 DEF Request, Transitive, SoleOf, TokensOf, ServesMultiple, Offer, disk
<1>16. ASSUME NEW batch \in SUBSET Files({MyDir(p)}), Collect(p, batch)
      PROVE  Transitive(moves)' /\ SoleOf(config)' \subseteq sole'
  BY <1>16 DEF Collect, Transitive, SoleOf, TokensOf, ServesMultiple, disk, history
<1>17. ASSUME NEW f \in todo[p], MoveEntry(p, f)
      PROVE  Transitive(moves)' /\ SoleOf(config)' \subseteq sole'
  BY <1>17 DEF MoveEntry, Transitive, SoleOf, TokensOf, ServesMultiple, history
<1>18. ASSUME NEW f \in todo[p], Remove(p, f)
      PROVE  Transitive(moves)' /\ SoleOf(config)' \subseteq sole'
  BY <1>18 DEF Remove, Transitive, SoleOf, TokensOf, ServesMultiple, history
<1>19. ASSUME NEW f \in todo[p], Charge(p, f)
      PROVE  Transitive(moves)' /\ SoleOf(config)' \subseteq sole'
  BY <1>19 DEF Charge, Transitive, SoleOf, TokensOf, ServesMultiple, history
<1>20. ASSUME NEW f \in todo[p], Reread(p, f)
      PROVE  Transitive(moves)' /\ SoleOf(config)' \subseteq sole'
  BY <1>20 DEF Reread, Transitive, SoleOf, TokensOf, ServesMultiple, disk, history
<1>21. ASSUME NEW e \in held[p], Enqueue(p, e)
      PROVE  Transitive(moves)' /\ SoleOf(config)' \subseteq sole'
  BY <1>21 DEF Enqueue, Transitive, SoleOf, TokensOf, ServesMultiple, history
<1>22. ASSUME NEW e \in held[p], Repin(p, e)
      PROVE  Transitive(moves)' /\ SoleOf(config)' \subseteq sole'
  BY <1>22 DEF Repin, Transitive, SoleOf, TokensOf, ServesMultiple, history
<1>23. ASSUME NEW e \in held[p], RenameRepinned(p, e)
      PROVE  Transitive(moves)' /\ SoleOf(config)' \subseteq sole'
  BY <1>23 DEF RenameRepinned, Transitive, SoleOf, TokensOf, ServesMultiple, history
<1>24. ASSUME NEW e \in held[p], RetargetThrows(p, e)
      PROVE  Transitive(moves)' /\ SoleOf(config)' \subseteq sole'
  BY <1>24 DEF RetargetThrows, Transitive, SoleOf, TokensOf, ServesMultiple, disk, history
<1>25. CASE Crash(p)
  BY <1>25 DEF Crash, Transitive, SoleOf, TokensOf, ServesMultiple, disk
<1> QED
  BY <1>1, <1>2, <1>3, <1>4, <1>5, <1>6, <1>7, <1>8, <1>9, <1>10, <1>11, <1>12, <1>13, <1>14, <1>15,
     <1>16, <1>17, <1>18, <1>19, <1>20, <1>21, <1>22, <1>23, <1>24, <1>25
  DEF Act, Continue

(* A process leaves each entry where consent lets it be.                   *)
LEMMA PlaceStep ==
    ASSUME NEW p \in Procs, Shaped, Past, InPlace, Consenting(p), Transitive(moves), NEW d \in Dirs, NEW g \in Events, stored'[d][g] # Absent, Act(p)
    PROVE  MayBeIn(g, d) /\ MayGoTo(g, stored'[d][g])
<1>1. ASSUME NEW at \in Places, NEW new \in SUBSET (Events \ captured), Begin(p, at, new)
      PROVE  MayBeIn(g, d) /\ MayGoTo(g, stored'[d][g])
  BY <1>1 DEF Begin, InPlace, disk
<1>2. ASSUME NEW at \in Places, NEW id \in Identity, Setup(p, at, id)
      PROVE  MayBeIn(g, d) /\ MayGoTo(g, stored'[d][g])
  BY <1>2 DEF Setup, InPlace, disk
<1>3. CASE SettleList(p)
  BY <1>3 DEF SettleList, InPlace, disk
<1>4. CASE Skip(p)
  BY <1>4 DEF Skip, InPlace, disk
<1>5. CASE Sweep(p)
  BY <1>5 DEF Sweep, InPlace, disk
<1>6. CASE Drain(p)
  BY <1>6 DEF Drain, InPlace, disk
<1>7. CASE Finish(p)
  BY <1>7 DEF Finish, InPlace, disk
<1>8. CASE Busy(p)
  BY <1>8 DEF Busy, InPlace, disk
<1>9. CASE SaveConfig(p)
  BY <1>9 DEF SaveConfig, InPlace
<1>10. CASE Agree(p)
  BY <1>10 DEF Agree, InPlace, disk
<1>11. CASE Keep(p)
  BY <1>11 DEF Keep, InPlace, disk
<1>12. CASE Retarget(p)
  BY <1>12 DEF Retarget, InPlace, disk
<1>13. CASE QueueBusy(p)
  BY <1>13 DEF QueueBusy, InPlace, disk
<1>14. ASSUME NEW accepted \in BOOLEAN, Send(p, accepted)
      PROVE  MayBeIn(g, d) /\ MayGoTo(g, stored'[d][g])
  BY <1>14 DEF Send, InPlace, disk
<1>15. ASSUME NEW accepted \in BOOLEAN, Request(p, accepted)
      PROVE  MayBeIn(g, d) /\ MayGoTo(g, stored'[d][g])
  BY <1>15 DEF Request, InPlace, disk
<1>16. ASSUME NEW batch \in SUBSET Files({MyDir(p)}), Collect(p, batch)
      PROVE  MayBeIn(g, d) /\ MayGoTo(g, stored'[d][g])
  BY <1>16 DEF Collect, InPlace, disk
<1>17. ASSUME NEW f \in todo[p], MoveEntry(p, f)
      PROVE  MayBeIn(g, d) /\ MayGoTo(g, stored'[d][g])
  <2>1. ASSUME g = f.event, There(f), d = Target(p)
        PROVE  MayBeIn(g, d)
    <3>1. f \in Listed /\ f.dir \in Shared /\ f.dir \in Dirs /\ me[p].token # NoToken /\ MyDir(p) = me[p].token
      BY <1>17, MyDirIs DEF MoveEntry, Shaped, Hands, Local, Listed, Dirs, Shared
    <3>2. author[g].token = NoToken
      BY <2>1, <3>1 DEF InPlace, There, MayBeIn
    <3>3. ~multiple[p] => me[p].token \in sole
      BY <1>17, <3>1 DEF MoveEntry, Consenting
    <3> QED
      BY <2>1, <3>1, <3>2, <3>3, PartitionAssumption DEF Target, MayBeIn, Became, Shared
  <2>2. g = f.event /\ There(f) => MayGoTo(g, stored[f.dir][f.event])
    BY <1>17 DEF InPlace, There, Shaped, Hands, Listed
  <2> QED
    BY <1>17, <2>1, <2>2, MoveEntryIs DEF InPlace
<1>18. ASSUME NEW f \in todo[p], Remove(p, f)
      PROVE  MayBeIn(g, d) /\ MayGoTo(g, stored'[d][g])
  BY <1>18, RemoveIs DEF InPlace
<1>19. ASSUME NEW f \in todo[p], Charge(p, f)
      PROVE  MayBeIn(g, d) /\ MayGoTo(g, stored'[d][g])
  BY <1>19, ChargeIs DEF Charge, InPlace, Consenting
<1>20. ASSUME NEW f \in todo[p], Reread(p, f)
      PROVE  MayBeIn(g, d) /\ MayGoTo(g, stored'[d][g])
  BY <1>20 DEF Reread, InPlace, disk
<1>21. ASSUME NEW e \in held[p], Enqueue(p, e)
      PROVE  MayBeIn(g, d) /\ MayGoTo(g, stored'[d][g])
  <2>1. author[e] = me[p]
    BY <1>21 DEF Enqueue, Consenting, InHand
  <2>2. MayBeIn(e, MyDir(p)) /\ MayGoTo(e, Destination(p))
    <3>1. "unconfigured" \notin Tokens /\ Tokens \intersect Shared = {} /\ AnyUrl \notin Urls
      BY PartitionAssumption DEF Shared
    <3>2. MayBeIn(e, MyDir(p))
      BY <2>1, <3>1, MyDirIs DEF MayBeIn, Became, Shaped
    <3>3. MayGoTo(e, Destination(p))
      <4>1. CASE me[p].url = NoUrl
        BY <2>1, <3>1, <4>1 DEF MayGoTo, Destination
      <4>2. CASE me[p].url # NoUrl
        <5>1. Destination(p) = me[p].url /\ me[p].url \in Urls
          BY <4>2, MyDirIs DEF Destination, Shaped, Identity
        <5> QED
          BY <2>1, <3>1, <5>1 DEF MayGoTo, Became
      <4> QED
        BY <4>1, <4>2
    <3> QED
      BY <3>2, <3>3
  <2> QED
    BY <1>21, <2>2, EnqueueIs DEF InPlace
<1>22. ASSUME NEW e \in held[p], Repin(p, e)
      PROVE  MayBeIn(g, d) /\ MayGoTo(g, stored'[d][g])
  <2>1. MayBeIn(e, Before(p).token) /\ MayGoTo(e, Before(p).url) /\ Became(Before(p).url, me[p].url)
    BY <1>22 DEF Repin, Consenting, Retargeting
  <2>2. Before(p).url \in Urls /\ me[p].url \in Urls /\ e \in Events /\ author[e].url \in Urls \union {NoUrl}
    BY <1>22, RepinIs DEF Repin, Shaped, Local, Retargeting, Past, Identity
  <2>3. MayGoTo(e, me[p].url)
    BY <2>1, <2>2, PartitionAssumption DEF MayGoTo, Became, Transitive, Parties
  <2> QED
    BY <1>22, <2>1, <2>3, RepinIs DEF InPlace
<1>23. ASSUME NEW e \in held[p], RenameRepinned(p, e)
      PROVE  MayBeIn(g, d) /\ MayGoTo(g, stored'[d][g])
  <2>1. MayBeIn(e, Before(p).token) /\ Became(Before(p).token, me[p].token)
    BY <1>23 DEF RenameRepinned, Consenting, Retargeting
  <2>2. Before(p).token \in Tokens /\ me[p].token \in Tokens /\ e \in Events /\ author[e].token \in Tokens \union {NoToken}
    BY <1>23, RenameRepinnedIs DEF RenameRepinned, Shaped, Local, Retargeting, Past, Identity
  <2>3. MayBeIn(e, me[p].token)
    <3>1. me[p].token \notin Shared
      BY <2>2, PartitionAssumption
    <3>2. \A t \in sole : Became(t, Before(p).token) => Became(t, me[p].token)
      BY <2>1, <2>2 DEF Became, Transitive, Parties, Past
    <3>3. author[e].token \in Tokens /\ Became(author[e].token, Before(p).token) => Became(author[e].token, me[p].token)
      BY <2>1, <2>2 DEF Became, Transitive, Parties
    <3> QED
      BY <2>1, <2>2, <3>1, <3>2, <3>3 DEF MayBeIn
  <2>4. MayGoTo(e, stored[Before(p).token][e])
    BY <1>23, <2>2, RenameRepinnedIs DEF InPlace
  <2> QED
    BY <1>23, <2>3, <2>4, RenameRepinnedIs DEF InPlace
<1>24. ASSUME NEW e \in held[p], RetargetThrows(p, e)
      PROVE  MayBeIn(g, d) /\ MayGoTo(g, stored'[d][g])
  BY <1>24 DEF RetargetThrows, InPlace, disk
<1>25. CASE Crash(p)
  BY <1>25 DEF Crash, InPlace, disk
<1> QED
  BY <1>1, <1>2, <1>3, <1>4, <1>5, <1>6, <1>7, <1>8, <1>9, <1>10, <1>11, <1>12, <1>13, <1>14, <1>15,
     <1>16, <1>17, <1>18, <1>19, <1>20, <1>21, <1>22, <1>23, <1>24, <1>25
  DEF Act, Continue

(* A record nobody captured is not stored by a step.                       *)
LEMMA NewIsNotStored ==
    ASSUME NEW p \in Procs, Shaped, KnownStored, KnownBy(p), NEW d \in Dirs, NEW g \in Events, g \notin captured, Act(p)
    PROVE  stored'[d][g] = Absent
<1>1. ASSUME NEW at \in Places, NEW new \in SUBSET (Events \ captured), Begin(p, at, new)
      PROVE  stored'[d][g] = Absent
  BY <1>1 DEF Begin, KnownStored, disk
<1>2. ASSUME NEW at \in Places, NEW id \in Identity, Setup(p, at, id)
      PROVE  stored'[d][g] = Absent
  BY <1>2 DEF Setup, KnownStored, disk
<1>3. CASE SettleList(p)
  BY <1>3 DEF SettleList, KnownStored, disk
<1>4. CASE Skip(p)
  BY <1>4 DEF Skip, KnownStored, disk
<1>5. CASE Sweep(p)
  BY <1>5 DEF Sweep, KnownStored, disk
<1>6. CASE Drain(p)
  BY <1>6 DEF Drain, KnownStored, disk
<1>7. CASE Finish(p)
  BY <1>7 DEF Finish, KnownStored, disk
<1>8. CASE Busy(p)
  BY <1>8 DEF Busy, KnownStored, disk
<1>9. CASE SaveConfig(p)
  BY <1>9 DEF SaveConfig, KnownStored
<1>10. CASE Agree(p)
  BY <1>10 DEF Agree, KnownStored, disk
<1>11. CASE Keep(p)
  BY <1>11 DEF Keep, KnownStored, disk
<1>12. CASE Retarget(p)
  BY <1>12 DEF Retarget, KnownStored, disk
<1>13. CASE QueueBusy(p)
  BY <1>13 DEF QueueBusy, KnownStored, disk
<1>14. ASSUME NEW accepted \in BOOLEAN, Send(p, accepted)
      PROVE  stored'[d][g] = Absent
  BY <1>14 DEF Send, KnownStored, disk
<1>15. ASSUME NEW accepted \in BOOLEAN, Request(p, accepted)
      PROVE  stored'[d][g] = Absent
  BY <1>15 DEF Request, KnownStored, disk
<1>16. ASSUME NEW batch \in SUBSET Files({MyDir(p)}), Collect(p, batch)
      PROVE  stored'[d][g] = Absent
  BY <1>16 DEF Collect, KnownStored, disk
<1>17. ASSUME NEW f \in todo[p], MoveEntry(p, f)
      PROVE  stored'[d][g] = Absent
  <2>1. f.event # g
    BY <1>17 DEF KnownBy
  <2> QED
    BY <1>17, <2>1, MoveEntryIs DEF KnownStored
<1>18. ASSUME NEW f \in todo[p], Remove(p, f)
      PROVE  stored'[d][g] = Absent
  <2>1. f.event # g
    BY <1>18 DEF KnownBy
  <2> QED
    BY <1>18, <2>1, RemoveIs DEF KnownStored
<1>19. ASSUME NEW f \in todo[p], Charge(p, f)
      PROVE  stored'[d][g] = Absent
  <2>1. f.event # g
    BY <1>19 DEF KnownBy
  <2> QED
    BY <1>19, <2>1, ChargeIs DEF KnownStored
<1>20. ASSUME NEW f \in todo[p], Reread(p, f)
      PROVE  stored'[d][g] = Absent
  BY <1>20 DEF Reread, KnownStored, disk
<1>21. ASSUME NEW e \in held[p], Enqueue(p, e)
      PROVE  stored'[d][g] = Absent
  <2>1. e # g
    BY <1>21 DEF KnownBy
  <2> QED
    BY <1>21, <2>1, EnqueueIs DEF KnownStored
<1>22. ASSUME NEW e \in held[p], Repin(p, e)
      PROVE  stored'[d][g] = Absent
  <2>1. e # g
    BY <1>22 DEF KnownBy
  <2> QED
    BY <1>22, <2>1, RepinIs DEF KnownStored
<1>23. ASSUME NEW e \in held[p], RenameRepinned(p, e)
      PROVE  stored'[d][g] = Absent
  <2>1. e # g
    BY <1>23 DEF KnownBy
  <2> QED
    BY <1>23, <2>1, RenameRepinnedIs DEF KnownStored
<1>24. ASSUME NEW e \in held[p], RetargetThrows(p, e)
      PROVE  stored'[d][g] = Absent
  BY <1>24 DEF RetargetThrows, KnownStored, disk
<1>25. CASE Crash(p)
  BY <1>25 DEF Crash, KnownStored, disk
<1> QED
  BY <1>1, <1>2, <1>3, <1>4, <1>5, <1>6, <1>7, <1>8, <1>9, <1>10, <1>11, <1>12, <1>13, <1>14, <1>15,
     <1>16, <1>17, <1>18, <1>19, <1>20, <1>21, <1>22, <1>23, <1>24, <1>25
  DEF Act, Continue

(* Consenting outlasts the steps of other processes.                       *)
LEMMA SameConsenting ==
    ASSUME NEW p \in Procs, NEW q \in Procs, Same(q), Consenting(q), KnownBy(q),
           sole \subseteq sole', moves \subseteq moves', \A e \in captured : author'[e] = author[e]
    PROVE  Consenting(q)'
<1>1. /\ pc[q] \in {"settle", "moving"} /\ me[q].token # NoToken /\ ~multiple[q] => me[q].token \in sole'
      /\ \A e \in InHand(q) : author'[e] = me[q]
      /\ pc[q] \in Retargeting => Became(Before(q).token, me[q].token)' /\ Became(Before(q).url, me[q].url)'
  BY DEF Consenting, Same, KnownBy, InHand, Before, Became
<1>2. ASSUME pc[q] \in {"request", "charge"}, NEW f \in todo[q]
      PROVE  MayBeIn(f.event, f.dir)' /\ MayGoTo(f.event, f.dest)' /\ Matches(f.dest, me[q].url)
  <2>1. f.event \in captured /\ author'[f.event] = author[f.event]
    BY DEF KnownBy
  <2>2. MayBeIn(f.event, f.dir) /\ MayGoTo(f.event, f.dest) /\ Matches(f.dest, me[q].url)
    BY <1>2 DEF Consenting
  <2> QED
    BY <2>1, <2>2 DEF MayBeIn, MayGoTo, Became
<1>3. pc[q] \in {"repin", "rename"} => \A e \in held[q] : (MayBeIn(e, Before(q).token) /\ MayGoTo(e, Before(q).url))'
  BY DEF Consenting, KnownBy, Same, Before, MayBeIn, MayGoTo, Became
<1> QED
  BY <1>1, <1>2, <1>3 DEF Consenting, Same, InHand, Matches

(* Consent does not expire: what may be somewhere may still.               *)
LEMMA InPlaceMonotone ==
    ASSUME NEW d, NEW e \in captured, NEW x, sole \subseteq sole', moves \subseteq moves',
           author'[e] = author[e], MayBeIn(e, d), MayGoTo(e, x)
    PROVE  MayBeIn(e, d)' /\ MayGoTo(e, x)'
BY DEF MayBeIn, MayGoTo, Became

(* Every step keeps Consented.                                             *)
LEMMA ConsentedNext ==
    ASSUME Typed, Keeping, Consented, [Next]_vars
    PROVE  Consented'
<1>1. Shaped /\ Past
  BY TypedIs
<1>2. \A q \in Procs : KnownBy(q)
  BY DEF Keeping, Known
<1>3. ASSUME NEW p \in Procs, Act(p)
      PROVE  Consented'
  <2>1. /\ sole \subseteq sole' /\ moves \subseteq moves'
        /\ \A e \in captured : author'[e] = author[e]
    BY <1>1, <1>3, ConsentGrows
  <2>2. captured \subseteq captured'
    BY <1>1, <1>3, Grows
  <2>3. Asked'
    BY <1>1, <1>2, <1>3, <2>2, AskedStep DEF Consented
  <2>4. Transitive(moves)' /\ SoleOf(config)' \subseteq sole'
    BY <1>1, <1>3, MovesStep DEF Consented
  <2>5. InPlace'
    <3> SUFFICES ASSUME NEW d \in Dirs, NEW e \in Events, stored'[d][e] # Absent
                 PROVE  (MayBeIn(e, d) /\ MayGoTo(e, stored[d][e]))'
      BY DEF InPlace
    <3>1. MayBeIn(e, d) /\ MayGoTo(e, stored'[d][e])
      BY <1>1, <1>3, PlaceStep DEF Consented
    <3>2. CASE e \in captured
      BY <2>1, <3>1, <3>2 DEF MayBeIn, MayGoTo, Became
    <3>3. CASE e \notin captured
      BY <1>1, <1>2, <1>3, <3>3, NewIsNotStored DEF Keeping, Known
    <3> QED
      BY <3>2, <3>3
  <2>6. ASSUME NEW q \in Procs
        PROVE  Consenting(q)'
    <3>1. CASE q = p
      BY <1>1, <1>3, <3>1, ConsentingStep DEF Consented
    <3>2. CASE q # p
      BY <1>1, <1>2, <1>3, <2>1, <3>2, OthersSame, SameConsenting DEF Consented, Shaped
    <3> QED
      BY <3>1, <3>2
  <2> QED
    BY <2>3, <2>4, <2>5, <2>6 DEF Consented
<1>4. CASE Bystander
  <2>1. (\A q \in Procs : Consenting(q)')
    BY <1>2, <1>4, BystanderKeeps, SameConsenting DEF Consented
  <2>2. InPlace'
    BY <1>4, BystanderKeeps DEF Consented, InPlace, MayBeIn, MayGoTo, Became
  <2>3. Asked' /\ Transitive(moves)' /\ SoleOf(config)' \subseteq sole'
    BY <1>4, BystanderKeeps DEF Consented, Asked, Transitive, SoleOf, TokensOf, ServesMultiple
  <2> QED
    BY <2>1, <2>2, <2>3 DEF Consented
<1> QED
  BY <1>3, <1>4 DEF Next, Act, Bystander

(* The entries of an older release have no token, and their URL.           *)
LEMMA ConsentedInit ==
    ASSUME Init
    PROVE  Consented
<1>1. PICK dest \in [captured -> Urls \union {AnyUrl}] :
        /\ stored = [d \in Dirs |-> [e \in Events |->
                        IF d = "loose" /\ e \in captured THEN dest[e] ELSE Absent]]
        /\ author = [e \in Events |->
                        IF e \in captured /\ dest[e] # AnyUrl
                        THEN [token |-> NoToken, url |-> dest[e]] ELSE NoIdentity]
  BY DEF Init
<1>2. \A d \in Dirs, e \in Events : stored[d][e] # Absent => d = "loose" /\ e \in captured /\ stored[d][e] = dest[e]
  BY <1>1
<1>3. \A e \in Events : author[e].token = NoToken
  BY <1>1 DEF NoIdentity
<1>4. \A e \in captured : e \in Events /\ (dest[e] = AnyUrl => author[e].url = NoUrl) /\ (dest[e] # AnyUrl => author[e].url = dest[e])
  BY <1>1, PartitionAssumption DEF NoIdentity, Init
<1>5. "loose" \notin Tokens
  BY PartitionAssumption DEF Shared
<1>6. InPlace
  BY <1>2, <1>3, <1>4, <1>5 DEF InPlace, MayBeIn, MayGoTo, Became
<1>7. Asked /\ Transitive(moves) /\ SoleOf(config) \subseteq sole
  BY DEF Init, Asked, Transitive
<1>8. \A p \in Procs : Consenting(p)
  BY DEF Init, Consenting, InHand, Retargeting
<1> QED
  BY <1>6, <1>7, <1>8 DEF Consented

(* Consented holds in every state.                                         *)
LEMMA ConsentedInvariance == Spec => []Consented
BY ConsentedInit, ConsentedNext, TypedInvariance, KeepingInvariance, PTL DEF Spec

(* An offer is rightful when its token and URL may have the record.        *)
Rightful(e, token, url) ==
    /\ author[e].token = NoToken => token = NoToken \/ \E t \in sole : Became(t, token)
    /\ author[e].token # NoToken => Became(author[e].token, token)
    /\ author[e].url = NoUrl \/ Became(author[e].url, url)

(* SentWhereConsented, said of one request at a time.                      *)
LEMMA SentIs ==
    /\ SentWhereConsented <=> \A o \in offered : Rightful(o.event, o.token, o.url)
    /\ SentWhereConsented' <=> \A o \in offered' : Rightful(o.event, o.token, o.url)'
BY DEF SentWhereConsented, Rightful

(* A request offers what its identity may have.                            *)
LEMMA OfferStep ==
    ASSUME NEW p \in Procs, Shaped, KnownBy(p), Consenting(p), NEW o \in offered', Act(p)
    PROVE  o \in offered \/ (o.event \in captured /\ Rightful(o.event, o.token, o.url))
<1>1. ASSUME NEW at \in Places, NEW new \in SUBSET (Events \ captured), Begin(p, at, new)
      PROVE  o \in offered \/ (o.event \in captured /\ Rightful(o.event, o.token, o.url))
  BY <1>1 DEF Begin
<1>2. ASSUME NEW at \in Places, NEW id \in Identity, Setup(p, at, id)
      PROVE  o \in offered \/ (o.event \in captured /\ Rightful(o.event, o.token, o.url))
  BY <1>2 DEF Setup
<1>3. CASE SettleList(p)
  BY <1>3 DEF SettleList, history
<1>4. CASE Skip(p)
  BY <1>4 DEF Skip, history
<1>5. CASE Sweep(p)
  BY <1>5 DEF Sweep, history
<1>6. CASE Drain(p)
  BY <1>6 DEF Drain, history
<1>7. CASE Finish(p)
  BY <1>7 DEF Finish, history
<1>8. CASE Busy(p)
  BY <1>8 DEF Busy, history
<1>9. CASE SaveConfig(p)
  BY <1>9 DEF SaveConfig
<1>10. CASE Agree(p)
  BY <1>10 DEF Agree
<1>11. CASE Keep(p)
  BY <1>11 DEF Keep
<1>12. CASE Retarget(p)
  BY <1>12 DEF Retarget, history
<1>13. CASE QueueBusy(p)
  BY <1>13 DEF QueueBusy, history
<1>14. ASSUME NEW accepted \in BOOLEAN, Send(p, accepted)
      PROVE  o \in offered \/ (o.event \in captured /\ Rightful(o.event, o.token, o.url))
  <2>1. \A x \in offered' : x \in offered \/ (x.event \in held[p] /\ x.token = me[p].token /\ x.url = me[p].url)
    BY <1>14 DEF Send, Offer
  <2>2. \A e \in held[p] : author[e] = me[p] /\ e \in captured
    BY <1>14 DEF Send, Settled, Consenting, InHand, KnownBy
  <2> QED
    BY <2>1, <2>2 DEF Rightful, Became
<1>15. ASSUME NEW accepted \in BOOLEAN, Request(p, accepted)
      PROVE  o \in offered \/ (o.event \in captured /\ Rightful(o.event, o.token, o.url))
  <2>1. \A x \in offered' : x \in offered \/ \E f \in todo[p] : x.event = f.event /\ x.token = me[p].token /\ x.url = me[p].url
    BY <1>15 DEF Request, Offer
  <2>2. ASSUME NEW f \in todo[p]
        PROVE  f.event \in captured /\ Rightful(f.event, me[p].token, me[p].url)
    <3>1. f.event \in captured /\ f \in Listed /\ f.dir = MyDir(p)
      BY <1>15 DEF Request, KnownBy, Shaped, Hands, Local
    <3>2. MayBeIn(f.event, f.dir) /\ MayGoTo(f.event, f.dest) /\ f.dest \in {AnyUrl, me[p].url} /\ f.dest \in Urls \union {AnyUrl}
      BY <1>15, <3>1 DEF Request, Consenting, Matches, Listed
    <3>3. author[f.event].token = NoToken => me[p].token = NoToken \/ \E t \in sole : Became(t, me[p].token)
      BY <3>1, <3>2, MyDirIs DEF MayBeIn, Shaped
    <3>4. author[f.event].token # NoToken => Became(author[f.event].token, me[p].token)
      BY <3>1, <3>2, MyDirIs DEF MayBeIn, Shaped, Shared
    <3>5. author[f.event].url = NoUrl \/ Became(author[f.event].url, me[p].url)
      BY <3>2 DEF MayGoTo
    <3> QED
      BY <3>1, <3>3, <3>4, <3>5 DEF Rightful
  <2> QED
    BY <2>1, <2>2
<1>16. ASSUME NEW batch \in SUBSET Files({MyDir(p)}), Collect(p, batch)
      PROVE  o \in offered \/ (o.event \in captured /\ Rightful(o.event, o.token, o.url))
  BY <1>16 DEF Collect, history
<1>17. ASSUME NEW f \in todo[p], MoveEntry(p, f)
      PROVE  o \in offered \/ (o.event \in captured /\ Rightful(o.event, o.token, o.url))
  BY <1>17 DEF MoveEntry, history
<1>18. ASSUME NEW f \in todo[p], Remove(p, f)
      PROVE  o \in offered \/ (o.event \in captured /\ Rightful(o.event, o.token, o.url))
  BY <1>18 DEF Remove, history
<1>19. ASSUME NEW f \in todo[p], Charge(p, f)
      PROVE  o \in offered \/ (o.event \in captured /\ Rightful(o.event, o.token, o.url))
  BY <1>19 DEF Charge, history
<1>20. ASSUME NEW f \in todo[p], Reread(p, f)
      PROVE  o \in offered \/ (o.event \in captured /\ Rightful(o.event, o.token, o.url))
  BY <1>20 DEF Reread, history
<1>21. ASSUME NEW e \in held[p], Enqueue(p, e)
      PROVE  o \in offered \/ (o.event \in captured /\ Rightful(o.event, o.token, o.url))
  BY <1>21 DEF Enqueue, history
<1>22. ASSUME NEW e \in held[p], Repin(p, e)
      PROVE  o \in offered \/ (o.event \in captured /\ Rightful(o.event, o.token, o.url))
  BY <1>22 DEF Repin, history
<1>23. ASSUME NEW e \in held[p], RenameRepinned(p, e)
      PROVE  o \in offered \/ (o.event \in captured /\ Rightful(o.event, o.token, o.url))
  BY <1>23 DEF RenameRepinned, history
<1>24. ASSUME NEW e \in held[p], RetargetThrows(p, e)
      PROVE  o \in offered \/ (o.event \in captured /\ Rightful(o.event, o.token, o.url))
  BY <1>24 DEF RetargetThrows, history
<1>25. CASE Crash(p)
  BY <1>25 DEF Crash
<1> QED
  BY <1>1, <1>2, <1>3, <1>4, <1>5, <1>6, <1>7, <1>8, <1>9, <1>10, <1>11, <1>12, <1>13, <1>14, <1>15,
     <1>16, <1>17, <1>18, <1>19, <1>20, <1>21, <1>22, <1>23, <1>24, <1>25
  DEF Act, Continue

(* Every step keeps SentWhereConsented.                                    *)
LEMMA SentNext ==
    ASSUME Typed, Keeping, Consented, SentWhereConsented, [Next]_vars
    PROVE  SentWhereConsented'
<1>1. Shaped /\ Past
  BY TypedIs
<1>2. ASSUME NEW p \in Procs, Act(p)
      PROVE  SentWhereConsented'
  <2> SUFFICES ASSUME NEW o \in offered'
               PROVE  Rightful(o.event, o.token, o.url)'
    BY SentIs
  <2>1. /\ sole \subseteq sole' /\ moves \subseteq moves'
        /\ \A e \in captured : author'[e] = author[e]
    BY <1>1, <1>2, ConsentGrows
  <2>2. o \in offered \/ (o.event \in captured /\ Rightful(o.event, o.token, o.url))
    BY <1>1, <1>2, OfferStep DEF Keeping, Known, Consented
  <2>3. o.event \in captured /\ Rightful(o.event, o.token, o.url)
    BY <2>2, SentIs DEF Consented, Asked
  <2> QED
    BY <2>1, <2>3 DEF Rightful, Became
<1>3. CASE Bystander
  BY <1>3, BystanderKeeps DEF SentWhereConsented, Became
<1> QED
  BY <1>2, <1>3 DEF Next, Act, Bystander

(* A drain, a settle and a retarget send a record only where its identity, *)
(* or the user, wants it.                                                  *)
THEOREM SendsWhereConsented == Spec => []SentWhereConsented
<1>1. Init => SentWhereConsented
  BY DEF Init, SentWhereConsented
<1> QED
  BY <1>1, SentNext, TypedInvariance, KeepingInvariance, ConsentedInvariance, PTL DEF Spec

-----------------------------------------------------------------------------

(* What a step of p does to the lock.                                      *)
LockKept(p) ==
    /\ HasLock(p)' /\ overrun' = overrun
    /\ \A q \in Procs : q # p => (q \in holders <=> q \in holders')
    /\ Mutual => Mutual'

(* A process takes and leaves the lock as its contract says.               *)
LEMMA LockStep ==
    ASSUME NEW p \in Procs, Shaped, Past, HasLock(p), Act(p)
    PROVE  LockKept(p)
<1>1. ASSUME NEW at \in Places, NEW new \in SUBSET (Events \ captured), Begin(p, at, new)
      PROVE  LockKept(p)
  BY <1>1 DEF Begin, Goto, HasLock, Draining, Mutual, Shaped, Stage, lock, LockKept
<1>2. ASSUME NEW at \in Places, NEW id \in Identity, Setup(p, at, id)
      PROVE  LockKept(p)
  BY <1>2 DEF Setup, Goto, HasLock, Draining, Mutual, Shaped, Stage, lock, LockKept
<1>3. CASE SettleList(p)
  BY <1>3 DEF SettleList, Goto, HasLock, Draining, Mutual, Shaped, Stage, lock, LockKept
<1>4. CASE Skip(p)
  BY <1>4 DEF Skip, Goto, Settled, HasLock, Draining, Mutual, Shaped, Stage, lock, LockKept
<1>5. CASE Sweep(p)
  BY <1>5 DEF Sweep, Goto, Settled, Maintaining, HasLock, Draining, Mutual, Shaped, Stage, lock,
     LockKept
<1>6. CASE Drain(p)
  BY <1>6 DEF Drain, Lock!Acquire, Goto, HasLock, Draining, Mutual, Shaped, Stage, Past, LockKept
<1>7. CASE Finish(p)
  BY <1>7, EndIs DEF Finish, Unlock, Lock!Release, HasLock, Draining, Mutual, Shaped, lock, LockKept
<1>8. CASE Busy(p)
  BY <1>8, EndIs DEF Busy, HasLock, Draining, Mutual, Shaped, lock, LockKept
<1>9. CASE SaveConfig(p)
  BY <1>9 DEF SaveConfig, Goto, HasLock, Draining, Mutual, Shaped, Stage, lock, LockKept
<1>10. CASE Agree(p)
  BY <1>10 DEF Agree, Goto, HasLock, Draining, Mutual, Shaped, Stage, lock, LockKept
<1>11. CASE Keep(p)
  BY <1>11, EndIs DEF Keep, HasLock, Draining, Mutual, Shaped, lock, LockKept
<1>12. CASE Retarget(p)
  BY <1>12 DEF Retarget, Lock!Acquire, Goto, HasLock, Draining, Mutual, Shaped, Stage, Past,
     LockKept
<1>13. CASE QueueBusy(p)
  BY <1>13, EndIs DEF QueueBusy, HasLock, Draining, Mutual, Shaped, lock, LockKept
<1>14. ASSUME NEW accepted \in BOOLEAN, Send(p, accepted)
      PROVE  LockKept(p)
  BY <1>14 DEF Send, Goto, Settled, HasLock, Draining, Mutual, Shaped, Stage, lock, LockKept
<1>15. ASSUME NEW accepted \in BOOLEAN, Request(p, accepted)
      PROVE  LockKept(p)
  BY <1>15 DEF Request, Goto, HasLock, Draining, Mutual, Shaped, Stage, lock, LockKept
<1>16. ASSUME NEW batch \in SUBSET Files({MyDir(p)}), Collect(p, batch)
      PROVE  LockKept(p)
  BY <1>16 DEF Collect, Goto, HasLock, Draining, Mutual, Shaped, Stage, lock, LockKept
<1>17. ASSUME NEW f \in todo[p], MoveEntry(p, f)
      PROVE  LockKept(p)
  BY <1>17 DEF MoveEntry, HasLock, Draining, Mutual, Shaped, Stage, lock, LockKept
<1>18. ASSUME NEW f \in todo[p], Remove(p, f)
      PROVE  LockKept(p)
  BY <1>18 DEF Remove, HasLock, Draining, Mutual, Shaped, Stage, lock, LockKept
<1>19. ASSUME NEW f \in todo[p], Charge(p, f)
      PROVE  LockKept(p)
  BY <1>19 DEF Charge, HasLock, Draining, Mutual, Shaped, Stage, lock, LockKept
<1>20. ASSUME NEW f \in todo[p], Reread(p, f)
      PROVE  LockKept(p)
  BY <1>20 DEF Reread, Goto, HasLock, Draining, Mutual, Shaped, Stage, lock, LockKept
<1>21. ASSUME NEW e \in held[p], Enqueue(p, e)
      PROVE  LockKept(p)
  BY <1>21 DEF Enqueue, Goto, HasLock, Draining, Mutual, Shaped, Stage, lock, LockKept
<1>22. ASSUME NEW e \in held[p], Repin(p, e)
      PROVE  LockKept(p)
  BY <1>22 DEF Repin, Goto, HasLock, Draining, Mutual, Shaped, Stage, lock, LockKept
<1>23. ASSUME NEW e \in held[p], RenameRepinned(p, e)
      PROVE  LockKept(p)
  BY <1>23 DEF RenameRepinned, Goto, HasLock, Draining, Mutual, Shaped, Stage, lock, LockKept
<1>24. ASSUME NEW e \in held[p], RetargetThrows(p, e)
      PROVE  LockKept(p)
  BY <1>24, EndIs DEF RetargetThrows, Unlock, Lock!Release, HasLock, Draining, Mutual, Shaped, lock,
     LockKept
<1>25. CASE Crash(p)
  BY <1>25, EndIs DEF Crash, Lock!Die, HasLock, Draining, Mutual, Shaped, lock, LockKept
<1> QED
  BY <1>1, <1>2, <1>3, <1>4, <1>5, <1>6, <1>7, <1>8, <1>9, <1>10, <1>11, <1>12, <1>13, <1>14, <1>15,
     <1>16, <1>17, <1>18, <1>19, <1>20, <1>21, <1>22, <1>23, <1>24, <1>25
  DEF Act, Continue

(* A process leaves one copy of a signed record, and knows where it is.    *)
LEMMA OneStep ==
    ASSUME NEW p \in Procs, Shaped, NEW rec \in Events, OneDir(rec), OneInMind(p, rec),
           \A d \in Shared : stored[d][rec] = Absent, rec \in InHand(p) => \A d \in Dirs : stored[d][rec] = Absent, Act(p)
    PROVE  OneDir(rec)' /\ OneInMind(p, rec)'
<1>1. ASSUME NEW at \in Places, NEW new \in SUBSET (Events \ captured), Begin(p, at, new)
      PROVE  OneDir(rec)' /\ OneInMind(p, rec)'
  BY <1>1 DEF Begin, Goto, OneDir, OneInMind, InOne, Before, Shaped, Stage, disk, lock
<1>2. ASSUME NEW at \in Places, NEW id \in Identity, Setup(p, at, id)
      PROVE  OneDir(rec)' /\ OneInMind(p, rec)'
  BY <1>2 DEF Setup, Goto, OneDir, OneInMind, InOne, Before, Shaped, Stage, disk, lock
<1>3. CASE SettleList(p)
  BY <1>3 DEF SettleList, Goto, OneDir, OneInMind, InOne, Before, Shaped, Stage, disk, lock, history
<1>4. CASE Skip(p)
  BY <1>4 DEF Skip, Goto, Settled, OneDir, OneInMind, InOne, Before, Shaped, Stage, disk, lock,
     history
<1>5. CASE Sweep(p)
  BY <1>5 DEF Sweep, Goto, Settled, Maintaining, OneDir, OneInMind, InOne, Before, Shaped, Stage,
     disk, lock, history
<1>6. CASE Drain(p)
  BY <1>6 DEF Drain, Goto, Settled, Maintaining, OneDir, OneInMind, InOne, Before, Shaped, Stage,
     disk, history
<1>7. CASE Finish(p)
  BY <1>7, EndIs DEF Finish, OneDir, OneInMind, Shaped, disk
<1>8. CASE Busy(p)
  BY <1>8, EndIs DEF Busy, OneDir, OneInMind, Shaped, disk
<1>9. CASE SaveConfig(p)
  BY <1>9 DEF SaveConfig, Goto, OneDir, OneInMind, InOne, Before, Shaped, Stage, lock
<1>10. CASE Agree(p)
  BY <1>10 DEF Agree, Goto, OneDir, OneInMind, InOne, Before, Shaped, Stage, disk, lock
<1>11. CASE Keep(p)
  BY <1>11, EndIs DEF Keep, OneDir, OneInMind, Shaped, disk
<1>12. CASE Retarget(p)
  BY <1>12 DEF Retarget, Goto, OneDir, OneInMind, InOne, Before, Shaped, Stage, disk, lock, history
<1>13. CASE QueueBusy(p)
  BY <1>13, EndIs DEF QueueBusy, OneDir, OneInMind, Shaped, disk
<1>14. ASSUME NEW accepted \in BOOLEAN, Send(p, accepted)
      PROVE  OneDir(rec)' /\ OneInMind(p, rec)'
  BY <1>14 DEF Send, Goto, Settled, OneDir, OneInMind, InOne, Before, Shaped, Stage, disk, lock
<1>15. ASSUME NEW accepted \in BOOLEAN, Request(p, accepted)
      PROVE  OneDir(rec)' /\ OneInMind(p, rec)'
  BY <1>15 DEF Request, Goto, OneDir, OneInMind, InOne, Before, Shaped, Stage, disk, lock
<1>16. ASSUME NEW batch \in SUBSET Files({MyDir(p)}), Collect(p, batch)
      PROVE  OneDir(rec)' /\ OneInMind(p, rec)'
  <2>1. \A f \in batch : f.dir \in Dirs /\ stored[f.dir][f.event] # Absent
    BY FilesAre, MyDirIs DEF Shaped
  <2>2. pc'[p] = "request" /\ todo'[p] = batch /\ stored' = stored
    BY <1>16 DEF Collect, Goto, Shaped, Stage, Hands, disk
  <2> QED
    BY <2>1, <2>2 DEF OneDir, OneInMind, InOne
<1>17. ASSUME NEW f \in todo[p], MoveEntry(p, f)
      PROVE  OneDir(rec)' /\ OneInMind(p, rec)'
  <2>1. f \in Listed /\ f.dir \in Shared
    BY <1>17 DEF MoveEntry, Shaped, Hands, Local, Shared
  <2>2. \A c \in Dirs : stored'[c][rec] = stored[c][rec]
    BY <1>17, <2>1, MoveEntryIs DEF There
  <2>3. pc'[p] = "moving"
    BY <1>17 DEF MoveEntry
  <2> QED
    BY <2>2, <2>3 DEF OneDir, OneInMind
<1>18. ASSUME NEW f \in todo[p], Remove(p, f)
      PROVE  OneDir(rec)' /\ OneInMind(p, rec)'
  <2>1. \A c \in Dirs : stored'[c][rec] # Absent => stored[c][rec] # Absent
    BY <1>18, RemoveIs
  <2>2. pc'[p] \in {"sweep", "clear"}
    BY <1>18 DEF Remove
  <2> QED
    BY <2>1, <2>2 DEF OneDir, OneInMind
<1>19. ASSUME NEW f \in todo[p], Charge(p, f)
      PROVE  OneDir(rec)' /\ OneInMind(p, rec)'
  <2>1. f \in Listed /\ todo'[p] \subseteq todo[p] /\ pc[p] = "charge" /\ pc'[p] = "charge"
    BY <1>19 DEF Charge, Handled, Shaped, Hands
  <2>2. \A g \in todo[p] : g.dir = f.dir
    BY <1>19, <2>1 DEF Shaped, Local
  <2>3. CASE rec = f.event
    <3>1. InOne(rec, f.dir)
      BY <2>1, <2>3 DEF OneInMind
    <3>2. \A c \in Dirs : stored'[c][rec] # Absent => c = f.dir
      BY <1>19, <3>1, ChargeIs DEF InOne
    <3> QED
      BY <2>1, <2>2, <3>2 DEF OneDir, OneInMind, InOne
  <2>4. CASE rec # f.event
    <3>1. \A c \in Dirs : stored'[c][rec] = stored[c][rec]
      BY <1>19, <2>4, ChargeIs
    <3> QED
      BY <2>1, <3>1 DEF OneDir, OneInMind, InOne
  <2> QED
    BY <2>3, <2>4
<1>20. ASSUME NEW f \in todo[p], Reread(p, f)
      PROVE  OneDir(rec)' /\ OneInMind(p, rec)'
  <2>1. f \in Listed /\ f.dir = Before(p).token /\ Before(p).url # Absent
    BY <1>20, PartitionAssumption DEF Shaped, Hands, Reread, Local, Retargeting
  <2>2. /\ pc'[p] \in {"retarget", "repin"}
        /\ pc'[p] = "repin" => stored[f.dir][f.event] = Before(p).url /\ held'[p] = {f.event}
    BY <1>20 DEF Reread, Goto, Shaped, Stage, Hands
  <2>3. stored' = stored /\ Before(p)' = Before(p)
    BY <1>20 DEF Reread, Before, disk
  <2> QED
    BY <2>1, <2>2, <2>3 DEF OneDir, OneInMind, InOne, Listed
<1>21. ASSUME NEW e \in held[p], Enqueue(p, e)
      PROVE  OneDir(rec)' /\ OneInMind(p, rec)'
  <2>1. pc'[p] \in {"preserve", "maintain"}
    BY <1>21 DEF Enqueue, Goto, Shaped, Stage
  <2>2. CASE rec = e
    <3>1. \A c \in Dirs : stored'[c][rec] # Absent => c = MyDir(p)
      BY <1>21, <2>2, EnqueueIs DEF Enqueue, InHand
    <3> QED
      BY <2>1, <3>1 DEF OneDir, OneInMind
  <2>3. CASE rec # e
    <3>1. \A c \in Dirs : stored'[c][rec] = stored[c][rec]
      BY <1>21, <2>3, EnqueueIs
    <3> QED
      BY <2>1, <3>1 DEF OneDir, OneInMind, InOne
  <2> QED
    BY <2>2, <2>3
<1>22. ASSUME NEW e \in held[p], Repin(p, e)
      PROVE  OneDir(rec)' /\ OneInMind(p, rec)'
  <2>1. /\ pc[p] = "repin" /\ pc'[p] \in {"retarget", "rename"}
        /\ pc'[p] = "rename" => held'[p] = held[p]
        /\ Before(p)' = Before(p)
    BY <1>22 DEF Repin, Goto, Shaped, Stage, Hands, Before
  <2>2. CASE rec = e
    <3>1. InOne(rec, Before(p).token)
      BY <2>1, <2>2 DEF OneInMind
    <3>2. \A c \in Dirs : stored'[c][rec] # Absent => c = Before(p).token
      BY <1>22, <2>2, <3>1, RepinIs DEF InOne
    <3> QED
      BY <2>1, <3>2 DEF OneDir, OneInMind, InOne
  <2>3. CASE rec # e
    <3>1. \A c \in Dirs : stored'[c][rec] = stored[c][rec]
      BY <1>22, <2>3, RepinIs
    <3> QED
      BY <2>1, <3>1 DEF OneDir, OneInMind, InOne
  <2> QED
    BY <2>2, <2>3
<1>23. ASSUME NEW e \in held[p], RenameRepinned(p, e)
      PROVE  OneDir(rec)' /\ OneInMind(p, rec)'
  <2>1. pc[p] = "rename" /\ pc'[p] = "retarget"
    BY <1>23 DEF RenameRepinned, Goto, Shaped, Stage
  <2>2. CASE rec = e
    <3>1. InOne(rec, Before(p).token)
      BY <2>1, <2>2 DEF OneInMind
    <3>2. \A c \in Dirs : stored'[c][rec] # Absent => c = me[p].token
      BY <1>23, <2>2, <3>1, RenameRepinnedIs DEF InOne
    <3> QED
      BY <2>1, <3>2 DEF OneDir, OneInMind
  <2>3. CASE rec # e
    <3>1. \A c \in Dirs : stored'[c][rec] = stored[c][rec]
      BY <1>23, <2>3, RenameRepinnedIs
    <3> QED
      BY <2>1, <3>1 DEF OneDir, OneInMind, InOne
  <2> QED
    BY <2>2, <2>3
<1>24. ASSUME NEW e \in held[p], RetargetThrows(p, e)
      PROVE  OneDir(rec)' /\ OneInMind(p, rec)'
  BY <1>24, EndIs DEF RetargetThrows, OneDir, OneInMind, Shaped, disk
<1>25. CASE Crash(p)
  BY <1>25, EndIs DEF Crash, OneDir, OneInMind, Shaped, disk
<1> QED
  BY <1>1, <1>2, <1>3, <1>4, <1>5, <1>6, <1>7, <1>8, <1>9, <1>10, <1>11, <1>12, <1>13, <1>14, <1>15,
     <1>16, <1>17, <1>18, <1>19, <1>20, <1>21, <1>22, <1>23, <1>24, <1>25
  DEF Act, Continue

(* Who does not drain adds no copy, but of the record in its own hands.    *)
LEMMA ShrinkStep ==
    ASSUME NEW p \in Procs, Shaped, pc[p] \notin Draining, NEW rec \in Events, \A d \in Shared : stored[d][rec] = Absent, Act(p)
    PROVE  rec \in InHand(p) \/ \A c \in Dirs : stored'[c][rec] # Absent => stored[c][rec] # Absent
<1>1. ASSUME NEW at \in Places, NEW new \in SUBSET (Events \ captured), Begin(p, at, new)
      PROVE  rec \in InHand(p) \/ \A c \in Dirs : stored'[c][rec] # Absent => stored[c][rec] # Absent
  BY <1>1 DEF Begin, disk
<1>2. ASSUME NEW at \in Places, NEW id \in Identity, Setup(p, at, id)
      PROVE  rec \in InHand(p) \/ \A c \in Dirs : stored'[c][rec] # Absent => stored[c][rec] # Absent
  BY <1>2 DEF Setup, disk
<1>3. CASE SettleList(p)
  BY <1>3 DEF SettleList, disk
<1>4. CASE Skip(p)
  BY <1>4 DEF Skip, disk
<1>5. CASE Sweep(p)
  BY <1>5 DEF Sweep, disk
<1>6. CASE Drain(p)
  BY <1>6 DEF Drain, disk
<1>7. CASE Finish(p)
  BY <1>7 DEF Finish, disk
<1>8. CASE Busy(p)
  BY <1>8 DEF Busy, disk
<1>9. CASE SaveConfig(p)
  BY <1>9 DEF SaveConfig
<1>10. CASE Agree(p)
  BY <1>10 DEF Agree, disk
<1>11. CASE Keep(p)
  BY <1>11 DEF Keep, disk
<1>12. CASE Retarget(p)
  BY <1>12 DEF Retarget, disk
<1>13. CASE QueueBusy(p)
  BY <1>13 DEF QueueBusy, disk
<1>14. ASSUME NEW accepted \in BOOLEAN, Send(p, accepted)
      PROVE  rec \in InHand(p) \/ \A c \in Dirs : stored'[c][rec] # Absent => stored[c][rec] # Absent
  BY <1>14 DEF Send, disk
<1>15. ASSUME NEW accepted \in BOOLEAN, Request(p, accepted)
      PROVE  rec \in InHand(p) \/ \A c \in Dirs : stored'[c][rec] # Absent => stored[c][rec] # Absent
  BY <1>15 DEF Request, disk
<1>16. ASSUME NEW batch \in SUBSET Files({MyDir(p)}), Collect(p, batch)
      PROVE  rec \in InHand(p) \/ \A c \in Dirs : stored'[c][rec] # Absent => stored[c][rec] # Absent
  BY <1>16 DEF Collect, disk
<1>17. ASSUME NEW f \in todo[p], MoveEntry(p, f)
      PROVE  rec \in InHand(p) \/ \A c \in Dirs : stored'[c][rec] # Absent => stored[c][rec] # Absent
  <2>1. f \in Listed /\ f.dir \in Shared
    BY <1>17 DEF MoveEntry, Shaped, Hands, Local, Shared
  <2> QED
    BY <1>17, <2>1, MoveEntryIs DEF There
<1>18. ASSUME NEW f \in todo[p], Remove(p, f)
      PROVE  rec \in InHand(p) \/ \A c \in Dirs : stored'[c][rec] # Absent => stored[c][rec] # Absent
  BY <1>18, RemoveIs
<1>19. ASSUME NEW f \in todo[p], Charge(p, f)
      PROVE  rec \in InHand(p) \/ \A c \in Dirs : stored'[c][rec] # Absent => stored[c][rec] # Absent
  BY <1>19 DEF Charge, Draining
<1>20. ASSUME NEW f \in todo[p], Reread(p, f)
      PROVE  rec \in InHand(p) \/ \A c \in Dirs : stored'[c][rec] # Absent => stored[c][rec] # Absent
  BY <1>20 DEF Reread, disk
<1>21. ASSUME NEW e \in held[p], Enqueue(p, e)
      PROVE  rec \in InHand(p) \/ \A c \in Dirs : stored'[c][rec] # Absent => stored[c][rec] # Absent
  <2>1. e \in InHand(p)
    BY <1>21 DEF Enqueue, InHand
  <2> QED
    BY <1>21, <2>1, EnqueueIs
<1>22. ASSUME NEW e \in held[p], Repin(p, e)
      PROVE  rec \in InHand(p) \/ \A c \in Dirs : stored'[c][rec] # Absent => stored[c][rec] # Absent
  BY <1>22 DEF Repin, Draining
<1>23. ASSUME NEW e \in held[p], RenameRepinned(p, e)
      PROVE  rec \in InHand(p) \/ \A c \in Dirs : stored'[c][rec] # Absent => stored[c][rec] # Absent
  BY <1>23 DEF RenameRepinned, Draining
<1>24. ASSUME NEW e \in held[p], RetargetThrows(p, e)
      PROVE  rec \in InHand(p) \/ \A c \in Dirs : stored'[c][rec] # Absent => stored[c][rec] # Absent
  BY <1>24 DEF RetargetThrows, disk
<1>25. CASE Crash(p)
  BY <1>25 DEF Crash, disk
<1> QED
  BY <1>1, <1>2, <1>3, <1>4, <1>5, <1>6, <1>7, <1>8, <1>9, <1>10, <1>11, <1>12, <1>13, <1>14, <1>15,
     <1>16, <1>17, <1>18, <1>19, <1>20, <1>21, <1>22, <1>23, <1>24, <1>25
  DEF Act, Continue

(* One process runs under the lock, and whoever drains has it.             *)
LEMMA LockingNext ==
    ASSUME Typed, Locking, [Next]_vars
    PROVE  Locking'
<1>1. Shaped /\ Past
  BY TypedIs
<1>2. ASSUME NEW p \in Procs, Act(p)
      PROVE  Locking'
  <2>1. \A q \in Procs : q # p => Same(q)
    BY <1>1, <1>2, OthersSame DEF Shaped
  <2>2. /\ HasLock(p)' /\ overrun' = overrun
        /\ \A q \in Procs : q # p => (q \in holders <=> q \in holders')
        /\ Mutual => Mutual'
    BY <1>1, <1>2, LockStep DEF Locking, LockKept
  <2>3. \A q \in Procs : HasLock(q)'
    BY <2>1, <2>2 DEF Locking, HasLock, Same
  <2> QED
    BY <2>2, <2>3 DEF Locking
<1>3. CASE Bystander
  <2>1. \A q \in Procs : HasLock(q)'
    BY <1>3 DEF Bystander, BreakOrphan, BreakHeld, Age, Lock!Break, vars, lock, local, Locking,
       HasLock
  <2>2. (~overrun => Mutual) => (~overrun' => Mutual')
    BY <1>3 DEF Bystander, BreakOrphan, BreakHeld, Age, Lock!Break, vars, lock, Mutual
  <2> QED
    BY <2>1, <2>2 DEF Locking
<1> QED
  BY <1>2, <1>3 DEF Next, Act, Bystander

(* Locking holds in every state.                                           *)
LEMMA LockingInvariance == Spec => []Locking
<1>1. Init => Locking
  BY DEF Init, Locking, Mutual, HasLock, Draining
<1> QED
  BY <1>1, LockingNext, TypedInvariance, PTL DEF Spec

(* What a drain knows stays true while the others only remove.             *)
LEMMA SameInMind ==
    ASSUME NEW q \in Procs, NEW e \in Events, Same(q), OneInMind(q, e),
           pc[q] \in Draining => \A c \in Dirs : stored'[c][e] # Absent => stored[c][e] # Absent
    PROVE  OneInMind(q, e)'
BY DEF Same, OneInMind, InOne, Before, Draining

(* Every step keeps Single.                                                *)
LEMMA SingleNext ==
    ASSUME Typed, Keeping, Keeping', Consented, Locking, Single, [Next]_vars
    PROVE  Single'
<1>1. Shaped /\ Past
  BY TypedIs
<1>2. captured' \subseteq Events
  BY <1>1, PastNext DEF Shaped, Past
<1>3. ASSUME NEW p \in Procs, Act(p), ~overrun, NEW e \in captured', Signed(e)'
      PROVE  OneDir(e)' /\ \A q \in Procs : OneInMind(q, e)'
  <2>1. \A q \in Procs : q # p => Same(q)
    BY <1>1, <1>3, OthersSame DEF Shaped
  <2>2. CASE e \notin captured
    <3>1. e \in InHand(p)'
      BY <1>1, <1>3, <2>2, Grows
    <3>2. Only(p, e)'
      BY <3>1 DEF Keeping, Apart
    <3>3. \A d \in Dirs : stored'[d][e] = Absent
      BY <3>2 DEF Only
    <3> QED
      BY <3>3 DEF OneDir, OneInMind, InOne
  <2>3. CASE e \in captured
    <3>1. e \in Events /\ Signed(e)
      BY <1>2, <1>1, <1>3, <2>3, ConsentGrows DEF Signed
    <3>2. OneDir(e) /\ \A q \in Procs : OneInMind(q, e)
      BY <1>3, <2>3, <3>1 DEF Single
    <3>3. \A d \in Shared : stored[d][e] = Absent
      BY <3>1 DEF Consented, InPlace, MayBeIn, Signed, Dirs
    <3>4. e \in InHand(p) => \A d \in Dirs : stored[d][e] = Absent
      BY DEF Keeping, Apart, Only
    <3>5. OneDir(e)' /\ OneInMind(p, e)'
      BY <1>1, <1>3, <3>1, <3>2, <3>3, <3>4, OneStep
    <3>6. ASSUME NEW q \in Procs, q # p
          PROVE  OneInMind(q, e)'
      <4>1. ASSUME pc[q] \in Draining
            PROVE  \A c \in Dirs : stored'[c][e] # Absent => stored[c][e] # Absent
            \/ (e \in InHand(p))
        <5>1. p \notin holders
          BY <1>3, <3>6, <4>1 DEF Locking, HasLock, Mutual
        <5>2. pc[p] \notin Draining
          BY <5>1 DEF Locking, HasLock
        <5> QED
          BY <1>1, <1>3, <3>1, <3>3, <5>2, ShrinkStep
      <4>2. CASE e \notin InHand(p)
        BY <2>1, <3>1, <3>2, <3>6, <4>1, <4>2, SameInMind
      <4>3. CASE e \in InHand(p)
        <5>1. e \notin held[q] /\ \A f \in todo[q] : f.event # e
          BY <3>6, <4>3 DEF Keeping, Apart, Only
        <5> QED
          BY <2>1, <3>6, <5>1 DEF OneInMind, Same
      <4> QED
        BY <4>2, <4>3
    <3> QED
      BY <3>5, <3>6
  <2> QED
    BY <2>2, <2>3
<1>4. ASSUME NEW p \in Procs, Act(p)
      PROVE  Single'
  <2>1. overrun' = overrun
    BY <1>1, <1>4, ConsentGrows
  <2> QED
    BY <1>3, <1>4, <2>1 DEF Single
<1>5. CASE Bystander
  <2>1. overrun => overrun'
    BY <1>5 DEF Bystander, BreakOrphan, BreakHeld, Age, Lock!Break, vars, lock
  <2> QED
    BY <1>5, <2>1, BystanderKeeps DEF Single, Signed, OneDir, OneInMind, InOne, Before, Same
<1> QED
  BY <1>4, <1>5 DEF Next, Act, Bystander

(* Single holds in every state.                                            *)
LEMMA SingleInvariance == Spec => []Single
<1>1. Init => Single
  <2> SUFFICES ASSUME Init
               PROVE  Single
    OBVIOUS
  <2>1. \A d \in Dirs, e \in Events : stored[d][e] # Absent => d = "loose"
    BY DEF Init
  <2>2. \A p \in Procs : pc[p] = "idle"
    BY DEF Init
  <2>3. captured \subseteq Events
    BY PartitionAssumption DEF Init
  <2> QED
    BY <2>1, <2>2, <2>3 DEF Single, OneDir, OneInMind
<1> QED
  BY <1>1, SingleNext, TypedInvariance, KeepingInvariance, ConsentedInvariance, LockingInvariance,
     PTL DEF Spec

(* A retarget, whatever drains, sweeps and crashes do at the time, leaves  *)
(* one copy of a record.                                                   *)
THEOREM OneCopyEach == Spec => []OneCopy
<1>1. Typed /\ Keeping /\ Single => OneCopy
  <2> SUFFICES ASSUME Typed, Keeping, Single, ~overrun, NEW e \in Events, author[e].token # NoToken
               PROVE  Cardinality(Copies(e)) <= 1
    BY DEF OneCopy
  <2>1. \A c, d \in Copies(e) : c = d
    BY DEF Copies, Single, Signed, OneDir, Keeping, Known, KnownStored
  <2>2. CASE Copies(e) = {}
    BY <2>2, FS_EmptySet
  <2>3. CASE Copies(e) # {}
    <3>1. PICK d \in Copies(e) : TRUE
      BY <2>3
    <3>2. Copies(e) = {d}
      BY <2>1, <3>1
    <3>3. Cardinality(Copies(e)) = 1
      BY <3>2, FS_Singleton
    <3> QED
      BY <3>3
  <2> QED
    BY <2>2, <2>3
<1> QED
  BY <1>1, TypedInvariance, KeepingInvariance, SingleInvariance, PTL
=============================================================================
