--------------------------- MODULE Delivery_proofs ---------------------------
(***************************************************************************)
(* That deliverEvents loses no record and keeps silent while its way is    *)
(* shut, for any processes, records, URLs and bounds.                      *)
(*                                                                         *)
(* NoRecordLost is inductive once pc and todo are known to be functions:   *)
(* every step that takes a record from a hook's hands puts it elsewhere.   *)
(* SilentWhileShut speaks of requests made; SilentFlow says of each stage  *)
(* what the flow has already seen to be open, and that what mutes a run is *)
(* shut at this moment, whatever other hooks raise and clear meanwhile.    *)
(***************************************************************************)
EXTENDS Delivery, TLAPS

(* What mutes a run, in a file the run could read.                         *)
Unheeded(p, reason) == reason \in muted[p] /\ reason \notin unread[p]

SilentFlow(p) ==
    /\ pc[p] \in {"idle", "doctor"} => muted[p] = {}
    /\ pc[p] = "cooldown" => ~Unheeded(p, "block")
    /\ canSend[p] => ~Unheeded(p, "block") /\ ~Unheeded(p, "cooling")
    /\ pc[p] \in {"send", "drain"} => canSend[p]
    /\ p \in asked => canSend[p]

MutedIsShut(p) == \A r \in muted[p] : Shut(r, dest[p])

Silent == \A p \in Procs : SilentFlow(p) /\ MutedIsShut(p)

(* What may send has a URL: a block is never written without one.          *)
Aimed(p) ==
    /\ pc[p] \in {"idle", "doctor", "select", "cooldown"} => ~canSend[p]
    /\ pc[p] = "cooldown" \/ canSend[p] => dest[p] \in Dests
    /\ pc[p] \in {"send", "report", "lift", "raise", "raise-write", "drain"} => canSend[p]
    /\ result[p] # "none" => canSend[p]

TypeInv == TypeOK /\ \A p \in Procs : Aimed(p)

-----------------------------------------------------------------------------
(* TypeOK in two parts: no prover takes the flags and the sets at once.     *)
Flags ==
    cooling \in BOOLEAN /\ due \in BOOLEAN /\ recent \in BOOLEAN /\ canSend \in [Procs -> BOOLEAN]
Data ==
    /\ Queue!TypeOK
    /\ aged \subseteq Events /\ valid \subseteq Dests
    /\ clock \in Nat /\ runs \in Nat /\ faults \in Nat
    /\ block \in Block \union {NoBlock}
    /\ pc \in [Procs -> Labels]
    /\ records \in [Procs -> SUBSET Events] /\ todo \in [Procs -> SUBSET Events]
    /\ dest \in [Procs -> Dests \union {NoDest}]
    /\ result \in [Procs -> {"none", "ok", "retry", "deferred", "auth", "refused"}]
    /\ since \in [Procs -> Nat]
    /\ produced \subseteq Events /\ abandoned \subseteq Events /\ proved \subseteq Dests
    /\ failing \subseteq Procs /\ asked \subseteq Procs
    /\ muted \in [Procs -> SUBSET Reasons] /\ unread \in [Procs -> SUBSET (Reasons \union {"since"})]

(* The two parts make the type, before a step and after it.                *)
LEMMA Typed == /\ TypeOK <=> Flags /\ Data
               /\ TypeOK' <=> Flags' /\ Data'
BY DEF TypeOK, Flags, Data

(* The initial state has it.                                               *)
LEMMA TypeInit ==
    ASSUME Init
    PROVE  TypeOK
BY DeliveryAssumption DEF Init, TypeOK, Queue!Init, Queue!TypeOK, Labels, Removing

(* Every step keeps it, given that what may send has a URL.                *)
LEMMA TypeNext ==
    ASSUME TypeInv, [Next]_vars
    PROVE  TypeOK'
<1> USE DeliveryAssumption DEF TypeInv, TypeOK, Queue!TypeOK, Labels, Removing, Block, Reasons, Goto,
            queue, time, local, history, CallFails, ReadFails
<1>1. CASE Tick
  BY <1>1 DEF Tick
<1>2. CASE CooldownEnds
  BY <1>2 DEF CooldownEnds, StillMuted
<1>3. CASE SweepDue
  BY <1>3 DEF SweepDue
<1>4. ASSUME NEW e \in Events, Age(e) PROVE TypeOK'
  BY <1>4 DEF Age, Queue!Answer
<1>5. ASSUME NEW d \in Dests, ChangeCredential(d) PROVE TypeOK'
  BY <1>5 DEF ChangeCredential
<1>6. ASSUME NEW p \in Procs, NEW new \in SUBSET (Events \ produced), NEW d \in Dests \union {NoDest}, Begin(p, new, d)
      PROVE TypeOK'
  BY <1>6 DEF Begin
<1>7. ASSUME NEW p \in Procs, NEW d \in Dests, Status(p, d) \/ DoctorAccepted(p, d) PROVE TypeOK'
  <2>1. Flags'
    <3>1. UNCHANGED <<cooling, due, recent>>
      BY <1>7 DEF Status, DoctorAccepted
    <3>2. canSend' \in [Procs -> BOOLEAN]
      BY <1>7 DEF Status, DoctorAccepted
    <3> QED BY <3>1, <3>2, Typed DEF Flags
  <2>2. Data'
    BY <1>7, Typed DEF Data, Status, DoctorAccepted
  <2> QED BY <2>1, <2>2, Typed
<1>8. ASSUME NEW p \in Procs, Continue(p) PROVE TypeOK'
  <2>1. CASE SelectBlock(p) \/ SelectCooldown(p)
    <3>1. Flags'
      <4>1. UNCHANGED <<cooling, due, recent>>
        BY <1>8, <2>1 DEF SelectBlock, SelectCooldown, Hold, Advance
      <4>2. canSend' \in [Procs -> BOOLEAN]
        BY <1>8, <2>1 DEF SelectBlock, SelectCooldown, Hold, Advance
      <4> QED BY <4>1, <4>2, Typed DEF Flags
    <3>2. Data'
      BY <1>8, <2>1, Typed DEF Data, SelectBlock, SelectCooldown, Hold, Advance
    <3> QED BY <3>1, <3>2, Typed
  <2>2. ASSUME NEW answer \in Answers(dest[p]), SendDirect(p, answer) PROVE TypeOK'
    BY <1>8, <2>2 DEF SendDirect, Answers, Queue!Answer, Asks, Outcome, Accepting, AfterSend, StillMuted
  <2>3. ASSUME NEW e \in Events, Preserve(p, e) PROVE TypeOK'
    BY <1>8, <2>3 DEF Preserve, Queue!Store
  <2>4. ASSUME NEW e \in Events, Remove(p, e) PROVE TypeOK'
    BY <1>8, <2>4 DEF Remove, Queue!Drop
  <2>5. CASE PreserveDone(p) \/ EvictDone(p)
    BY <1>8, <2>5 DEF PreserveDone, EvictDone, Reporting, Queue!Answer
  <2>6. CASE Report(p)
    <3>1. Flags'
      BY <1>8, <2>6, Typed DEF Flags, Report, StillMuted
    <3>2. Data'
      <4>1. PICK label \in {"lift", "raise", "maintain"} : Goto(p, label)
        BY <2>6 DEF Report
      <4>2. /\ UNCHANGED <<queue, aged, valid, clock, runs, block, records, todo, dest, result, since, produced, abandoned,
                            proved, failing, asked, unread>>
            /\ faults' \in {faults, faults + 1}
            /\ StillMuted
        BY <2>6 DEF Report
      <4> QED BY <4>1, <4>2, Typed DEF Data, StillMuted
    <3> QED BY <3>1, <3>2, Typed
  <2>7. CASE Lift(p) \/ DoctorClears(p)
    BY <1>8, <2>7 DEF Lift, DoctorClears, ClearBlock, StillMuted
  <2>8. CASE RaiseRead(p)
    BY <1>8, <2>8 DEF RaiseRead, Standing
  <2>9. CASE RaiseWrite(p)
    <3>1. Flags'
      BY <1>8, <2>9, Typed DEF Flags, RaiseWrite, StillMuted
    <3>2. Data'
      <4>1. dest[p] \in Dests
        BY <1>8, <2>9 DEF Aimed, RaiseWrite
      <4> QED BY <1>8, <2>9, <4>1, Typed DEF Data, RaiseWrite, StillMuted
    <3> QED BY <3>1, <3>2, Typed
  <2>10. CASE MaintainSweep(p) \/ MaintainDrain(p) \/ DrainIdle(p)
    <3>1. Flags'
      <4>1. cooling' = cooling /\ recent' = recent /\ canSend' = canSend
        BY <2>10 DEF MaintainSweep, MaintainDrain, DrainIdle
      <4>2. due' = due \/ due' = FALSE
        BY <2>10 DEF MaintainSweep, MaintainDrain, DrainIdle, Walk
      <4> QED BY <4>1, <4>2, Typed DEF Flags
    <3>2. Data'
      BY <1>8, <2>10, Typed DEF Data, MaintainSweep, MaintainDrain, DrainIdle, Walk
    <3> QED BY <3>1, <3>2, Typed
  <2>11. CASE Finish(p)
    BY <1>8, <2>11 DEF Finish, End
  <2>12. ASSUME NEW batch \in SUBSET kept, NEW answer \in Answers(dest[p]), DrainSend(p, batch, answer) PROVE TypeOK'
    <3>1. Flags'
      BY <1>8, <2>12, Typed DEF Flags, DrainSend, Answers, Asks, StillMuted
    <3>2. Data'
      BY <1>8, <2>12, Typed DEF Data, DrainSend, Answers, Queue!Answer, Asks, Accepting, StillMuted
    <3> QED BY <3>1, <3>2, Typed
  <2> QED BY <1>8, <2>1, <2>2, <2>3, <2>4, <2>5, <2>6, <2>7, <2>8, <2>9, <2>10, <2>11, <2>12 DEF Continue
<1>9. ASSUME NEW p \in Procs, PreserveFails(p) \/ Crash(p) PROVE TypeOK'
  <2>1. Flags'
    BY <1>9, Typed DEF Flags, PreserveFails, Crash, End, Held
  <2>2. Data'
    BY <1>9, Typed DEF Data, PreserveFails, Crash, End, Held
  <2> QED BY <2>1, <2>2, Typed
<1>10. CASE UNCHANGED vars
  BY <1>10 DEF vars
<1> QED BY <1>1, <1>2, <1>3, <1>4, <1>5, <1>6, <1>7, <1>8, <1>9, <1>10 DEF Next

(* What may send was told a URL when it began, and keeps it.               *)
LEMMA AimedNext ==
    ASSUME TypeInv, [Next]_vars, NEW p \in Procs
    PROVE  Aimed(p)'
<1> USE DEF TypeInv, TypeOK, Aimed, Goto, queue, time, local, history
<1>1. CASE Tick \/ CooldownEnds \/ SweepDue \/ UNCHANGED vars
  BY <1>1 DEF Tick, CooldownEnds, SweepDue, vars
<1>2. ASSUME NEW e \in Events, Age(e) PROVE Aimed(p)'
  BY <1>2 DEF Age
<1>3. ASSUME NEW d \in Dests, ChangeCredential(d) PROVE Aimed(p)'
  BY <1>3 DEF ChangeCredential
<1>4. ASSUME NEW q \in Procs, NEW new \in SUBSET (Events \ produced), NEW d \in Dests \union {NoDest}, Begin(q, new, d)
      PROVE Aimed(p)'
  BY <1>4 DEF Begin
<1>5. ASSUME NEW q \in Procs, NEW d \in Dests, Status(q, d) \/ DoctorAccepted(q, d) PROVE Aimed(p)'
  BY <1>5 DEF Status, DoctorAccepted
<1>6. ASSUME NEW q \in Procs, Continue(q) PROVE Aimed(p)'
  <2>1. CASE SelectBlock(q)
    BY <1>6, <2>1 DEF SelectBlock, Hold
  <2>2. CASE SelectCooldown(q)
    BY <1>6, <2>2 DEF SelectCooldown, Hold, Advance
  <2>3. ASSUME NEW answer \in Answers(dest[q]), SendDirect(q, answer) PROVE Aimed(p)'
    BY <1>6, <2>3 DEF SendDirect, Asks, Outcome, AfterSend
  <2>4. ASSUME NEW e \in Events, Preserve(q, e) \/ Remove(q, e) PROVE Aimed(p)'
    BY <1>6, <2>4 DEF Preserve, Remove
  <2>5. CASE PreserveDone(q) \/ EvictDone(q)
    BY <1>6, <2>5 DEF PreserveDone, EvictDone, Reporting
  <2>6. CASE Report(q)
    BY <1>6, <2>6 DEF Report
  <2>7. CASE Lift(q) \/ DoctorClears(q)
    BY <1>6, <2>7 DEF Lift, DoctorClears, ClearBlock
  <2>8. CASE RaiseRead(q) \/ RaiseWrite(q)
    BY <1>6, <2>8 DEF RaiseRead, RaiseWrite
  <2>9. CASE MaintainSweep(q) \/ MaintainDrain(q) \/ DrainIdle(q)
    BY <1>6, <2>9 DEF MaintainSweep, MaintainDrain, DrainIdle, MayDrain
  <2>10. CASE Finish(q)
    BY <1>6, <2>10 DEF Finish, End
  <2>11. ASSUME NEW batch \in SUBSET kept, NEW answer \in Answers(dest[q]), DrainSend(q, batch, answer) PROVE Aimed(p)'
    BY <1>6, <2>11 DEF DrainSend, Asks
  <2> QED BY <1>6, <2>1, <2>2, <2>3, <2>4, <2>5, <2>6, <2>7, <2>8, <2>9, <2>10, <2>11 DEF Continue
<1>7. ASSUME NEW q \in Procs, PreserveFails(q) \/ Crash(q) PROVE Aimed(p)'
  BY <1>7 DEF PreserveFails, Crash, End
<1> QED BY <1>1, <1>2, <1>3, <1>4, <1>5, <1>6, <1>7 DEF Next

(* The two hold together.                                                  *)
LEMMA TypeInvariance == Spec => []TypeInv
<1>1. Init => TypeInv
  BY TypeInit DEF TypeInv, Init, Aimed
<1>2. TypeInv /\ [Next]_vars => TypeInv'
  BY TypeNext, AimedNext DEF TypeInv
<1> QED BY <1>1, <1>2, PTL DEF Spec

(* The state of the files, the flows and the queue has its type; a block   *)
(* on disk always names a URL.                                             *)
THEOREM TypeCorrect == Spec => []TypeOK
BY TypeInvariance, PTL DEF TypeInv

-----------------------------------------------------------------------------
(* A flow goes on to send only past an open breaker and no block.          *)
LEMMA SilentNext ==
    ASSUME TypeInv, Silent, [Next]_vars, NEW p \in Procs
    PROVE  SilentFlow(p)'
<1> USE DEF TypeInv, TypeOK, Aimed, Silent, SilentFlow, Unheeded, MutedIsShut, Goto, StillMuted, ReadFails, queue, time, local, history
<1>1. CASE Tick \/ CooldownEnds \/ SweepDue \/ UNCHANGED vars
  BY <1>1 DEF Tick, CooldownEnds, SweepDue, vars
<1>2. ASSUME NEW e \in Events, Age(e) PROVE SilentFlow(p)'
  BY <1>2 DEF Age
<1>3. ASSUME NEW d \in Dests, ChangeCredential(d) PROVE SilentFlow(p)'
  BY <1>3 DEF ChangeCredential
<1>4. ASSUME NEW q \in Procs, NEW new \in SUBSET (Events \ produced), NEW d \in Dests \union {NoDest}, Begin(q, new, d)
      PROVE SilentFlow(p)'
  BY <1>4 DEF Begin
<1>5. ASSUME NEW q \in Procs, NEW d \in Dests, Status(q, d) \/ DoctorAccepted(q, d) PROVE SilentFlow(p)'
  BY <1>5 DEF Status, DoctorAccepted
<1>6. ASSUME NEW q \in Procs, Continue(q) PROVE SilentFlow(p)'
  <2>1. CASE SelectBlock(q)
    BY <1>6, <2>1 DEF SelectBlock, Hold, Shut
  <2>2. CASE SelectCooldown(q)
    BY <1>6, <2>2 DEF SelectCooldown, Hold, Advance, Shut
  <2>3. ASSUME NEW answer \in Answers(dest[q]), SendDirect(q, answer) PROVE SilentFlow(p)'
    BY <1>6, <2>3 DEF SendDirect, Asks, Outcome, AfterSend
  <2>4. ASSUME NEW e \in Events, Preserve(q, e) \/ Remove(q, e) PROVE SilentFlow(p)'
    BY <1>6, <2>4 DEF Preserve, Remove
  <2>5. CASE PreserveDone(q) \/ EvictDone(q)
    <3>1. UNCHANGED <<muted, unread, asked, canSend>>
      BY <2>5 DEF PreserveDone, EvictDone
    <3>2. pc'[p] = pc[p] \/ pc'[p] \in {"report", "maintain", "evict"}
      BY <1>6, <2>5 DEF PreserveDone, EvictDone, Reporting
    <3> QED BY <3>1, <3>2
  <2>6. CASE Report(q)
    BY <1>6, <2>6 DEF Report
  <2>7. CASE Lift(q) \/ DoctorClears(q)
    BY <1>6, <2>7 DEF Lift, DoctorClears, ClearBlock
  <2>8. CASE RaiseRead(q) \/ RaiseWrite(q)
    BY <1>6, <2>8 DEF RaiseRead, RaiseWrite
  <2>9. CASE MaintainSweep(q) \/ MaintainDrain(q) \/ DrainIdle(q)
    BY <1>6, <2>9 DEF MaintainSweep, MaintainDrain, DrainIdle, MayDrain
  <2>10. CASE Finish(q)
    BY <1>6, <2>10 DEF Finish, End
  <2>11. ASSUME NEW batch \in SUBSET kept, NEW answer \in Answers(dest[q]), DrainSend(q, batch, answer) PROVE SilentFlow(p)'
    BY <1>6, <2>11 DEF DrainSend, Asks
  <2> QED BY <1>6, <2>1, <2>2, <2>3, <2>4, <2>5, <2>6, <2>7, <2>8, <2>9, <2>10, <2>11 DEF Continue
<1>7. ASSUME NEW q \in Procs, PreserveFails(q) \/ Crash(q) PROVE SilentFlow(p)'
  BY <1>7 DEF PreserveFails, Crash, End
<1> QED BY <1>1, <1>2, <1>3, <1>4, <1>5, <1>6, <1>7 DEF Next

(* What muted a run is shut still: whoever lifts it takes it from the set. *)
LEMMA MutedNext ==
    ASSUME TypeInv, Silent, [Next]_vars, NEW p \in Procs
    PROVE  MutedIsShut(p)'
<1> USE DEF TypeInv, TypeOK, Silent, MutedIsShut, Shut, ReadFails, Standing, Goto, StillMuted, queue, time, local, history
<1>1. CASE Tick \/ CooldownEnds \/ SweepDue \/ UNCHANGED vars
  BY <1>1 DEF Tick, CooldownEnds, SweepDue, vars
<1>2. ASSUME NEW e \in Events, Age(e) PROVE MutedIsShut(p)'
  BY <1>2 DEF Age
<1>3. ASSUME NEW d \in Dests, ChangeCredential(d) PROVE MutedIsShut(p)'
  BY <1>3 DEF ChangeCredential
<1>4. ASSUME NEW q \in Procs, NEW new \in SUBSET (Events \ produced), NEW d \in Dests \union {NoDest}, Begin(q, new, d)
      PROVE MutedIsShut(p)'
  BY <1>4 DEF Begin
<1>5. ASSUME NEW q \in Procs, NEW d \in Dests, Status(q, d) \/ DoctorAccepted(q, d) PROVE MutedIsShut(p)'
  BY <1>5 DEF Status, DoctorAccepted, SilentFlow
<1>6. ASSUME NEW q \in Procs, Continue(q) PROVE MutedIsShut(p)'
  <2>1. CASE SelectBlock(q)
    BY <1>6, <2>1 DEF SelectBlock, Hold
  <2>2. CASE SelectCooldown(q)
    BY <1>6, <2>2 DEF SelectCooldown, Hold, Advance
  <2>3. ASSUME NEW answer \in Answers(dest[q]), SendDirect(q, answer) PROVE MutedIsShut(p)'
    BY <1>6, <2>3 DEF SendDirect, Asks, Outcome, AfterSend
  <2>4. ASSUME NEW e \in Events, Preserve(q, e) \/ Remove(q, e) PROVE MutedIsShut(p)'
    BY <1>6, <2>4 DEF Preserve, Remove
  <2>5. CASE PreserveDone(q) \/ EvictDone(q)
    BY <1>6, <2>5 DEF PreserveDone, EvictDone, Reporting
  <2>6. CASE Report(q)
    BY <1>6, <2>6 DEF Report
  <2>7. CASE Lift(q) \/ DoctorClears(q)
    BY <1>6, <2>7 DEF Lift, DoctorClears, ClearBlock
  <2>8. CASE RaiseRead(q) \/ RaiseWrite(q)
    BY <1>6, <2>8 DEF RaiseRead, RaiseWrite
  <2>9. CASE MaintainSweep(q) \/ MaintainDrain(q) \/ DrainIdle(q)
    BY <1>6, <2>9 DEF MaintainSweep, MaintainDrain, DrainIdle, MayDrain
  <2>10. CASE Finish(q)
    BY <1>6, <2>10 DEF Finish, End
  <2>11. ASSUME NEW batch \in SUBSET kept, NEW answer \in Answers(dest[q]), DrainSend(q, batch, answer) PROVE MutedIsShut(p)'
    BY <1>6, <2>11 DEF DrainSend, Asks
  <2> QED BY <1>6, <2>1, <2>2, <2>3, <2>4, <2>5, <2>6, <2>7, <2>8, <2>9, <2>10, <2>11 DEF Continue
<1>7. ASSUME NEW q \in Procs, PreserveFails(q) \/ Crash(q) PROVE MutedIsShut(p)'
  BY <1>7 DEF PreserveFails, Crash, End
<1> QED BY <1>1, <1>2, <1>3, <1>4, <1>5, <1>6, <1>7 DEF Next

(* A hook whose way is shut since before it began asks for nothing, unless *)
(* it could not read the file that shuts it.                               *)
THEOREM KeepsSilent == Spec => []SilentWhileShut
<1>1. Init => Silent
  BY DEF Init, Silent, SilentFlow, MutedIsShut
<1>2. TypeInv /\ Silent /\ [Next]_vars => Silent'
  BY SilentNext, MutedNext DEF Silent
<1>3. TypeInv /\ Silent => SilentWhileShut
  BY DEF TypeInv, TypeOK, Silent, SilentFlow, Unheeded, SilentWhileShut
<1> QED BY <1>1, <1>2, <1>3, TypeInvariance, PTL DEF Spec

-----------------------------------------------------------------------------
(* A record leaves a hook's hands into the queue, an answer or the lost.   *)
LEMMA NothingLostNext ==
    ASSUME TypeInv, NoRecordLost, [Next]_vars
    PROVE  NoRecordLost'
<1> USE DEF TypeInv, TypeOK, NoRecordLost, Held, ReadFails, Goto, queue, time, local, history
<1>1. CASE Tick \/ CooldownEnds \/ SweepDue \/ UNCHANGED vars
  BY <1>1 DEF Tick, CooldownEnds, SweepDue, vars
<1>2. ASSUME NEW e \in Events, Age(e) PROVE NoRecordLost'
  BY <1>2 DEF Age, Queue!Answer
<1>3. ASSUME NEW d \in Dests, ChangeCredential(d) PROVE NoRecordLost'
  BY <1>3 DEF ChangeCredential
<1>4. ASSUME NEW q \in Procs, NEW new \in SUBSET (Events \ produced), NEW d \in Dests \union {NoDest}, Begin(q, new, d)
      PROVE NoRecordLost'
  BY <1>4 DEF Begin
<1>5. ASSUME NEW q \in Procs, NEW d \in Dests, Status(q, d) \/ DoctorAccepted(q, d) PROVE NoRecordLost'
  BY <1>5 DEF Status, DoctorAccepted
<1>6. ASSUME NEW q \in Procs, Continue(q) PROVE NoRecordLost'
  <2>1. CASE SelectBlock(q)
    BY <1>6, <2>1 DEF SelectBlock, Hold
  <2>2. CASE SelectCooldown(q)
    BY <1>6, <2>2 DEF SelectCooldown, Hold, Advance
  <2>3. ASSUME NEW answer \in Answers(dest[q]), SendDirect(q, answer) PROVE NoRecordLost'
    BY <1>6, <2>3 DEF SendDirect, Asks, Outcome, AfterSend, Accepting, Queue!Answer
  <2>4. ASSUME NEW e \in Events, Preserve(q, e) \/ Remove(q, e) PROVE NoRecordLost'
    BY <1>6, <2>4 DEF Preserve, Remove, Queue!Store, Queue!Drop, Removing
  <2>5. CASE PreserveDone(q) \/ EvictDone(q)
    BY <1>6, <2>5 DEF PreserveDone, EvictDone, Reporting, Queue!Answer
  <2>6. CASE Report(q)
    BY <1>6, <2>6 DEF Report
  <2>7. CASE Lift(q) \/ DoctorClears(q)
    BY <1>6, <2>7 DEF Lift, DoctorClears, ClearBlock
  <2>8. CASE RaiseRead(q) \/ RaiseWrite(q)
    BY <1>6, <2>8 DEF RaiseRead, RaiseWrite
  <2>9. CASE MaintainSweep(q) \/ MaintainDrain(q) \/ DrainIdle(q)
    BY <1>6, <2>9 DEF MaintainSweep, MaintainDrain, DrainIdle, Walk
  <2>10. CASE Finish(q)
    BY <1>6, <2>10 DEF Finish, End
  <2>11. ASSUME NEW batch \in SUBSET kept, NEW answer \in Answers(dest[q]), DrainSend(q, batch, answer) PROVE NoRecordLost'
    BY <1>6, <2>11 DEF DrainSend, Asks, Queue!Answer
  <2> QED BY <1>6, <2>1, <2>2, <2>3, <2>4, <2>5, <2>6, <2>7, <2>8, <2>9, <2>10, <2>11 DEF Continue
<1>7. ASSUME NEW q \in Procs, PreserveFails(q) \/ Crash(q) PROVE NoRecordLost'
  BY <1>7 DEF PreserveFails, Crash, End
<1> QED BY <1>1, <1>2, <1>3, <1>4, <1>5, <1>6, <1>7 DEF Next

(* deliverEvents loses no record, whatever is answered, fails or dies.     *)
THEOREM NothingIsLost == Spec => []NoRecordLost
<1>1. Init => NoRecordLost
  BY DEF Init, NoRecordLost
<1> QED BY <1>1, NothingLostNext, TypeInvariance, PTL DEF Spec

-----------------------------------------------------------------------------
(* Delivery of the Python package: that force_flush waits for exactly the  *)
(* calls on their way, for every number of calls, queue bound and batch.   *)
CONSTANTS Calls, MaxQueue, BatchMax, Sentinel, Sender, Nobody
VARIABLES at, owed, sentinel, stopped, closer, sender, batch, done, counter, forked

Python == INSTANCE SpanBuffer

CallStates == {"open", "ignored", "read", "dropping", "dropped", "queued", "behind", "batched",
               "sent", "failed", "parents"}
SenderStages == {"get", "more", "empty", "send", "count", "settle", "ended"}

BufferTyped ==
    /\ at \in [Calls -> CallStates]
    /\ owed \subseteq Calls \union {Sentinel}
    /\ batch \subseteq Calls
    /\ sentinel \in {"no", "in", "out"}
    /\ sender \in SenderStages
    /\ done \in BOOLEAN /\ stopped \in BOOLEAN

(* What the sender has in hand, and when; the sentinel is told of with the *)
(* batch it ended.                                                         *)
BatchInHand ==
    /\ \A c \in batch : at[c] \in {"batched", "sent", "failed"}
    /\ sender \in {"get", "empty", "ended"} => batch = {}
    /\ sentinel = "out" => sender \in {"send", "count", "settle", "ended"} /\ done
    /\ sentinel = "no" => Sentinel \notin owed

BufferInv == BufferTyped /\ BatchInHand /\ Python!FlushMeansSettled

(* A new processor has nothing on the way.                                 *)
LEMMA BufferInit ==
    ASSUME Python!NamesDiffer, Python!Init
    PROVE  BufferInv
BY DEF Python!NamesDiffer, Python!Init, BufferInv, BufferTyped, BatchInHand, Python!FlushMeansSettled, Python!Queued, CallStates, SenderStages

(* The host's threads, in on_end and in _count.                            *)
LEMMA OnEndKeeps ==
    ASSUME Python!NamesDiffer, BufferInv, NEW c \in Calls, Python!OnEnd(c)
    PROVE  BufferInv'
<1> USE DEF Python!NamesDiffer, BufferInv, BufferTyped, BatchInHand, Python!FlushMeansSettled, Python!Queued, CallStates, SenderStages, Python!Reach, Python!queue, Python!sending
<1>1. CASE Python!Enter(c)
  BY <1>1 DEF Python!Enter
<1>2. CASE Python!Fails(c)
  BY <1>2 DEF Python!Fails
<1>3. CASE Python!PutNowait(c)
  BY <1>3 DEF Python!PutNowait
<1>4. CASE Python!LockCounter(c)
  BY <1>4 DEF Python!LockCounter
<1>5. CASE Python!CountDrop(c)
  BY <1>5 DEF Python!CountDrop
<1> QED
  BY <1>1, <1>2, <1>3, <1>4, <1>5 DEF Python!OnEnd

(* A call passes from the queue into the batch in hand.                    *)
LEMMA TakeKeeps ==
    ASSUME Python!NamesDiffer, BufferInv, NEW c \in Calls, Python!Take(c)
    PROVE  BufferInv'
BY DEF Python!NamesDiffer, Python!Take, BufferInv, BufferTyped, BatchInHand, Python!FlushMeansSettled, Python!Queued, CallStates, SenderStages, Python!Reach, Python!queue, Python!sending

(* The sender, from the end of a batch to its task_done.                   *)
LEMMA RunKeeps ==
    ASSUME Python!NamesDiffer, BufferInv, Python!Run
    PROVE  BufferInv'
<1> USE DEF Python!NamesDiffer, BufferInv, BufferTyped, BatchInHand, Python!FlushMeansSettled, Python!Queued, CallStates, SenderStages, Python!queue, Python!sending
<1>1. CASE Python!TakeSentinel
  BY <1>1 DEF Python!TakeSentinel
<1>2. CASE Python!Empty
  BY <1>2 DEF Python!Empty
<1>3. CASE Python!ReadStopped
  BY <1>3 DEF Python!ReadStopped
<1>4. CASE Python!Send
  BY <1>4 DEF Python!Send
<1>5. CASE Python!LockBatchCounter \/ Python!CountBatch
  BY <1>5 DEF Python!LockBatchCounter, Python!CountBatch
<1>6. CASE Python!Settle
  <2>1. batch' = {} /\ at' = at /\ sentinel' = sentinel /\ done' = done /\ stopped' = stopped
    BY <1>6 DEF Python!Settle
  <2>2. sender' = IF done THEN "ended" ELSE "get"
    BY <1>6 DEF Python!Settle
  <2>3. owed' \ {Sentinel} = (owed \ {Sentinel}) \ batch
    BY <1>6 DEF Python!Settle
  <2>4. Python!Queued' = Python!Queued /\ Python!Queued \intersect batch = {}
    BY <2>1
  <2>5. owed' \ {Sentinel} = Python!Queued' \union batch'
    BY <2>1, <2>3, <2>4
  <2>6. Sentinel \in owed' => sentinel' = "in" \/ sender' # "ended"
    BY <1>6, <2>1 DEF Python!Settle
  <2>7. BufferTyped' /\ BatchInHand'
    <3>1. owed' \subseteq owed
      BY <1>6 DEF Python!Settle
    <3>2. sender' \in {"get", "ended"} /\ (sentinel' = "out" => sender' = "ended" /\ done')
      BY <2>1, <2>2
    <3> QED
      BY <2>1, <3>1, <3>2
  <2> QED
    BY <2>5, <2>6, <2>7
<1> QED
  BY <1>1, <1>2, <1>3, <1>4, <1>5, <1>6 DEF Python!Run

(* shutdown puts a sentinel, or finds no room for it.                      *)
LEMMA ShutdownKeeps ==
    ASSUME Python!NamesDiffer, BufferInv, Python!Shutdown \/ Python!PutSentinel
    PROVE  BufferInv'
BY DEF Python!NamesDiffer, Python!Shutdown, Python!PutSentinel, BufferInv, BufferTyped, BatchInHand, Python!FlushMeansSettled, Python!Queued, CallStates, SenderStages, Python!sending

(* The child starts with an empty queue and nothing in hand.               *)
LEMMA ForkKeeps ==
    ASSUME Python!NamesDiffer, BufferInv, Python!Fork
    PROVE  BufferInv'
BY DEF Python!NamesDiffer, Python!Fork, BufferInv, BufferTyped, BatchInHand, Python!FlushMeansSettled, Python!Queued, CallStates, SenderStages

(* Nothing changes.                                                        *)
LEMMA StutterKeeps ==
    ASSUME Python!NamesDiffer, BufferInv, UNCHANGED Python!vars
    PROVE  BufferInv'
BY DEF Python!vars, Python!queue, Python!sending, BufferInv, BufferTyped, BatchInHand, Python!FlushMeansSettled, Python!Queued

(* force_flush returns when every call that was put has been sent or       *)
(* dropped, in the parent and in a forked child.                           *)
THEOREM FlushIsHonest ==
    ASSUME Python!NamesDiffer
    PROVE  Python!Spec => []Python!FlushMeansSettled
<1>1. BufferInv /\ [Python!Next]_(Python!vars) => BufferInv'
  BY OnEndKeeps, TakeKeeps, RunKeeps, ShutdownKeeps, ForkKeeps, StutterKeeps DEF Python!Next
<1>2. Python!Init => BufferInv
  BY BufferInit
<1>3. BufferInv => Python!FlushMeansSettled
  BY DEF BufferInv
<1> QED
  BY <1>1, <1>2, <1>3, PTL DEF Python!Spec
=============================================================================
