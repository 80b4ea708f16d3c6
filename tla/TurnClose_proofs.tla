-------------------------- MODULE TurnClose_proofs --------------------------
(***************************************************************************)
(* That closing turns loses no record, reports none twice for a turn and   *)
(* counts no message twice, for any sessions and bounds.                   *)
(*                                                                         *)
(* Records.  Hands says what a closer holds: of its records, those it has  *)
(* removed (mine \ todo) are off the disk for good.  Kept is NoRecordLost  *)
(* with Taken, the removed ones, for InHand: a record a closer has listed  *)
(* and not removed may be gone by another's hand.  Apart is RecordOnce of  *)
(* closers as well as of summaries; it rests on CloseExclusive.            *)
(*                                                                         *)
(* Usage.  While both locks are Intact: what a Stop counted no claim file  *)
(* held when it claimed it (Unclaimed), and its claim stands from then on  *)
(* (ClaimStands), since only a Stop of the same turn writes that file, and *)
(* such a Stop finds the turn's one prompt consumed (Prompted).  Each is   *)
(* said of the Stops that could read every file they listed; what another  *)
(* Stop misread does not take it from them.                                *)
(***************************************************************************)
EXTENDS TurnClose, WellFoundedInduction, TLAPS

(* The part of TypeOK the proofs need.                                     *)
Shape ==
    /\ closeFile \in [Turns -> BOOLEAN]
    /\ pc \in [Stops -> Labels]
    /\ claims \in [Stops -> SUBSET Messages]
    /\ claimed \in [Stops -> SUBSET Messages]
    /\ counted \in [Stops -> SUBSET Messages]
    /\ mine \in [Stops -> SUBSET Records]
    /\ todo \in [Stops -> SUBSET Records]
    /\ stored \subseteq Records /\ ever \subseteq Records /\ transcript \subseteq Messages
    /\ summaries \subseteq Stops

(* Every step keeps the types.                                             *)
LEMMA ShapeNext ==
    ASSUME Shape, [Next]_vars
    PROVE  Shape'
<1> USE DEF Shape, Goto, Labels, InClose, InUsage, store, locks, memory
<1>1. ASSUME NEW r \in Records, Append(r)
      PROVE  Shape'
  BY <1>1 DEF Append
<1>2. ASSUME NEW m \in Messages, Flush(m)
      PROVE  Shape'
  BY <1>2 DEF Flush
<1>3. ASSUME NEW s \in Stops, Stop(s)
      PROVE  Shape'
  BY <1>3 DEF Stop, Fires, CloseLock!Acquire, Turns
<1>4. ASSUME NEW s \in Stops, Collect(s)
      PROVE  Shape'
  BY <1>4 DEF Collect, Consider, Reads
<1>5. ASSUME NEW s \in Stops, LockUsage(s)
      PROVE  Shape'
  BY <1>5 DEF LockUsage, UsageLock!Acquire
<1>6. ASSUME NEW s \in Stops, UsageTimeout(s)
      PROVE  Shape'
  BY <1>6 DEF UsageTimeout
<1>7. ASSUME NEW s \in Stops, ClaimedMessageIds(s)
      PROVE  Shape'
  BY <1>7 DEF ClaimedMessageIds, Reads, Claimed
<1>8. ASSUME NEW s \in Stops, ReadTranscript(s)
      PROVE  Shape'
  BY <1>8 DEF ReadTranscript, ReadOnce
<1>9. ASSUME NEW s \in Stops, ClaimUsage(s)
      PROVE  Shape'
  BY <1>9 DEF ClaimUsage
<1>10. ASSUME NEW s \in Stops, ReleaseUsage(s)
      PROVE  Shape'
  BY <1>10 DEF ReleaseUsage, UsageLock!Release
<1>11. ASSUME NEW s \in Stops, Recollect(s)
      PROVE  Shape'
  BY <1>11 DEF Recollect, Reads, FilterTurn
<1>12. ASSUME NEW s \in Stops, NEW r \in Records, RemoveFile(s, r)
      PROVE  Shape'
  BY <1>12 DEF RemoveFile
<1>13. ASSUME NEW s \in Stops, Removed(s)
      PROVE  Shape'
  BY <1>13 DEF Removed
<1>14. ASSUME NEW s \in Stops, ReleaseClose(s)
      PROVE  Shape'
  BY <1>14 DEF ReleaseClose, CloseLock!Release, Turns
<1>15. ASSUME NEW s \in Stops, Deliver(s)
      PROVE  Shape'
  BY <1>15 DEF Deliver
<1>16. ASSUME NEW s \in Stops, CloseThrows(s)
      PROVE  Shape'
  BY <1>16 DEF CloseThrows, Forget
<1>17. ASSUME NEW s \in Stops, Crash(s)
      PROVE  Shape'
  BY <1>17 DEF Crash, Forget
<1>18. ASSUME NEW turn \in Turns, BreakClose(turn)
      PROVE  Shape'
  BY <1>18 DEF BreakClose
<1>19. CASE BreakUsage
  BY <1>19 DEF BreakUsage
<1>20. CASE SessionEnd \/ SweepRemove
  BY <1>20 DEF SessionEnd, SweepRemove, Wipe
<1>21. CASE TtlPasses \/ SweepStat
  BY <1>21 DEF TtlPasses, SweepStat
<1>22. CASE UNCHANGED vars
  BY <1>22 DEF vars
<1> QED BY <1>1, <1>2, <1>3, <1>4, <1>5, <1>6, <1>7, <1>8, <1>9, <1>10, <1>11, <1>12, <1>13, <1>14,
           <1>15, <1>16, <1>17, <1>18, <1>19, <1>20, <1>21, <1>22 DEF Next, Close

(* The initial state has them.                                             *)
LEMMA ShapeInit == Init => Shape
BY DEF Init, Shape, Labels

(* A closer's hands, from the second listing to the summary.               *)
Hands ==
    /\ stored \subseteq ever
    /\ \A s \in Stops :
        /\ todo[s] \subseteq mine[s] /\ mine[s] \subseteq ever
        /\ (mine[s] \ todo[s]) \intersect stored = {}
        /\ mine[s] # {} => pc[s] \in {"remove", "release", "deliver", "done"}
        /\ pc[s] # "remove" => todo[s] = {}
    /\ \A s \in summaries : pc[s] = "done"

(* What closers have removed and not yet reported, and where records are.  *)
Taken == UNION {mine[s] \ todo[s] : s \in {q \in Stops : pc[q] \in {"remove", "release", "deliver"}}}
Kept == ever \subseteq stored \union Reported \union Taken \union gone

(* The close lock, unless it was broken, has one closer of a turn in it;   *)
(* so has the usage lock of the session.                                   *)
CloseExclusive ==
    \A s \in Stops : pc[s] \in InClose /\ s.turn \notin closeBroken =>
        /\ closeFile[s.turn] = TRUE
        /\ \A q \in Stops : pc[q] \in InClose /\ q.turn = s.turn => q = s

UsageExclusive ==
    usageBroken = FALSE => \A s \in Stops : pc[s] \in InUsage =>
        /\ usageFile = TRUE
        /\ \A q \in Stops : pc[q] \in InUsage => q = s

(* Closers of one turn never hold the same record.                         *)
Apart ==
    \A s, q \in Stops : s # q /\ s.turn = q.turn /\ s.turn \notin closeBroken => mine[s] \intersect mine[q] = {}

(* A closer's removals are its own: what it took off the disk stays off.   *)
LEMMA HandsNext ==
    ASSUME Shape, Hands, [Next]_vars
    PROVE  Hands'
<1> USE DEF Shape, Hands, Goto, Labels, InClose, InUsage, store, locks, memory
<1>1. ASSUME NEW r \in Records, Append(r)
      PROVE  Hands'
  BY <1>1 DEF Append
<1>2. ASSUME NEW m \in Messages, Flush(m)
      PROVE  Hands'
  BY <1>2 DEF Flush
<1>3. ASSUME NEW s \in Stops, Stop(s)
      PROVE  Hands'
  BY <1>3 DEF Stop, Fires, CloseLock!Acquire, Turns
<1>4. ASSUME NEW s \in Stops, Collect(s)
      PROVE  Hands'
  BY <1>4 DEF Collect, Consider, Reads
<1>5. ASSUME NEW s \in Stops, LockUsage(s)
      PROVE  Hands'
  BY <1>5 DEF LockUsage, UsageLock!Acquire
<1>6. ASSUME NEW s \in Stops, UsageTimeout(s)
      PROVE  Hands'
  BY <1>6 DEF UsageTimeout
<1>7. ASSUME NEW s \in Stops, ClaimedMessageIds(s)
      PROVE  Hands'
  BY <1>7 DEF ClaimedMessageIds, Reads
<1>8. ASSUME NEW s \in Stops, ReadTranscript(s)
      PROVE  Hands'
  BY <1>8 DEF ReadTranscript
<1>9. ASSUME NEW s \in Stops, ClaimUsage(s)
      PROVE  Hands'
  BY <1>9 DEF ClaimUsage
<1>10. ASSUME NEW s \in Stops, ReleaseUsage(s)
      PROVE  Hands'
  BY <1>10 DEF ReleaseUsage, UsageLock!Release
<1>11. ASSUME NEW s \in Stops, Recollect(s)
      PROVE  Hands'
  BY <1>11 DEF Recollect, Reads, FilterTurn
<1>12. ASSUME NEW s \in Stops, NEW r \in Records, RemoveFile(s, r)
      PROVE  Hands'
  BY <1>12 DEF RemoveFile
<1>13. ASSUME NEW s \in Stops, Removed(s)
      PROVE  Hands'
  BY <1>13 DEF Removed
<1>14. ASSUME NEW s \in Stops, ReleaseClose(s)
      PROVE  Hands'
  BY <1>14 DEF ReleaseClose, CloseLock!Release, Turns
<1>15. ASSUME NEW s \in Stops, Deliver(s)
      PROVE  Hands'
  BY <1>15 DEF Deliver
<1>16. ASSUME NEW s \in Stops, CloseThrows(s)
      PROVE  Hands'
  BY <1>16 DEF CloseThrows, Forget
<1>17. ASSUME NEW s \in Stops, Crash(s)
      PROVE  Hands'
  BY <1>17 DEF Crash, Forget
<1>18. ASSUME NEW turn \in Turns, BreakClose(turn)
      PROVE  Hands'
  BY <1>18 DEF BreakClose
<1>19. CASE BreakUsage
  BY <1>19 DEF BreakUsage
<1>20. CASE SessionEnd \/ SweepRemove
  BY <1>20 DEF SessionEnd, SweepRemove, Wipe
<1>21. CASE TtlPasses \/ SweepStat
  BY <1>21 DEF TtlPasses, SweepStat
<1>22. CASE UNCHANGED vars
  BY <1>22 DEF vars
<1> QED BY <1>1, <1>2, <1>3, <1>4, <1>5, <1>6, <1>7, <1>8, <1>9, <1>10, <1>11, <1>12, <1>13, <1>14,
           <1>15, <1>16, <1>17, <1>18, <1>19, <1>20, <1>21, <1>22 DEF Next, Close

(* No step drops a record: a removal moves it to Taken, a summary to       *)
(* Reported, a failure, SessionEnd or the sweep to gone.                   *)
LEMMA KeptNext ==
    ASSUME Shape, Hands, Kept, [Next]_vars
    PROVE  Kept'
<1> USE DEF Shape, Hands, Kept, Taken, Reported, Goto, Labels, InClose, InUsage, store, locks, memory
<1>1. ASSUME NEW r \in Records, Append(r)
      PROVE  Kept'
  BY <1>1 DEF Append
<1>2. ASSUME NEW m \in Messages, Flush(m)
      PROVE  Kept'
  BY <1>2 DEF Flush
<1>3. ASSUME NEW s \in Stops, Stop(s)
      PROVE  Kept'
  BY <1>3 DEF Stop, Fires, CloseLock!Acquire
<1>4. ASSUME NEW s \in Stops, Collect(s)
      PROVE  Kept'
  BY <1>4 DEF Collect, Consider, Reads
<1>5. ASSUME NEW s \in Stops, LockUsage(s)
      PROVE  Kept'
  BY <1>5 DEF LockUsage, UsageLock!Acquire
<1>6. ASSUME NEW s \in Stops, UsageTimeout(s)
      PROVE  Kept'
  BY <1>6 DEF UsageTimeout
<1>7. ASSUME NEW s \in Stops, ClaimedMessageIds(s)
      PROVE  Kept'
  BY <1>7 DEF ClaimedMessageIds, Reads
<1>8. ASSUME NEW s \in Stops, ReadTranscript(s)
      PROVE  Kept'
  BY <1>8 DEF ReadTranscript
<1>9. ASSUME NEW s \in Stops, ClaimUsage(s)
      PROVE  Kept'
  BY <1>9 DEF ClaimUsage
<1>10. ASSUME NEW s \in Stops, ReleaseUsage(s)
      PROVE  Kept'
  BY <1>10 DEF ReleaseUsage, UsageLock!Release
<1>11. ASSUME NEW s \in Stops, Recollect(s)
      PROVE  Kept'
  BY <1>11 DEF Recollect, Reads, FilterTurn
<1>12. ASSUME NEW s \in Stops, NEW r \in Records, RemoveFile(s, r)
      PROVE  Kept'
  BY <1>12 DEF RemoveFile
<1>13. ASSUME NEW s \in Stops, Removed(s)
      PROVE  Kept'
  BY <1>13 DEF Removed
<1>14. ASSUME NEW s \in Stops, ReleaseClose(s)
      PROVE  Kept'
  BY <1>14 DEF ReleaseClose, CloseLock!Release
<1>15. ASSUME NEW s \in Stops, Deliver(s)
      PROVE  Kept'
  BY <1>15 DEF Deliver
<1>16. ASSUME NEW s \in Stops, CloseThrows(s)
      PROVE  Kept'
  BY <1>16 DEF CloseThrows, Forget
<1>17. ASSUME NEW s \in Stops, Crash(s)
      PROVE  Kept'
  BY <1>17 DEF Crash, Forget
<1>18. ASSUME NEW turn \in Turns, BreakClose(turn)
      PROVE  Kept'
  BY <1>18 DEF BreakClose
<1>19. CASE BreakUsage
  BY <1>19 DEF BreakUsage
<1>20. CASE SessionEnd \/ SweepRemove
  BY <1>20 DEF SessionEnd, SweepRemove, Wipe
<1>21. CASE TtlPasses \/ SweepStat
  BY <1>21 DEF TtlPasses, SweepStat
<1>22. CASE UNCHANGED vars
  BY <1>22 DEF vars
<1> QED BY <1>1, <1>2, <1>3, <1>4, <1>5, <1>6, <1>7, <1>8, <1>9, <1>10, <1>11, <1>12, <1>13, <1>14,
           <1>15, <1>16, <1>17, <1>18, <1>19, <1>20, <1>21, <1>22 DEF Next, Close

(* A second closer enters only over a broken lock.                         *)
LEMMA CloseNext ==
    ASSUME Shape, CloseExclusive, [Next]_vars
    PROVE  CloseExclusive'
<1> USE DEF Shape, CloseExclusive, Goto, Labels, InClose, InUsage, store, locks, memory
<1>1. ASSUME NEW r \in Records, Append(r)
      PROVE  CloseExclusive'
  BY <1>1 DEF Append
<1>2. ASSUME NEW m \in Messages, Flush(m)
      PROVE  CloseExclusive'
  BY <1>2 DEF Flush
<1>3. ASSUME NEW s \in Stops, Stop(s)
      PROVE  CloseExclusive'
  BY <1>3 DEF Stop, Fires, CloseLock!Acquire, Turns, Closing
<1>4. ASSUME NEW s \in Stops, Collect(s)
      PROVE  CloseExclusive'
  BY <1>4 DEF Collect, Consider, Reads
<1>5. ASSUME NEW s \in Stops, LockUsage(s)
      PROVE  CloseExclusive'
  BY <1>5 DEF LockUsage, UsageLock!Acquire
<1>6. ASSUME NEW s \in Stops, UsageTimeout(s)
      PROVE  CloseExclusive'
  BY <1>6 DEF UsageTimeout
<1>7. ASSUME NEW s \in Stops, ClaimedMessageIds(s)
      PROVE  CloseExclusive'
  BY <1>7 DEF ClaimedMessageIds, Reads
<1>8. ASSUME NEW s \in Stops, ReadTranscript(s)
      PROVE  CloseExclusive'
  BY <1>8 DEF ReadTranscript
<1>9. ASSUME NEW s \in Stops, ClaimUsage(s)
      PROVE  CloseExclusive'
  BY <1>9 DEF ClaimUsage
<1>10. ASSUME NEW s \in Stops, ReleaseUsage(s)
      PROVE  CloseExclusive'
  BY <1>10 DEF ReleaseUsage, UsageLock!Release
<1>11. ASSUME NEW s \in Stops, Recollect(s)
      PROVE  CloseExclusive'
  BY <1>11 DEF Recollect, Reads
<1>12. ASSUME NEW s \in Stops, NEW r \in Records, RemoveFile(s, r)
      PROVE  CloseExclusive'
  BY <1>12 DEF RemoveFile
<1>13. ASSUME NEW s \in Stops, Removed(s)
      PROVE  CloseExclusive'
  BY <1>13 DEF Removed
<1>14. ASSUME NEW s \in Stops, ReleaseClose(s)
      PROVE  CloseExclusive'
  BY <1>14 DEF ReleaseClose, CloseLock!Release, Turns, Closing
<1>15. ASSUME NEW s \in Stops, Deliver(s)
      PROVE  CloseExclusive'
  BY <1>15 DEF Deliver
<1>16. ASSUME NEW s \in Stops, CloseThrows(s)
      PROVE  CloseExclusive'
  BY <1>16 DEF CloseThrows, Forget
<1>17. ASSUME NEW s \in Stops, Crash(s)
      PROVE  CloseExclusive'
  BY <1>17 DEF Crash, Forget
<1>18. ASSUME NEW turn \in Turns, BreakClose(turn)
      PROVE  CloseExclusive'
  BY <1>18 DEF BreakClose, Closing
<1>19. CASE BreakUsage
  BY <1>19 DEF BreakUsage
<1>20. CASE SessionEnd \/ SweepRemove
  BY <1>20 DEF SessionEnd, SweepRemove, Wipe
<1>21. CASE TtlPasses \/ SweepStat
  BY <1>21 DEF TtlPasses, SweepStat
<1>22. CASE UNCHANGED vars
  BY <1>22 DEF vars
<1> QED BY <1>1, <1>2, <1>3, <1>4, <1>5, <1>6, <1>7, <1>8, <1>9, <1>10, <1>11, <1>12, <1>13, <1>14,
           <1>15, <1>16, <1>17, <1>18, <1>19, <1>20, <1>21, <1>22 DEF Next, Close

(* The same of the usage lock.                                             *)
LEMMA UsageNext ==
    ASSUME Shape, UsageExclusive, [Next]_vars
    PROVE  UsageExclusive'
<1> USE DEF Shape, UsageExclusive, Claiming, Goto, Labels, InClose, InUsage, store, locks, memory
<1>1. ASSUME NEW r \in Records, Append(r)
      PROVE  UsageExclusive'
  BY <1>1 DEF Append
<1>2. ASSUME NEW m \in Messages, Flush(m)
      PROVE  UsageExclusive'
  BY <1>2 DEF Flush
<1>3. ASSUME NEW s \in Stops, Stop(s)
      PROVE  UsageExclusive'
  BY <1>3 DEF Stop, Fires, CloseLock!Acquire
<1>4. ASSUME NEW s \in Stops, Collect(s)
      PROVE  UsageExclusive'
  BY <1>4 DEF Collect, Consider, Reads
<1>5. ASSUME NEW s \in Stops, LockUsage(s)
      PROVE  UsageExclusive'
  BY <1>5 DEF LockUsage, UsageLock!Acquire
<1>6. ASSUME NEW s \in Stops, UsageTimeout(s)
      PROVE  UsageExclusive'
  BY <1>6 DEF UsageTimeout
<1>7. ASSUME NEW s \in Stops, ClaimedMessageIds(s)
      PROVE  UsageExclusive'
  BY <1>7 DEF ClaimedMessageIds, Reads
<1>8. ASSUME NEW s \in Stops, ReadTranscript(s)
      PROVE  UsageExclusive'
  BY <1>8 DEF ReadTranscript
<1>9. ASSUME NEW s \in Stops, ClaimUsage(s)
      PROVE  UsageExclusive'
  BY <1>9 DEF ClaimUsage
<1>10. ASSUME NEW s \in Stops, ReleaseUsage(s)
      PROVE  UsageExclusive'
  BY <1>10 DEF ReleaseUsage, UsageLock!Release
<1>11. ASSUME NEW s \in Stops, Recollect(s)
      PROVE  UsageExclusive'
  BY <1>11 DEF Recollect, Reads
<1>12. ASSUME NEW s \in Stops, NEW r \in Records, RemoveFile(s, r)
      PROVE  UsageExclusive'
  BY <1>12 DEF RemoveFile
<1>13. ASSUME NEW s \in Stops, Removed(s)
      PROVE  UsageExclusive'
  BY <1>13 DEF Removed
<1>14. ASSUME NEW s \in Stops, ReleaseClose(s)
      PROVE  UsageExclusive'
  BY <1>14 DEF ReleaseClose, CloseLock!Release
<1>15. ASSUME NEW s \in Stops, Deliver(s)
      PROVE  UsageExclusive'
  BY <1>15 DEF Deliver
<1>16. ASSUME NEW s \in Stops, CloseThrows(s)
      PROVE  UsageExclusive'
  BY <1>16 DEF CloseThrows, Forget
<1>17. ASSUME NEW s \in Stops, Crash(s)
      PROVE  UsageExclusive'
  BY <1>17 DEF Crash, Forget
<1>18. ASSUME NEW turn \in Turns, BreakClose(turn)
      PROVE  UsageExclusive'
  BY <1>18 DEF BreakClose
<1>19. CASE BreakUsage
  BY <1>19 DEF BreakUsage
<1>20. CASE SessionEnd \/ SweepRemove
  BY <1>20 DEF SessionEnd, SweepRemove, Wipe
<1>21. CASE TtlPasses \/ SweepStat
  BY <1>21 DEF TtlPasses, SweepStat
<1>22. CASE UNCHANGED vars
  BY <1>22 DEF vars
<1> QED BY <1>1, <1>2, <1>3, <1>4, <1>5, <1>6, <1>7, <1>8, <1>9, <1>10, <1>11, <1>12, <1>13, <1>14,
           <1>15, <1>16, <1>17, <1>18, <1>19, <1>20, <1>21, <1>22 DEF Next, Close

(* A closer lists what is on disk, and nobody of its turn has that in      *)
(* hand.                                                                   *)
LEMMA ApartNext ==
    ASSUME Shape, Hands, CloseExclusive, Apart, [Next]_vars
    PROVE  Apart'
<1> USE DEF Shape, Hands, CloseExclusive, Apart, Goto, Labels, InClose, InUsage, store, locks, memory
<1>1. ASSUME NEW r \in Records, Append(r)
      PROVE  Apart'
  BY <1>1 DEF Append
<1>2. ASSUME NEW m \in Messages, Flush(m)
      PROVE  Apart'
  BY <1>2 DEF Flush
<1>3. ASSUME NEW s \in Stops, Stop(s)
      PROVE  Apart'
  BY <1>3 DEF Stop, Fires, CloseLock!Acquire
<1>4. ASSUME NEW s \in Stops, Collect(s)
      PROVE  Apart'
  BY <1>4 DEF Collect, Consider, Reads
<1>5. ASSUME NEW s \in Stops, LockUsage(s)
      PROVE  Apart'
  BY <1>5 DEF LockUsage, UsageLock!Acquire
<1>6. ASSUME NEW s \in Stops, UsageTimeout(s)
      PROVE  Apart'
  BY <1>6 DEF UsageTimeout
<1>7. ASSUME NEW s \in Stops, ClaimedMessageIds(s)
      PROVE  Apart'
  BY <1>7 DEF ClaimedMessageIds, Reads
<1>8. ASSUME NEW s \in Stops, ReadTranscript(s)
      PROVE  Apart'
  BY <1>8 DEF ReadTranscript
<1>9. ASSUME NEW s \in Stops, ClaimUsage(s)
      PROVE  Apart'
  BY <1>9 DEF ClaimUsage
<1>10. ASSUME NEW s \in Stops, ReleaseUsage(s)
      PROVE  Apart'
  BY <1>10 DEF ReleaseUsage, UsageLock!Release
<1>11. ASSUME NEW s \in Stops, Recollect(s)
      PROVE  Apart'
  BY <1>11 DEF Recollect, Reads, FilterTurn
<1>12. ASSUME NEW s \in Stops, NEW r \in Records, RemoveFile(s, r)
      PROVE  Apart'
  BY <1>12 DEF RemoveFile
<1>13. ASSUME NEW s \in Stops, Removed(s)
      PROVE  Apart'
  BY <1>13 DEF Removed
<1>14. ASSUME NEW s \in Stops, ReleaseClose(s)
      PROVE  Apart'
  BY <1>14 DEF ReleaseClose, CloseLock!Release
<1>15. ASSUME NEW s \in Stops, Deliver(s)
      PROVE  Apart'
  BY <1>15 DEF Deliver
<1>16. ASSUME NEW s \in Stops, CloseThrows(s)
      PROVE  Apart'
  BY <1>16 DEF CloseThrows, Forget
<1>17. ASSUME NEW s \in Stops, Crash(s)
      PROVE  Apart'
  BY <1>17 DEF Crash, Forget
<1>18. ASSUME NEW turn \in Turns, BreakClose(turn)
      PROVE  Apart'
  BY <1>18 DEF BreakClose
<1>19. CASE BreakUsage
  BY <1>19 DEF BreakUsage
<1>20. CASE SessionEnd \/ SweepRemove
  BY <1>20 DEF SessionEnd, SweepRemove, Wipe
<1>21. CASE TtlPasses \/ SweepStat
  BY <1>21 DEF TtlPasses, SweepStat
<1>22. CASE UNCHANGED vars
  BY <1>22 DEF vars
<1> QED BY <1>1, <1>2, <1>3, <1>4, <1>5, <1>6, <1>7, <1>8, <1>9, <1>10, <1>11, <1>12, <1>13, <1>14,
           <1>15, <1>16, <1>17, <1>18, <1>19, <1>20, <1>21, <1>22 DEF Next, Close

(* Who acts is of the session, holds records of its turn, and counts after *)
(* it has read.                                                            *)
Member ==
    /\ session \in Sessions /\ ever \subseteq session.records
    /\ \A s \in Stops :
        /\ pc[s] # "waiting" => s \in session.stops
        /\ mine[s] \subseteq FilterTurn(ever, s.turn)
        /\ counted[s] # {} => pc[s] \in {"claim", "unlock", "recollect", "remove", "release", "deliver", "done"}

(* A close that threw counts nothing.                                      *)
Degraded ==
    /\ degraded \in [Stops -> BOOLEAN]
    /\ \A s \in Stops : degraded[s] = TRUE => counted[s] = {} /\ pc[s] \in {"unlock", "release", "deliver", "done"}

(* A Stop that may count still has its turn's prompt on disk; one that has *)
(* counted took it.                                                        *)
PromptOf(turn, records) == \E r \in records : r.kind = "prompt" /\ r.turn = turn

Prompted(s) ==
    s.turn # NoTurn =>
        /\ \/ pc[s] \in {"usage", "claims", "read", "claim"}
           \/ pc[s] \in {"unlock", "recollect"} /\ counted[s] # {}
           => PromptOf(s.turn, stored)
        /\ pc[s] \in {"remove", "release", "deliver", "done"} /\ counted[s] # {} /\ s \notin misread
           => PromptOf(s.turn, mine[s])

(* What a Stop found claimed is all that is claimed, as long as it has the *)
(* lock.                                                                   *)
Unclaimed(s) ==
    /\ pc[s] = "read" /\ s \notin misread => Claimed \subseteq claimed[s]
    /\ pc[s] = "claim" /\ s \notin misread => counted[s] \intersect Claimed = {}

(* A Stop that has counted and is past its claim; its claim's file is its  *)
(* own.                                                                    *)
Holds(s) == counted[s] # {} /\ pc[s] # "claim"
ClaimStands(s) == Holds(s) /\ s \notin misread => counted[s] \subseteq claims[s]
CountedApart ==
    \A s, q \in Stops \ misread : s # q /\ Holds(s) /\ Holds(q) => counted[s] \intersect counted[q] = {}

(* What is intact after a step was intact before it.                       *)
LEMMA IntactBefore ==
    ASSUME [Next]_vars, Intact'
    PROVE  Intact
<1> USE DEF Intact, OnePromptATurn, locks
<1>1. CASE (\E turn \in Turns : BreakClose(turn)) \/ BreakUsage
  BY <1>1 DEF BreakClose, BreakUsage
<1>2. CASE SessionEnd \/ SweepRemove
  BY <1>2 DEF SessionEnd, SweepRemove, Wipe
<1>3. ASSUME NEW s \in Stops, Close(s) \/ CloseThrows(s) \/ Crash(s)
      PROVE  Intact
  BY <1>3 DEF Close, Stop, Fires, CloseLock!Acquire, Collect, Reads, LockUsage, UsageLock!Acquire, UsageTimeout, ClaimedMessageIds,
     ReadTranscript, ClaimUsage, ReleaseUsage, UsageLock!Release, Recollect, RemoveFile, Removed, ReleaseClose,
     CloseLock!Release, Deliver, CloseThrows, Crash
<1>4. CASE (\E r \in Records : Append(r)) \/ (\E m \in Messages : Flush(m)) \/ TtlPasses \/ SweepStat
  BY <1>4 DEF Append, Flush, TtlPasses, SweepStat
<1>5. CASE UNCHANGED vars
  BY <1>5 DEF vars
<1> QED BY <1>1, <1>2, <1>3, <1>4, <1>5 DEF Next

(* Membership is kept.                                                     *)
LEMMA MemberNext ==
    ASSUME Shape, Hands, Member, [Next]_vars
    PROVE  Member'
<1> USE DEF Shape, Hands, Member, FilterTurn, Goto, Labels, InClose, InUsage, store, locks, memory
<1>1. ASSUME NEW r \in Records, Append(r)
      PROVE  Member'
  BY <1>1 DEF Append
<1>2. ASSUME NEW m \in Messages, Flush(m)
      PROVE  Member'
  BY <1>2 DEF Flush
<1>3. ASSUME NEW s \in Stops, Stop(s)
      PROVE  Member'
  BY <1>3 DEF Stop, Fires, CloseLock!Acquire
<1>4. ASSUME NEW s \in Stops, Collect(s)
      PROVE  Member'
  BY <1>4 DEF Collect, Consider, Reads
<1>5. ASSUME NEW s \in Stops, LockUsage(s)
      PROVE  Member'
  BY <1>5 DEF LockUsage, UsageLock!Acquire
<1>6. ASSUME NEW s \in Stops, UsageTimeout(s)
      PROVE  Member'
  BY <1>6 DEF UsageTimeout
<1>7. ASSUME NEW s \in Stops, ClaimedMessageIds(s)
      PROVE  Member'
  BY <1>7 DEF ClaimedMessageIds, Reads
<1>8. ASSUME NEW s \in Stops, ReadTranscript(s)
      PROVE  Member'
  BY <1>8 DEF ReadTranscript
<1>9. ASSUME NEW s \in Stops, ClaimUsage(s)
      PROVE  Member'
  BY <1>9 DEF ClaimUsage
<1>10. ASSUME NEW s \in Stops, ReleaseUsage(s)
      PROVE  Member'
  BY <1>10 DEF ReleaseUsage, UsageLock!Release
<1>11. ASSUME NEW s \in Stops, Recollect(s)
      PROVE  Member'
  BY <1>11 DEF Recollect, Reads
<1>12. ASSUME NEW s \in Stops, NEW r \in Records, RemoveFile(s, r)
      PROVE  Member'
  BY <1>12 DEF RemoveFile
<1>13. ASSUME NEW s \in Stops, Removed(s)
      PROVE  Member'
  BY <1>13 DEF Removed
<1>14. ASSUME NEW s \in Stops, ReleaseClose(s)
      PROVE  Member'
  BY <1>14 DEF ReleaseClose, CloseLock!Release
<1>15. ASSUME NEW s \in Stops, Deliver(s)
      PROVE  Member'
  BY <1>15 DEF Deliver
<1>16. ASSUME NEW s \in Stops, CloseThrows(s)
      PROVE  Member'
  BY <1>16 DEF CloseThrows, Forget
<1>17. ASSUME NEW s \in Stops, Crash(s)
      PROVE  Member'
  BY <1>17 DEF Crash, Forget
<1>18. ASSUME NEW turn \in Turns, BreakClose(turn)
      PROVE  Member'
  BY <1>18 DEF BreakClose
<1>19. CASE BreakUsage
  BY <1>19 DEF BreakUsage
<1>20. CASE SessionEnd \/ SweepRemove
  BY <1>20 DEF SessionEnd, SweepRemove, Wipe
<1>21. CASE TtlPasses \/ SweepStat
  BY <1>21 DEF TtlPasses, SweepStat
<1>22. CASE UNCHANGED vars
  BY <1>22 DEF vars
<1> QED BY <1>1, <1>2, <1>3, <1>4, <1>5, <1>6, <1>7, <1>8, <1>9, <1>10, <1>11, <1>12, <1>13, <1>14,
           <1>15, <1>16, <1>17, <1>18, <1>19, <1>20, <1>21, <1>22 DEF Next, Close

(* A close that threw stays without usage.                                 *)
LEMMA DegradedNext ==
    ASSUME Shape, Degraded, [Next]_vars
    PROVE  Degraded'
<1> USE DEF Shape, Degraded, Goto, Labels, InClose, InUsage, store, locks, memory
<1>1. ASSUME NEW r \in Records, Append(r)
      PROVE  Degraded'
  BY <1>1 DEF Append
<1>2. ASSUME NEW m \in Messages, Flush(m)
      PROVE  Degraded'
  BY <1>2 DEF Flush
<1>3. ASSUME NEW s \in Stops, Stop(s)
      PROVE  Degraded'
  BY <1>3 DEF Stop, Fires, CloseLock!Acquire
<1>4. ASSUME NEW s \in Stops, Collect(s)
      PROVE  Degraded'
  BY <1>4 DEF Collect, Consider, Reads
<1>5. ASSUME NEW s \in Stops, LockUsage(s)
      PROVE  Degraded'
  BY <1>5 DEF LockUsage, UsageLock!Acquire
<1>6. ASSUME NEW s \in Stops, UsageTimeout(s)
      PROVE  Degraded'
  BY <1>6 DEF UsageTimeout
<1>7. ASSUME NEW s \in Stops, ClaimedMessageIds(s)
      PROVE  Degraded'
  BY <1>7 DEF ClaimedMessageIds, Reads
<1>8. ASSUME NEW s \in Stops, ReadTranscript(s)
      PROVE  Degraded'
  BY <1>8 DEF ReadTranscript
<1>9. ASSUME NEW s \in Stops, ClaimUsage(s)
      PROVE  Degraded'
  BY <1>9 DEF ClaimUsage
<1>10. ASSUME NEW s \in Stops, ReleaseUsage(s)
      PROVE  Degraded'
  BY <1>10 DEF ReleaseUsage, UsageLock!Release
<1>11. ASSUME NEW s \in Stops, Recollect(s)
      PROVE  Degraded'
  BY <1>11 DEF Recollect, Reads
<1>12. ASSUME NEW s \in Stops, NEW r \in Records, RemoveFile(s, r)
      PROVE  Degraded'
  BY <1>12 DEF RemoveFile
<1>13. ASSUME NEW s \in Stops, Removed(s)
      PROVE  Degraded'
  BY <1>13 DEF Removed
<1>14. ASSUME NEW s \in Stops, ReleaseClose(s)
      PROVE  Degraded'
  BY <1>14 DEF ReleaseClose, CloseLock!Release
<1>15. ASSUME NEW s \in Stops, Deliver(s)
      PROVE  Degraded'
  BY <1>15 DEF Deliver
<1>16. ASSUME NEW s \in Stops, CloseThrows(s)
      PROVE  Degraded'
  BY <1>16 DEF CloseThrows, Forget
<1>17. ASSUME NEW s \in Stops, Crash(s)
      PROVE  Degraded'
  BY <1>17 DEF Crash, Forget
<1>18. ASSUME NEW turn \in Turns, BreakClose(turn)
      PROVE  Degraded'
  BY <1>18 DEF BreakClose
<1>19. CASE BreakUsage
  BY <1>19 DEF BreakUsage
<1>20. CASE SessionEnd \/ SweepRemove
  BY <1>20 DEF SessionEnd, SweepRemove, Wipe
<1>21. CASE TtlPasses \/ SweepStat
  BY <1>21 DEF TtlPasses, SweepStat
<1>22. CASE UNCHANGED vars
  BY <1>22 DEF vars
<1> QED BY <1>1, <1>2, <1>3, <1>4, <1>5, <1>6, <1>7, <1>8, <1>9, <1>10, <1>11, <1>12, <1>13, <1>14,
           <1>15, <1>16, <1>17, <1>18, <1>19, <1>20, <1>21, <1>22 DEF Next, Close

(* Only a Stop of the same turn removes the turn's prompt, and the close   *)
(* lock keeps it out.                                                      *)
LEMMA PromptedNext ==
    ASSUME Degraded, Shape, Hands, CloseExclusive, Member, Intact, NEW s0 \in Stops, Prompted(s0),
           [Next]_vars, Intact'
    PROVE  Prompted(s0)'
<1> USE DEF Shape, Hands, Degraded, CloseExclusive, Member, Prompted, PromptOf, OnePromptATurn, Intact,
            Goto, Labels, InClose, InUsage, store, locks, memory
<1>1. ASSUME NEW r \in Records, Append(r)
      PROVE  Prompted(s0)'
  BY <1>1 DEF Append
<1>2. ASSUME NEW m \in Messages, Flush(m)
      PROVE  Prompted(s0)'
  BY <1>2 DEF Flush
<1>3. ASSUME NEW s \in Stops, Stop(s)
      PROVE  Prompted(s0)'
  BY <1>3 DEF Stop, Fires, CloseLock!Acquire
<1>4. ASSUME NEW s \in Stops, Collect(s)
      PROVE  Prompted(s0)'
  BY <1>4 DEF Collect, Consider, Reads, PromptTimes, FilterTurn
<1>5. ASSUME NEW s \in Stops, LockUsage(s)
      PROVE  Prompted(s0)'
  BY <1>5 DEF LockUsage, UsageLock!Acquire
<1>6. ASSUME NEW s \in Stops, UsageTimeout(s)
      PROVE  Prompted(s0)'
  BY <1>6 DEF UsageTimeout
<1>7. ASSUME NEW s \in Stops, ClaimedMessageIds(s)
      PROVE  Prompted(s0)'
  BY <1>7 DEF ClaimedMessageIds, Reads
<1>8. ASSUME NEW s \in Stops, ReadTranscript(s)
      PROVE  Prompted(s0)'
  BY <1>8 DEF ReadTranscript
<1>9. ASSUME NEW s \in Stops, ClaimUsage(s)
      PROVE  Prompted(s0)'
  BY <1>9 DEF ClaimUsage
<1>10. ASSUME NEW s \in Stops, ReleaseUsage(s)
      PROVE  Prompted(s0)'
  BY <1>10 DEF ReleaseUsage, UsageLock!Release
<1>11. ASSUME NEW s \in Stops, Recollect(s)
      PROVE  Prompted(s0)'
  BY <1>11 DEF Recollect, Reads, FilterTurn
<1>12. ASSUME NEW s \in Stops, NEW r \in Records, RemoveFile(s, r)
      PROVE  Prompted(s0)'
  BY <1>12 DEF RemoveFile, FilterTurn
<1>13. ASSUME NEW s \in Stops, Removed(s)
      PROVE  Prompted(s0)'
  BY <1>13 DEF Removed
<1>14. ASSUME NEW s \in Stops, ReleaseClose(s)
      PROVE  Prompted(s0)'
  BY <1>14 DEF ReleaseClose, CloseLock!Release
<1>15. ASSUME NEW s \in Stops, Deliver(s)
      PROVE  Prompted(s0)'
  BY <1>15 DEF Deliver
<1>16. ASSUME NEW s \in Stops, CloseThrows(s)
      PROVE  Prompted(s0)'
  BY <1>16 DEF CloseThrows, Forget
<1>17. ASSUME NEW s \in Stops, Crash(s)
      PROVE  Prompted(s0)'
  BY <1>17 DEF Crash, Forget
<1>18. ASSUME NEW turn \in Turns, BreakClose(turn)
      PROVE  Prompted(s0)'
  BY <1>18 DEF BreakClose
<1>19. CASE BreakUsage
  BY <1>19 DEF BreakUsage
<1>20. CASE SessionEnd \/ SweepRemove
  BY <1>20 DEF SessionEnd, SweepRemove, Wipe
<1>21. CASE TtlPasses \/ SweepStat
  BY <1>21 DEF TtlPasses, SweepStat
<1>22. CASE UNCHANGED vars
  BY <1>22 DEF vars
<1> QED BY <1>1, <1>2, <1>3, <1>4, <1>5, <1>6, <1>7, <1>8, <1>9, <1>10, <1>11, <1>12, <1>13, <1>14,
           <1>15, <1>16, <1>17, <1>18, <1>19, <1>20, <1>21, <1>22 DEF Next, Close

(* Nobody else claims while a Stop has the usage lock.                     *)
LEMMA UnclaimedNext ==
    ASSUME Shape, UsageExclusive, Intact, NEW s0 \in Stops, Unclaimed(s0), [Next]_vars, Intact'
    PROVE  Unclaimed(s0)'
<1> USE DEF Shape, UsageExclusive, Unclaimed, Claimed, Intact, Goto, Labels, InClose, InUsage, store,
            locks, memory
<1>1. ASSUME NEW r \in Records, Append(r)
      PROVE  Unclaimed(s0)'
  BY <1>1 DEF Append
<1>2. ASSUME NEW m \in Messages, Flush(m)
      PROVE  Unclaimed(s0)'
  BY <1>2 DEF Flush
<1>3. ASSUME NEW s \in Stops, Stop(s)
      PROVE  Unclaimed(s0)'
  BY <1>3 DEF Stop, Fires, CloseLock!Acquire
<1>4. ASSUME NEW s \in Stops, Collect(s)
      PROVE  Unclaimed(s0)'
  BY <1>4 DEF Collect, Consider, Reads
<1>5. ASSUME NEW s \in Stops, LockUsage(s)
      PROVE  Unclaimed(s0)'
  BY <1>5 DEF LockUsage, UsageLock!Acquire
<1>6. ASSUME NEW s \in Stops, UsageTimeout(s)
      PROVE  Unclaimed(s0)'
  BY <1>6 DEF UsageTimeout
<1>7. ASSUME NEW s \in Stops, ClaimedMessageIds(s)
      PROVE  Unclaimed(s0)'
  BY <1>7 DEF ClaimedMessageIds, Reads
<1>8. ASSUME NEW s \in Stops, ReadTranscript(s)
      PROVE  Unclaimed(s0)'
  BY <1>8 DEF ReadTranscript, ReadOnce, AssistantUsage
<1>9. ASSUME NEW s \in Stops, ClaimUsage(s)
      PROVE  Unclaimed(s0)'
  BY <1>9 DEF ClaimUsage
<1>10. ASSUME NEW s \in Stops, ReleaseUsage(s)
      PROVE  Unclaimed(s0)'
  BY <1>10 DEF ReleaseUsage, UsageLock!Release
<1>11. ASSUME NEW s \in Stops, Recollect(s)
      PROVE  Unclaimed(s0)'
  BY <1>11 DEF Recollect, Reads
<1>12. ASSUME NEW s \in Stops, NEW r \in Records, RemoveFile(s, r)
      PROVE  Unclaimed(s0)'
  BY <1>12 DEF RemoveFile
<1>13. ASSUME NEW s \in Stops, Removed(s)
      PROVE  Unclaimed(s0)'
  BY <1>13 DEF Removed
<1>14. ASSUME NEW s \in Stops, ReleaseClose(s)
      PROVE  Unclaimed(s0)'
  BY <1>14 DEF ReleaseClose, CloseLock!Release
<1>15. ASSUME NEW s \in Stops, Deliver(s)
      PROVE  Unclaimed(s0)'
  BY <1>15 DEF Deliver
<1>16. ASSUME NEW s \in Stops, CloseThrows(s)
      PROVE  Unclaimed(s0)'
  BY <1>16 DEF CloseThrows, Forget
<1>17. ASSUME NEW s \in Stops, Crash(s)
      PROVE  Unclaimed(s0)'
  BY <1>17 DEF Crash, Forget
<1>18. ASSUME NEW turn \in Turns, BreakClose(turn)
      PROVE  Unclaimed(s0)'
  BY <1>18 DEF BreakClose
<1>19. CASE BreakUsage
  BY <1>19 DEF BreakUsage
<1>20. CASE SessionEnd \/ SweepRemove
  BY <1>20 DEF SessionEnd, SweepRemove, Wipe
<1>21. CASE TtlPasses \/ SweepStat
  BY <1>21 DEF TtlPasses, SweepStat
<1>22. CASE UNCHANGED vars
  BY <1>22 DEF vars
<1> QED BY <1>1, <1>2, <1>3, <1>4, <1>5, <1>6, <1>7, <1>8, <1>9, <1>10, <1>11, <1>12, <1>13, <1>14,
           <1>15, <1>16, <1>17, <1>18, <1>19, <1>20, <1>21, <1>22 DEF Next, Close

(* No claim that stands is written over: its Stop took the turn's only     *)
(* prompt with it.                                                         *)
LEMMA StandsNext ==
    ASSUME Shape, Hands, CloseExclusive, Member, Intact, \A s \in Stops : Prompted(s), NEW s0 \in Stops,
           ClaimStands(s0), [Next]_vars, Intact'
    PROVE  ClaimStands(s0)'
<1> USE DEF Shape, Hands, Member, ClaimStands, Holds, Intact, Goto, Labels, InClose, InUsage, store,
            locks, memory
<1>1. ASSUME NEW r \in Records, Append(r)
      PROVE  ClaimStands(s0)'
  BY <1>1 DEF Append
<1>2. ASSUME NEW m \in Messages, Flush(m)
      PROVE  ClaimStands(s0)'
  BY <1>2 DEF Flush
<1>3. ASSUME NEW s \in Stops, Stop(s)
      PROVE  ClaimStands(s0)'
  BY <1>3 DEF Stop, Fires, CloseLock!Acquire
<1>4. ASSUME NEW s \in Stops, Collect(s)
      PROVE  ClaimStands(s0)'
  BY <1>4 DEF Collect, Consider, Reads
<1>5. ASSUME NEW s \in Stops, LockUsage(s)
      PROVE  ClaimStands(s0)'
  BY <1>5 DEF LockUsage, UsageLock!Acquire
<1>6. ASSUME NEW s \in Stops, UsageTimeout(s)
      PROVE  ClaimStands(s0)'
  BY <1>6 DEF UsageTimeout
<1>7. ASSUME NEW s \in Stops, ClaimedMessageIds(s)
      PROVE  ClaimStands(s0)'
  BY <1>7 DEF ClaimedMessageIds, Reads
<1>8. ASSUME NEW s \in Stops, ReadTranscript(s)
      PROVE  ClaimStands(s0)'
  BY <1>8 DEF ReadTranscript
<1>9. ASSUME NEW s \in Stops, ClaimUsage(s)
      PROVE  ClaimStands(s0)'
  BY <1>9 DEF ClaimUsage, CloseExclusive, SameClaimFile, Prompted, PromptOf, OnePromptATurn
<1>10. ASSUME NEW s \in Stops, ReleaseUsage(s)
      PROVE  ClaimStands(s0)'
  BY <1>10 DEF ReleaseUsage, UsageLock!Release
<1>11. ASSUME NEW s \in Stops, Recollect(s)
      PROVE  ClaimStands(s0)'
  BY <1>11 DEF Recollect, Reads
<1>12. ASSUME NEW s \in Stops, NEW r \in Records, RemoveFile(s, r)
      PROVE  ClaimStands(s0)'
  BY <1>12 DEF RemoveFile
<1>13. ASSUME NEW s \in Stops, Removed(s)
      PROVE  ClaimStands(s0)'
  BY <1>13 DEF Removed
<1>14. ASSUME NEW s \in Stops, ReleaseClose(s)
      PROVE  ClaimStands(s0)'
  BY <1>14 DEF ReleaseClose, CloseLock!Release
<1>15. ASSUME NEW s \in Stops, Deliver(s)
      PROVE  ClaimStands(s0)'
  BY <1>15 DEF Deliver
<1>16. ASSUME NEW s \in Stops, CloseThrows(s)
      PROVE  ClaimStands(s0)'
  BY <1>16 DEF CloseThrows, Forget
<1>17. ASSUME NEW s \in Stops, Crash(s)
      PROVE  ClaimStands(s0)'
  BY <1>17 DEF Crash, Forget
<1>18. ASSUME NEW turn \in Turns, BreakClose(turn)
      PROVE  ClaimStands(s0)'
  BY <1>18 DEF BreakClose
<1>19. CASE BreakUsage
  BY <1>19 DEF BreakUsage
<1>20. CASE SessionEnd \/ SweepRemove
  BY <1>20 DEF SessionEnd, SweepRemove, Wipe
<1>21. CASE TtlPasses \/ SweepStat
  BY <1>21 DEF TtlPasses, SweepStat
<1>22. CASE UNCHANGED vars
  BY <1>22 DEF vars
<1> QED BY <1>1, <1>2, <1>3, <1>4, <1>5, <1>6, <1>7, <1>8, <1>9, <1>10, <1>11, <1>12, <1>13, <1>14,
           <1>15, <1>16, <1>17, <1>18, <1>19, <1>20, <1>21, <1>22 DEF Next, Close

(* A claim is apart from every claim that stands.                          *)
LEMMA CountedNext ==
    ASSUME Shape, Member, Intact, \A s \in Stops : Unclaimed(s) /\ ClaimStands(s), CountedApart,
           [Next]_vars, Intact'
    PROVE  CountedApart'
<1> USE DEF Shape, Member, CountedApart, Holds, Intact, Goto, Labels, InClose, InUsage, store, locks, memory
<1>1. ASSUME NEW r \in Records, Append(r)
      PROVE  CountedApart'
  BY <1>1 DEF Append
<1>2. ASSUME NEW m \in Messages, Flush(m)
      PROVE  CountedApart'
  BY <1>2 DEF Flush
<1>3. ASSUME NEW s \in Stops, Stop(s)
      PROVE  CountedApart'
  BY <1>3 DEF Stop, Fires, CloseLock!Acquire
<1>4. ASSUME NEW s \in Stops, Collect(s)
      PROVE  CountedApart'
  BY <1>4 DEF Collect, Consider, Reads
<1>5. ASSUME NEW s \in Stops, LockUsage(s)
      PROVE  CountedApart'
  BY <1>5 DEF LockUsage, UsageLock!Acquire
<1>6. ASSUME NEW s \in Stops, UsageTimeout(s)
      PROVE  CountedApart'
  BY <1>6 DEF UsageTimeout
<1>7. ASSUME NEW s \in Stops, ClaimedMessageIds(s)
      PROVE  CountedApart'
  BY <1>7 DEF ClaimedMessageIds, Reads
<1>8. ASSUME NEW s \in Stops, ReadTranscript(s)
      PROVE  CountedApart'
  BY <1>8 DEF ReadTranscript
<1>9. ASSUME NEW s \in Stops, ClaimUsage(s)
      PROVE  CountedApart'
  BY <1>9 DEF ClaimUsage, Unclaimed, ClaimStands, Claimed
<1>10. ASSUME NEW s \in Stops, ReleaseUsage(s)
      PROVE  CountedApart'
  BY <1>10 DEF ReleaseUsage, UsageLock!Release
<1>11. ASSUME NEW s \in Stops, Recollect(s)
      PROVE  CountedApart'
  BY <1>11 DEF Recollect, Reads
<1>12. ASSUME NEW s \in Stops, NEW r \in Records, RemoveFile(s, r)
      PROVE  CountedApart'
  BY <1>12 DEF RemoveFile
<1>13. ASSUME NEW s \in Stops, Removed(s)
      PROVE  CountedApart'
  BY <1>13 DEF Removed
<1>14. ASSUME NEW s \in Stops, ReleaseClose(s)
      PROVE  CountedApart'
  BY <1>14 DEF ReleaseClose, CloseLock!Release
<1>15. ASSUME NEW s \in Stops, Deliver(s)
      PROVE  CountedApart'
  BY <1>15 DEF Deliver
<1>16. ASSUME NEW s \in Stops, CloseThrows(s)
      PROVE  CountedApart'
  BY <1>16 DEF CloseThrows, Forget
<1>17. ASSUME NEW s \in Stops, Crash(s)
      PROVE  CountedApart'
  BY <1>17 DEF Crash, Forget
<1>18. ASSUME NEW turn \in Turns, BreakClose(turn)
      PROVE  CountedApart'
  BY <1>18 DEF BreakClose
<1>19. CASE BreakUsage
  BY <1>19 DEF BreakUsage
<1>20. CASE SessionEnd \/ SweepRemove
  BY <1>20 DEF SessionEnd, SweepRemove, Wipe
<1>21. CASE TtlPasses \/ SweepStat
  BY <1>21 DEF TtlPasses, SweepStat
<1>22. CASE UNCHANGED vars
  BY <1>22 DEF vars
<1> QED BY <1>1, <1>2, <1>3, <1>4, <1>5, <1>6, <1>7, <1>8, <1>9, <1>10, <1>11, <1>12, <1>13, <1>14,
           <1>15, <1>16, <1>17, <1>18, <1>19, <1>20, <1>21, <1>22 DEF Next, Close
-----------------------------------------------------------------------------
(* The two flags that Intact speaks of are Booleans.                       *)
Flagged == usageBroken \in BOOLEAN /\ wiped \in BOOLEAN

LEMMA FlaggedNext ==
    ASSUME Flagged, [Next]_vars
    PROVE  Flagged'
<1> USE DEF Flagged, locks
<1>1. CASE BreakUsage \/ SessionEnd \/ SweepRemove
  BY <1>1 DEF BreakUsage, SessionEnd, SweepRemove, Wipe
<1>2. ASSUME NEW s \in Stops, Close(s) \/ CloseThrows(s) \/ Crash(s)
      PROVE  Flagged'
  BY <1>2 DEF Close, Stop, Fires, CloseLock!Acquire, Collect, Reads, LockUsage, UsageLock!Acquire, UsageTimeout, ClaimedMessageIds,
     ReadTranscript, ClaimUsage, ReleaseUsage, UsageLock!Release, Recollect, RemoveFile, Removed, ReleaseClose,
     CloseLock!Release, Deliver, CloseThrows, Crash
<1>3. CASE (\E r \in Records : Append(r)) \/ (\E m \in Messages : Flush(m)) \/ (\E turn \in Turns : BreakClose(turn))
  BY <1>3 DEF Append, Flush, BreakClose
<1>4. CASE TtlPasses \/ SweepStat \/ UNCHANGED vars
  BY <1>4 DEF TtlPasses, SweepStat, vars
<1> QED BY <1>1, <1>2, <1>3, <1>4 DEF Next

RecordInv == Shape /\ Hands /\ Kept /\ CloseExclusive /\ Apart

Accounted == CountedApart /\ \A s \in Stops : Prompted(s) /\ Unclaimed(s) /\ ClaimStands(s)
UsageInv == Flagged /\ UsageExclusive /\ Member /\ Degraded /\ (Intact => Accounted)

(* The records part holds throughout.                                      *)
LEMMA RecordInvariance == Spec => []RecordInv
<1>1. Init => RecordInv
  BY ShapeInit DEF Init, RecordInv, Hands, Kept, CloseExclusive, Apart, InClose, InUsage
<1>2. RecordInv /\ [Next]_vars => RecordInv'
  BY ShapeNext, HandsNext, KeptNext, CloseNext, ApartNext DEF RecordInv
<1> QED BY <1>1, <1>2, PTL DEF Spec

(* The usage part holds beside it.                                         *)
LEMMA UsageInvariance == Spec => []UsageInv
<1>1. Init => UsageInv
  <2> SUFFICES ASSUME Init PROVE UsageInv
    OBVIOUS
  <2>1. Flagged /\ UsageExclusive /\ Member /\ Degraded
    BY DEF Init, Flagged, UsageExclusive, Member, Degraded, InUsage
  <2>2. Accounted
    BY DEF Init, Accounted, CountedApart, Prompted, Unclaimed, ClaimStands, Holds, Claimed
  <2> QED BY <2>1, <2>2 DEF UsageInv
<1>2. RecordInv /\ UsageInv /\ [Next]_vars => UsageInv'
  <2> SUFFICES ASSUME RecordInv, UsageInv, [Next]_vars PROVE UsageInv'
    OBVIOUS
  <2> USE DEF RecordInv, UsageInv
  <2>1. Flagged' /\ UsageExclusive'
    BY FlaggedNext, UsageNext
  <2>2. Member'
    BY MemberNext
  <2>3. Degraded'
    BY DegradedNext
  <2>4. ASSUME Intact' PROVE Accounted'
    <3>1. Intact /\ Accounted
      BY <2>4, IntactBefore
    <3>2. CountedApart'
      BY <2>4, <3>1, CountedNext DEF Accounted
    <3>3. ASSUME NEW s \in Stops PROVE Prompted(s)'
      BY <2>4, <3>1, PromptedNext DEF Accounted
    <3>4. ASSUME NEW s \in Stops PROVE Unclaimed(s)'
      BY <2>4, <3>1, UnclaimedNext DEF Accounted
    <3>5. ASSUME NEW s \in Stops PROVE ClaimStands(s)'
      BY <2>4, <3>1, StandsNext DEF Accounted
    <3> QED BY <3>2, <3>3, <3>4, <3>5 DEF Accounted
  <2> QED BY <2>1, <2>2, <2>3, <2>4
<1> QED BY <1>1, <1>2, RecordInvariance, PTL DEF Spec

(* A close consumes exactly what it reports (closeTurn): no record leaves  *)
(* the disk but into a summary, with the directory or by a failure.        *)
THEOREM NothingIsLost == Spec => []NoRecordLost
<1>1. RecordInv => NoRecordLost
  BY DEF RecordInv, Kept, Taken, NoRecordLost, InHand
<1> QED BY <1>1, RecordInvariance, PTL

(* Two Stops that close the same turn never report the same record.        *)
THEOREM ReportedOnce == Spec => []RecordOnce
<1>1. RecordInv => RecordOnce
  BY DEF RecordInv, Shape, Apart, RecordOnce
<1> QED BY <1>1, RecordInvariance, PTL

(* A message's tokens are reported by one turn at most, whoever overlaps,  *)
(* races, is repeated or dies (resolveAndClaimUsage, claimUsage).          *)
THEOREM CountedOnce == Spec => []UsageOnce
<1>1. RecordInv /\ UsageInv => UsageOnce
  <2> SUFFICES ASSUME RecordInv, UsageInv, Intact, NEW s \in summaries \ misread, NEW q \in summaries \ misread, s # q
               PROVE  counted[s] \intersect counted[q] = {}
    BY DEF UsageOnce, CountedTwice, Intact, UsageInv, Flagged
  <2>1. s \in Stops /\ q \in Stops /\ pc[s] = "done" /\ pc[q] = "done"
    BY DEF RecordInv, Shape, Hands
  <2> QED BY <2>1 DEF UsageInv, Accounted, CountedApart, Holds
<1> QED BY <1>1, RecordInvariance, UsageInvariance, PTL

-----------------------------------------------------------------------------
(* Refinement: every step of a close is a step of TurnContract or hidden   *)
(* from it.  Hidden are the locks, the listings, and the usage a Stop has  *)
(* read and not yet claimed.                                               *)
StepInv == Shape /\ Hands /\ Apart /\ Member /\ Flagged /\ (Intact => Accounted)

LEMMA IntactKept ==
    ASSUME UNCHANGED <<session, usageBroken, wiped, closeBroken>>
    PROVE  Intact' = Intact
BY DEF Intact, OnePromptATurn

(* Hands and claims untouched, nothing changes for the contract.           *)
LEMMA HiddenStep ==
    ASSUME UNCHANGED <<ever, stored, mine, todo, summaries, gone, closeBroken, session, usageBroken, wiped, misread>>,
           Usage' = Usage
    PROVE  UNCHANGED Contract!turnVars
<1>1. Removals' = Removals
  BY DEF Removals
<1> QED BY <1>1, IntactKept DEF Contract!turnVars

(* A Stop that moves on, and neither claims nor counts.                    *)
LEMMA SameUsage ==
    ASSUME Shape, NEW s \in Stops, NEW label, pc[s] # "claim", label # "claim", Goto(s, label), UNCHANGED counted
    PROVE  Usage' = Usage
BY DEF Usage, Goto, Shape

(* The steps of a Stop that only its own labels, its locks and its         *)
(* listings see.                                                           *)
LEMMA HiddenClose ==
    ASSUME StepInv, NEW s \in Stops,
           Stop(s) \/ LockUsage(s) \/ UsageTimeout(s) \/ ReleaseUsage(s) \/ Removed(s) \/ ReleaseClose(s)
    PROVE  UNCHANGED Contract!turnVars
<1> USE DEF store, locks, memory
<1>shape. Shape
  BY DEF StepInv
<1>1. CASE Stop(s)
  <2>1. PICK label : label # "claim" /\ pc[s] # "claim" /\ Goto(s, label)
    BY <1>1 DEF Stop, Fires
  <2>2. UNCHANGED counted
    BY <1>1 DEF Stop
  <2>3. Usage' = Usage
    BY <1>shape, <2>1, <2>2, SameUsage
  <2>4. UNCHANGED <<ever, stored, mine, todo, summaries, gone, closeBroken, session, usageBroken, wiped, misread>>
    BY <1>1 DEF Stop, Fires, CloseLock!Acquire
  <2> QED BY <2>3, <2>4, HiddenStep
<1>2. CASE LockUsage(s) \/ UsageTimeout(s)
  <2>1. PICK label : label # "claim" /\ pc[s] # "claim" /\ Goto(s, label)
    BY <1>2 DEF LockUsage, UsageTimeout
  <2>2. UNCHANGED counted
    BY <1>2 DEF LockUsage, UsageTimeout
  <2>3. Usage' = Usage
    BY <1>shape, <2>1, <2>2, SameUsage
  <2>4. UNCHANGED <<ever, stored, mine, todo, summaries, gone, closeBroken, session, usageBroken, wiped, misread>>
    BY <1>2 DEF LockUsage, UsageTimeout, UsageLock!Acquire
  <2> QED BY <2>3, <2>4, HiddenStep
<1>3. CASE ReleaseUsage(s) \/ Removed(s) \/ ReleaseClose(s)
  <2>1. PICK label : label # "claim" /\ pc[s] # "claim" /\ Goto(s, label)
    BY <1>3 DEF ReleaseUsage, Removed, ReleaseClose
  <2>2. UNCHANGED counted
    BY <1>3 DEF ReleaseUsage, Removed, ReleaseClose
  <2>3. Usage' = Usage
    BY <1>shape, <2>1, <2>2, SameUsage
  <2>4. UNCHANGED <<ever, stored, mine, todo, summaries, gone, closeBroken, session, usageBroken, wiped, misread>>
    BY <1>3 DEF ReleaseUsage, Removed, ReleaseClose, UsageLock!Release, CloseLock!Release
  <2> QED BY <2>3, <2>4, HiddenStep
<1> QED BY <1>1, <1>2, <1>3

(* A listing that passes over a file makes a Stop blind.                   *)
LEMMA ReadBlinds ==
    ASSUME StepInv, NEW s \in Stops, Collect(s) \/ ClaimedMessageIds(s) \/ Recollect(s)
    PROVE  Contract!Blind(s) \/ UNCHANGED Contract!turnVars
<1> USE DEF store, locks, memory
<1>1. Shape /\ Hands
  BY DEF StepInv
<1>2. PICK label : label # "claim" /\ pc[s] \notin {"claim", "done"} /\ Goto(s, label)
  BY DEF Collect, Consider, ClaimedMessageIds, Recollect
<1>3. UNCHANGED counted
  BY DEF Collect, ClaimedMessageIds, Recollect
<1>4. Usage' = Usage
  BY <1>1, <1>2, <1>3, SameUsage
<1>5. Removals' = Removals
  BY <1>1 DEF Collect, ClaimedMessageIds, Recollect, Removals, Shape, Hands
<1>6. Intact' = Intact
  BY IntactKept DEF Collect, ClaimedMessageIds, Recollect
<1>7. UNCHANGED <<ever, stored, summaries, gone, closeBroken>>
  BY DEF Collect, ClaimedMessageIds, Recollect
<1>8. misread' = misread \/ misread' = misread \union {s}
  BY DEF Collect, ClaimedMessageIds, Recollect, Reads
<1>9. s \in Stops \ summaries
  BY <1>1, <1>2 DEF Hands
<1> QED
  BY <1>4, <1>5, <1>6, <1>7, <1>8, <1>9 DEF Contract!Blind, Contract!turnVars

(* The removal of a file takes its record.                                 *)
LEMMA RemovalTakes ==
    ASSUME StepInv, NEW s \in Stops, NEW r \in Records, RemoveFile(s, r)
    PROVE  Contract!Take(s, r)
<1> USE DEF store, locks, memory, StepInv
<1>1. s \in Stops \ summaries
  BY DEF RemoveFile, Hands
<1>2. r \in mine[s] /\ r \in ever
  BY DEF RemoveFile, Hands
<1>3. Contract!Owns(s, r)
  <2>1. r \in FilterTurn(ever, s.turn)
    BY <1>2 DEF Member
  <2> QED BY <2>1 DEF FilterTurn, Contract!Owns
<1>4. s.turn \in closeBroken \/ \A q \in Stops : q # s /\ q.turn = s.turn => r \notin Removals[q]
  BY <1>2 DEF Apart, Removals
<1>5. Removals' = [Removals EXCEPT ![s] = @ \union {r}]
  BY <1>2 DEF RemoveFile, Removals, Shape
<1>6. Usage' = Usage
  BY DEF RemoveFile, Usage
<1>7. Intact' = Intact
  BY IntactKept DEF RemoveFile
<1>8. stored' = stored \ {r} /\ UNCHANGED <<ever, summaries, gone, closeBroken, misread>>
  BY DEF RemoveFile
<1>9. r \notin Removals[s]
  BY DEF RemoveFile, Removals
<1> QED BY <1>1, <1>2, <1>3, <1>4, <1>5, <1>6, <1>7, <1>8, <1>9 DEF Contract!Take

(* The claim counts: while everything is intact, what another Stop has     *)
(* counted stands in a claim file, and none of that is counted here.       *)
LEMMA ClaimCounts ==
    ASSUME StepInv, NEW s \in Stops, ClaimUsage(s)
    PROVE  Contract!Count(s, counted[s])
<1> USE DEF store, locks, memory, StepInv
<1>1. s \in Stops \ summaries /\ Usage[s] = {}
  BY DEF ClaimUsage, Hands, Usage
<1>2. ASSUME Intact, s \notin misread, NEW q \in Stops \ misread
      PROVE  Usage[q] \intersect counted[s] = {}
  <2>1. counted[s] \intersect Claimed = {}
    BY <1>2 DEF Accounted, Unclaimed, ClaimUsage
  <2>2. CASE Holds(q)
    BY <1>2, <2>1, <2>2 DEF Accounted, ClaimStands, Claimed, Usage, Holds
  <2>3. CASE ~Holds(q)
    BY <2>3 DEF Holds, Usage
  <2> QED BY <2>2, <2>3
<1>3. Usage' = [Usage EXCEPT ![s] = counted[s]]
  BY DEF ClaimUsage, Goto, Usage, Shape
<1>4. Removals' = Removals
  BY DEF ClaimUsage, Removals
<1>5. Intact' = Intact
  BY IntactKept DEF ClaimUsage
<1>6. UNCHANGED <<ever, stored, summaries, gone, closeBroken, misread>>
  BY DEF ClaimUsage
<1> QED BY <1>1, <1>2, <1>3, <1>4, <1>5, <1>6 DEF Contract!Count

(* A close that throws or dies gives up what it holds.                     *)
LEMMA FailureLoses ==
    ASSUME StepInv, NEW s \in Stops, CloseThrows(s) \/ Crash(s)
    PROVE  Contract!Fail(s)
<1> USE DEF store, locks, memory, StepInv
<1>1. s \in Stops \ summaries
  BY DEF CloseThrows, Crash, Hands, InClose, InUsage
<1>2. Forget(s) /\ \E label : Goto(s, label) /\ label # "claim"
  BY DEF CloseThrows, Crash
<1>3. gone' = gone \union Removals[s]
  BY <1>2 DEF Forget, Removals
<1>4. Removals' = [Removals EXCEPT ![s] = {}]
  BY <1>2 DEF Forget, Removals, Shape
<1>5. Usage' = [Usage EXCEPT ![s] = {}]
  BY <1>2 DEF Forget, Goto, Usage, Shape
<1>6. Intact' = Intact
  BY IntactKept DEF CloseThrows, Crash
<1>7. UNCHANGED <<ever, stored, summaries, closeBroken, misread>>
  BY DEF CloseThrows, Crash
<1> QED BY <1>1, <1>3, <1>4, <1>5, <1>6, <1>7 DEF Contract!Fail

(* What SessionEnd and the sweep remove.                                   *)
LEMMA WipeClears ==
    ASSUME SessionEnd \/ SweepRemove
    PROVE  Contract!Clear
<1> USE DEF store, locks, memory
<1>1. stored' = {} /\ gone' = gone \union stored /\ ~Intact'
  BY DEF SessionEnd, SweepRemove, Wipe, Intact
<1>2. Removals' = Removals /\ Usage' = Usage
  BY DEF SessionEnd, SweepRemove, Removals, Usage
<1>3. UNCHANGED <<ever, summaries, closeBroken, misread>>
  BY DEF SessionEnd, SweepRemove
<1> QED BY <1>1, <1>2, <1>3 DEF Contract!Clear

(* A close lock broken under its holder excuses the turn; the usage lock   *)
(* so broken only lets messages be counted again.                          *)
LEMMA BreakExcuses ==
    ASSUME BreakUsage \/ \E turn \in Turns : BreakClose(turn)
    PROVE  [Contract!Next]_(Contract!turnVars)
<1> USE DEF store, locks, memory
<1>1. /\ Removals' = Removals /\ Usage' = Usage
      /\ UNCHANGED <<ever, stored, mine, todo, summaries, gone, session, wiped, misread>>
  BY DEF BreakUsage, BreakClose, Removals, Usage
<1>2. CASE UNCHANGED <<usageBroken, closeBroken>>
  BY <1>1, <1>2, HiddenStep
<1>3. ASSUME NEW turn \in Turns, BreakClose(turn), closeBroken' # closeBroken
      PROVE  Contract!Next
  <2>1. closeBroken' = closeBroken \union {turn} /\ ~Intact'
    BY <1>3 DEF BreakClose, Intact
  <2>2. PICK s \in Stops : s.turn = turn
    BY <1>3 DEF BreakClose, Closing
  <2>3. Contract!Excuse(s.turn)
    BY <1>1, <2>1, <2>2 DEF Contract!Excuse
  <2> QED BY <2>3 DEF Contract!Next
<1>4. ASSUME BreakUsage, usageBroken' # usageBroken
      PROVE  Contract!Next
  <2>1. closeBroken' = closeBroken /\ ~Intact'
    BY <1>4 DEF BreakUsage, Intact
  <2>2. Contract!Recount
    BY <1>1, <2>1 DEF Contract!Recount
  <2> QED BY <2>2 DEF Contract!Next
<1> QED BY <1>2, <1>3, <1>4 DEF BreakUsage, BreakClose

(* The step of the refinement.                                             *)
LEMMA StepRefines ==
    ASSUME StepInv, [Next]_vars
    PROVE  [Contract!Next]_(Contract!turnVars)
<1> USE DEF store, locks, memory
<1>1. ASSUME NEW r \in Records, Append(r)
      PROVE  Contract!Next
  <2>1. Removals' = Removals /\ Usage' = Usage
    BY <1>1 DEF Append, Removals, Usage
  <2>2. Intact' = Intact
    BY <1>1, IntactKept DEF Append
  <2>3. Contract!Record(r)
    BY <1>1, <2>1, <2>2 DEF Append, Contract!Record
  <2> QED BY <2>3 DEF Contract!Next
<1>2. CASE (\E m \in Messages : Flush(m)) \/ TtlPasses \/ SweepStat
  <2>1. /\ Usage' = Usage
        /\ UNCHANGED <<ever, stored, mine, todo, summaries, gone, closeBroken, session, usageBroken, wiped, misread>>
    BY <1>2 DEF Flush, TtlPasses, SweepStat, Usage
  <2> QED BY <2>1, HiddenStep
<1>3. ASSUME NEW s \in Stops,
             Stop(s) \/ LockUsage(s) \/ UsageTimeout(s) \/ ReleaseUsage(s) \/ Removed(s) \/ ReleaseClose(s)
      PROVE  UNCHANGED Contract!turnVars
  BY <1>3, HiddenClose
<1>4. ASSUME NEW s \in Stops, ReadTranscript(s)
      PROVE  UNCHANGED Contract!turnVars
  <2>1. counted[s] = {}
    BY <1>4 DEF StepInv, Member, ReadTranscript
  <2>2. Usage' = Usage
    BY <1>4, <2>1 DEF ReadTranscript, Goto, Usage, StepInv, Shape
  <2>3. UNCHANGED <<ever, stored, mine, todo, summaries, gone, closeBroken, session, usageBroken, wiped, misread>>
    BY <1>4 DEF ReadTranscript
  <2> QED BY <2>2, <2>3, HiddenStep
<1>5. ASSUME NEW s \in Stops, Collect(s) \/ ClaimedMessageIds(s) \/ Recollect(s)
      PROVE  [Contract!Next]_(Contract!turnVars)
  BY <1>5, ReadBlinds DEF Contract!Next
<1>6. ASSUME NEW s \in Stops, NEW r \in Records, RemoveFile(s, r)
      PROVE  Contract!Next
  BY <1>6, RemovalTakes DEF Contract!Next
<1>7. ASSUME NEW s \in Stops, ClaimUsage(s)
      PROVE  Contract!Next
  <2>1. counted[s] \in SUBSET Messages
    BY DEF StepInv, Shape
  <2> QED BY <1>7, <2>1, ClaimCounts DEF Contract!Next
<1>8. ASSUME NEW s \in Stops, Deliver(s)
      PROVE  Contract!Next
  <2>1. Removals' = Removals /\ Usage' = Usage
    BY <1>8, SameUsage DEF Deliver, Removals, StepInv
  <2>2. Intact' = Intact
    BY <1>8, IntactKept DEF Deliver
  <2>3. Contract!Report(s)
    BY <1>8, <2>1, <2>2 DEF Deliver, Contract!Report, StepInv, Hands
  <2> QED BY <2>3 DEF Contract!Next
<1>9. ASSUME NEW s \in Stops, CloseThrows(s) \/ Crash(s)
      PROVE  Contract!Next
  BY <1>9, FailureLoses DEF Contract!Next
<1>10. CASE SessionEnd \/ SweepRemove
  BY <1>10, WipeClears DEF Contract!Next
<1>11. CASE BreakUsage \/ \E turn \in Turns : BreakClose(turn)
  BY <1>11, BreakExcuses
<1>12. CASE UNCHANGED vars
  <2>1. Usage' = Usage
    BY <1>12 DEF vars, Usage
  <2> QED BY <1>12, <2>1, HiddenStep DEF vars
<1> QED BY <1>1, <1>2, <1>3, <1>4, <1>5, <1>6, <1>7, <1>8, <1>9, <1>10, <1>11, <1>12 DEF Next, Close

(* Turn closing keeps TurnContract (closeTurn, resolveAndClaimUsage), for  *)
(* any sessions: overlapping, racing, repeated and failing Stops, and the  *)
(* removal of the session's directory at any moment.                       *)
THEOREM KeepsTurnContract == Spec => RefinesTurnContract
<1>1. Init => Contract!Init
  BY DEF Init, Contract!Init, Removals, Usage, Intact
<1>2. RecordInv /\ UsageInv /\ [Next]_vars => [Contract!Next]_(Contract!turnVars)
  BY StepRefines DEF RecordInv, UsageInv, StepInv
<1> QED BY <1>1, <1>2, RecordInvariance, UsageInvariance, PTL DEF Spec, RefinesTurnContract, Contract!Spec

(* What TurnContract promises follows from its steps alone: no record is   *)
(* lost without a cause, two Stops of a turn never have one, no message's  *)
(* usage is two Stops'.                                                    *)
Promise == Contract!TypeOK /\ Contract!NothingLost /\ Contract!TakenOnce /\ Contract!UsedOnce

LEMMA PromiseNext ==
    ASSUME Promise, [Contract!Next]_(Contract!turnVars)
    PROVE  Promise'
<1> USE DEF Promise, Contract!TypeOK, Contract!NothingLost, Contract!TakenOnce, Contract!UsedOnce
<1>1. ASSUME NEW r \in Records, Contract!Record(r)
      PROVE  Promise'
  BY <1>1 DEF Contract!Record
<1>2. ASSUME NEW s \in Stops, NEW r \in Records, Contract!Take(s, r)
      PROVE  Promise'
  BY <1>2 DEF Contract!Take
<1>3. ASSUME NEW s \in Stops, NEW new \in SUBSET Messages, Contract!Count(s, new)
      PROVE  Promise'
  BY <1>3 DEF Contract!Count
<1>4. ASSUME NEW s \in Stops, Contract!Report(s)
      PROVE  Promise'
  BY <1>4 DEF Contract!Report
<1>5. ASSUME NEW s \in Stops, Contract!Fail(s)
      PROVE  Promise'
  BY <1>5 DEF Contract!Fail
<1>6. CASE Contract!Clear
  BY <1>6 DEF Contract!Clear
<1>7. ASSUME NEW s \in Stops, Contract!Excuse(s.turn)
      PROVE  Promise'
  BY <1>7 DEF Contract!Excuse
<1>8. CASE Contract!Recount \/ UNCHANGED Contract!turnVars
  BY <1>8 DEF Contract!Recount, Contract!turnVars
<1>9. ASSUME NEW s \in Stops, Contract!Blind(s)
      PROVE  Promise'
  BY <1>9 DEF Contract!Blind
<1> QED BY <1>1, <1>2, <1>3, <1>4, <1>5, <1>6, <1>7, <1>8, <1>9 DEF Contract!Next

(* TurnContract keeps its promise, and with it the code.                   *)
THEOREM PromiseKept == Spec => []Promise
<1>1. Contract!Init => Promise
  BY DEF Contract!Init, Promise, Contract!TypeOK, Contract!NothingLost, Contract!TakenOnce, Contract!UsedOnce
<1>2. Contract!Spec => []Promise
  BY <1>1, PromiseNext, PTL DEF Contract!Spec
<1> QED BY <1>2, KeepsTurnContract, PTL DEF RefinesTurnContract

-----------------------------------------------------------------------------
(* Aggregation: a call of the ledger is counted by one turn at the most,   *)
(* for every set of summaries whose ids and named turns differ.            *)
Ledger == INSTANCE Aggregation

(* Two summaries never precede each other: compareOwnership is an order.   *)
LEMMA PrecedesIsAsymmetric ==
    ASSUME NEW s, NEW o, s.id \in Nat, o.id \in Nat, s.start \in Int, o.start \in Int, s.end \in Int, o.end \in Int,
           Ledger!Precedes(s, o)
    PROVE  ~ Ledger!Precedes(o, s)
BY DEF Ledger!Precedes

(* Of two summaries with different ids one precedes the other: no call is  *)
(* left unowned because two windows are equally good.                      *)
THEOREM PrecedesIsTotal ==
    ASSUME NEW s, NEW o, s.id \in Nat, o.id \in Nat, s.start \in Int, o.start \in Int, s.end \in Int, o.end \in Int,
           s.id # o.id
    PROVE  Ledger!Precedes(s, o) \/ Ledger!Precedes(o, s)
BY DEF Ledger!Precedes

(* ... and where three are compared, the order is transitive.              *)
THEOREM PrecedesIsTransitive ==
    ASSUME NEW s, NEW o, NEW t, s.id \in Nat, o.id \in Nat, t.id \in Nat, s.start \in Int, o.start \in Int, t.start \in Int,
           s.end \in Int, o.end \in Int, t.end \in Int, Ledger!Precedes(s, o), Ledger!Precedes(o, t)
    PROVE  Ledger!Precedes(s, t)
BY DEF Ledger!Precedes

(* Two windows do not both own a call.                                     *)
LEMMA OneWindow ==
    ASSUME NEW sums, NEW c, NEW s \in sums, NEW o \in sums,
           s.id \in Nat, o.id \in Nat, s.start \in Int, o.start \in Int, s.end \in Int, o.end \in Int,
           Ledger!OwnsWindowJoin(s, c, sums), Ledger!OwnsWindowJoin(o, c, sums)
    PROVE  s.id = o.id
<1> SUFFICES ASSUME s.id # o.id PROVE FALSE
  OBVIOUS
<1>1. s \in Ledger!Pool(o, sums) /\ o \in Ledger!Pool(s, sums)
  BY DEF Ledger!Pool
<1>2. Ledger!ContainsCall(s, c.at) /\ Ledger!ContainsCall(o, c.at)
  BY DEF Ledger!OwnsWindowJoin
<1>3. Ledger!Precedes(s, o) /\ Ledger!Precedes(o, s)
  BY <1>1, <1>2 DEF Ledger!OwnsWindowJoin
<1> QED
  BY <1>3, PrecedesIsAsymmetric

(* belongsToTurn: whatever the windows, the turns' names and the call say, *)
(* no two summaries of a session count the call.                           *)
THEOREM OneOwner ==
    ASSUME NEW sums, NEW c, NEW s \in sums, NEW o \in sums,
           \A t \in sums : t.id \in Nat /\ t.start \in Int /\ t.end \in Int,
           \A t, u \in sums : t.id = u.id => t = u,
           \A t, u \in sums : t.turn = u.turn /\ t.turn # Ledger!Unnamed => t = u,
           Ledger!BelongsToTurn(s, c, sums), Ledger!BelongsToTurn(o, c, sums)
    PROVE  s = o
<1>1. CASE Ledger!OwnsWindowJoin(s, c, sums) /\ Ledger!OwnsWindowJoin(o, c, sums)
  BY <1>1, OneWindow
<1>2. CASE ~ Ledger!OwnsWindowJoin(s, c, sums) /\ ~ Ledger!OwnsWindowJoin(o, c, sums)
  BY <1>2 DEF Ledger!BelongsToTurn
<1>3. ASSUME NEW t \in sums, NEW u \in sums, Ledger!OwnsWindowJoin(t, c, sums), Ledger!BelongsToTurn(t, c, sums),
             Ledger!BelongsToTurn(u, c, sums), ~ Ledger!OwnsWindowJoin(u, c, sums)
      PROVE  FALSE
  <2>1. u.turn # Ledger!Unnamed /\ c.turn = u.turn
    BY <1>3 DEF Ledger!BelongsToTurn
  <2>2. u \in Ledger!Pool(t, sums)
    BY DEF Ledger!Pool
  <2> QED
    BY <1>3, <2>1, <2>2 DEF Ledger!OwnsWindowJoin
<1> QED
  BY <1>1, <1>2, <1>3

-----------------------------------------------------------------------------
(* Types.  Only the window of a close computes a value: it starts at the   *)
(* first prompt of the turn, which is a time, so every moment of it is.    *)

(* A set of times has a first one.                                         *)
LEMMA First ==
    ASSUME NEW T \in SUBSET Nat, T # {}
    PROVE  Min(T) \in T
<1>1. IsWellFoundedOn({ss \in Nat \X Nat : ss[1] < ss[2]}, Nat)
  BY NatLessThanWellFounded DEF OpToRel
<1>2. PICK t \in T : \A n \in T : ~(<<n, t>> \in {ss \in Nat \X Nat : ss[1] < ss[2]})
  BY <1>1, WFMin
<1>3. ASSUME NEW n \in T
      PROVE  t <= n
  <2>1. <<n, t>> \in Nat \X Nat /\ <<n, t>>[1] = n /\ <<n, t>>[2] = t
    OBVIOUS
  <2> QED
    BY <1>2, <2>1
<1> QED
  BY <1>3 DEF Min

(* A window of records and a Stop is of moments.                           *)
LEMMA WindowType ==
    ASSUME NEW all \in SUBSET Records, NEW own \in SUBSET Records, PromptTimes(own) # {}, NEW s \in Stops
    PROVE  ResolveWindow(all, own, s.at) \in SUBSET Nat
<1>1. PromptTimes(own) \in SUBSET Nat /\ PromptTimes(all \ own) \in SUBSET Nat /\ s.at \in Nat
  BY TurnAssumption DEF PromptTimes
<1>2. Min(PromptTimes(own)) \in Nat
  BY <1>1, First
<1>3. DEFINE later == {at \in PromptTimes(all \ own) : at > Min(PromptTimes(own))}
<1>4. Min(later \union {s.at}) \in Nat
  <2>1. later \union {s.at} \in SUBSET Nat /\ later \union {s.at} # {}
    BY <1>1
  <2> QED
    BY <2>1, First
<1> QED
  BY <1>2, <1>4 DEF ResolveWindow

(* What Shape leaves of TypeOK.                                            *)
Flags ==
    /\ session \in Sessions
    /\ quiet \in BOOLEAN /\ sweeping \in BOOLEAN /\ usageFile \in BOOLEAN
    /\ wiped \in BOOLEAN /\ usageBroken \in BOOLEAN
    /\ window \in [Stops -> SUBSET Nat]
    /\ degraded \in [Stops -> BOOLEAN]
    /\ gone \subseteq Records
    /\ closeBroken \subseteq Turns
    /\ misread \subseteq Stops
    /\ faults \in Nat

LEMMA FlagsNext ==
    ASSUME Shape, Flags, [Next]_vars
    PROVE  Flags'
<1> USE DEF Flags, Goto, store, locks, memory
<1>1. ASSUME NEW r \in Records, Append(r)
      PROVE  Flags'
  BY <1>1 DEF Append
<1>2. ASSUME NEW m \in Messages, Flush(m)
      PROVE  Flags'
  BY <1>2 DEF Flush
<1>3. ASSUME NEW s \in Stops, Stop(s)
      PROVE  Flags'
  BY <1>3 DEF Stop, Fires, CloseLock!Acquire
<1>4. ASSUME NEW s \in Stops, Collect(s)
      PROVE  Flags'
  <2>1. PICK seen \in SUBSET stored : Reads(s, seen, stored) /\ Consider(s, seen, FilterTurn(seen, s.turn))
    BY <1>4 DEF Collect
  <2> DEFINE own == FilterTurn(seen, s.turn)
  <2>2. own \in SUBSET Records /\ seen \in SUBSET Records
    BY DEF Shape, FilterTurn
  <2>3. ASSUME PromptTimes(own) # {}
        PROVE  ResolveWindow(seen, own, s.at) \in SUBSET Nat
    BY <2>2, <2>3, WindowType
  <2>4. window' \in [Stops -> SUBSET Nat]
    BY <2>1, <2>3 DEF Consider
  <2>5. misread' \subseteq Stops /\ faults' \in Nat
    BY <2>1 DEF Reads
  <2>6. UNCHANGED <<session, quiet, sweeping, usageFile, wiped, usageBroken, degraded, gone, closeBroken>>
    BY <1>4 DEF Collect
  <2> QED
    BY <2>4, <2>5, <2>6
<1>5. ASSUME NEW s \in Stops, LockUsage(s)
      PROVE  Flags'
  BY <1>5 DEF LockUsage, UsageLock!Acquire
<1>6. ASSUME NEW s \in Stops, UsageTimeout(s)
      PROVE  Flags'
  BY <1>6 DEF UsageTimeout
<1>7. ASSUME NEW s \in Stops, ClaimedMessageIds(s)
      PROVE  Flags'
  BY <1>7 DEF ClaimedMessageIds, Reads
<1>8. ASSUME NEW s \in Stops, ReadTranscript(s)
      PROVE  Flags'
  BY <1>8 DEF ReadTranscript
<1>9. ASSUME NEW s \in Stops, ClaimUsage(s)
      PROVE  Flags'
  BY <1>9 DEF ClaimUsage
<1>10. ASSUME NEW s \in Stops, ReleaseUsage(s)
      PROVE  Flags'
  BY <1>10 DEF ReleaseUsage, UsageLock!Release
<1>11. ASSUME NEW s \in Stops, Recollect(s)
      PROVE  Flags'
  BY <1>11 DEF Recollect, Reads
<1>12. ASSUME NEW s \in Stops, NEW r \in Records, RemoveFile(s, r)
      PROVE  Flags'
  BY <1>12 DEF RemoveFile
<1>13. ASSUME NEW s \in Stops, Removed(s)
      PROVE  Flags'
  BY <1>13 DEF Removed
<1>14. ASSUME NEW s \in Stops, ReleaseClose(s)
      PROVE  Flags'
  BY <1>14 DEF ReleaseClose, CloseLock!Release
<1>15. ASSUME NEW s \in Stops, Deliver(s)
      PROVE  Flags'
  BY <1>15 DEF Deliver
<1>16. ASSUME NEW s \in Stops, CloseThrows(s)
      PROVE  Flags'
  BY <1>16 DEF CloseThrows, Forget, Shape
<1>17. ASSUME NEW s \in Stops, Crash(s)
      PROVE  Flags'
  BY <1>17 DEF Crash, Forget, Shape
<1>18. ASSUME NEW turn \in Turns, BreakClose(turn)
      PROVE  Flags'
  BY <1>18 DEF BreakClose
<1>19. CASE BreakUsage
  <2>1. usageFile' = FALSE /\ (usageBroken' = usageBroken \/ usageBroken' = TRUE)
    BY <1>19 DEF BreakUsage
  <2>2. UNCHANGED <<session, quiet, sweeping, wiped, window, degraded, gone, closeBroken, misread>>
    BY <1>19 DEF BreakUsage
  <2>3. faults' \in Nat
    BY <1>19 DEF BreakUsage
  <2> QED
    BY <2>1, <2>2, <2>3
<1>20. CASE SessionEnd \/ SweepRemove
  BY <1>20 DEF SessionEnd, SweepRemove, Wipe, Shape
<1>21. CASE TtlPasses \/ SweepStat
  BY <1>21 DEF TtlPasses, SweepStat
<1>22. CASE UNCHANGED vars
  BY <1>22 DEF vars
<1> QED BY <1>1, <1>2, <1>3, <1>4, <1>5, <1>6, <1>7, <1>8, <1>9, <1>10, <1>11, <1>12, <1>13, <1>14,
           <1>15, <1>16, <1>17, <1>18, <1>19, <1>20, <1>21, <1>22 DEF Next, Close

(* The types of the state, for any sessions, Stops and faults: of those,   *)
(* what a window computes and what the histories hold are not by shape.    *)
THEOREM TypeCorrect == Spec => []TypeOK
<1>1. Init => Shape /\ Flags
  <2>1. SUFFICES ASSUME Init
                 PROVE  Flags
    BY ShapeInit
  <2>2. window \in [Stops -> SUBSET Nat] /\ degraded \in [Stops -> BOOLEAN] /\ faults \in Nat
    BY <2>1 DEF Init
  <2> QED
    BY <2>1, <2>2 DEF Init, Flags
<1>2. Shape /\ Flags /\ [Next]_vars => Shape' /\ Flags'
  BY ShapeNext, FlagsNext
<1>3. Shape /\ Flags => TypeOK
  BY DEF Shape, Flags, TypeOK
<1> QED
  BY <1>1, <1>2, <1>3, PTL DEF Spec
=============================================================================
