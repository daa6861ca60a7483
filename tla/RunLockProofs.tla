---------------------------- MODULE RunLockProofs ----------------------------
(***************************************************************************)
(* Proofs about RunLock, for any number of runs and disks: the lock keeps  *)
(* runs apart unless it is stolen, it never outlives its users, the        *)
(* signals of a stop reach the whole process tree, and its thaw pass       *)
(* leaves no freeze of a scrub-rs that was dead by then.                   *)
(***************************************************************************)
EXTENDS RunLock, FiniteSetTheorems, TLAPS


(* The type invariant is inductive.                                        *)
LEMMA TypeStep == TypeOK /\ [Next]_vars => TypeOK'
<1> SUFFICES ASSUME TypeOK, [Next]_vars PROVE TypeOK'
  OBVIOUS
<1> USE RunsAssumption DEF TypeOK, lockVars, toolVars, runVars, logVars, stopVars, Over, Holding,
        Goto, RemoveLock, MakeLock
<1>1. ASSUME NEW r \in Runs, Start(r) \/ RunStep(r) \/ ToolStep(r)
      PROVE  TypeOK'
  <2>1. CASE Start(r)
    BY <2>1 DEF Start
  <2>2. CASE Mkdir(r)
    <3>1. CASE dir
      BY <2>2, <3>1 DEF Mkdir
    <3>2. CASE ~dir
      BY <2>2, <3>2 DEF Mkdir
    <3> QED
      BY <3>1, <3>2
  <2>3. CASE WritePid(r)
    BY <2>3 DEF WritePid
  <2>4. CASE SetTrap(r)
    BY <2>4 DEF SetTrap
  <2>5. CASE ReadPid(r)
    BY <2>5 DEF ReadPid
  <2>6. CASE CheckPid(r)
    BY <2>6 DEF CheckPid
  <2>7. CASE Reclaim(r)
    BY <2>7 DEF Reclaim
  <2>8. CASE MkdirAgain(r)
    <3>1. CASE dir
      BY <2>8, <3>1 DEF MkdirAgain
    <3>2. CASE ~dir
      BY <2>8, <3>2 DEF MkdirAgain
    <3> QED
      BY <3>1, <3>2
  <2>9. CASE OpenLog(r)
    BY <2>9 DEF OpenLog
  <2>10. CASE NothingToScrub(r)
    BY <2>10 DEF NothingToScrub
  <2>11. CASE StartTool(r)
    BY <2>11 DEF StartTool
  <2>12. CASE RefuseDevice(r)
    BY <2>12 DEF RefuseDevice
  <2>13. CASE ToolFreezeBegins(r)
    BY <2>13 DEF ToolFreezeBegins
  <2>14. CASE ToolFreezeEnds(r)
    BY <2>14 DEF ToolFreezeEnds
  <2>15. CASE ToolThaws(r)
    BY <2>15 DEF ToolThaws
  <2>16. CASE ToolExits(r)
    BY <2>16 DEF ToolExits
  <2>17. CASE ToolHandles(r)
    BY <2>17 DEF ToolHandles
  <2>18. CASE ToolDies(r)
    BY <2>18 DEF ToolDies
  <2>19. CASE ToolDone(r)
    BY <2>19 DEF ToolDone
  <2>20. CASE WriteFinished(r)
    BY <2>20 DEF WriteFinished
  <2>21. CASE Exit(r)
    BY <2>21 DEF Exit
  <2> QED
    BY <1>1, <2>1, <2>2, <2>3, <2>4, <2>5, <2>6, <2>7, <2>8, <2>9, <2>10, <2>11, <2>12,
       <2>13, <2>14, <2>15, <2>16, <2>17, <2>18, <2>19, <2>20, <2>21 DEF RunStep, ToolStep
<1>2. CASE StopBegin
  BY <1>2 DEF StopBegin
<1>3. CASE StopCheck
  BY <1>3 DEF StopCheck
<1>4. CASE StopReadLog
  <2>1. CASE newest # NoRun /\ lines[newest] # {}
    BY <1>4, <2>1 DEF StopReadLog
  <2>2. CASE ~(newest # NoRun /\ lines[newest] # {})
    BY <1>4, <2>2 DEF StopReadLog
  <2> QED
    BY <2>1, <2>2
<1>5. CASE StopKillTool
  <2>1. PICK t \in {"off", "on", "handling", "dying"} : tool' = [tool EXCEPT ![target] = t]
    BY <1>5 DEF StopKillTool, Signalled
  <2> QED
    BY <1>5, <2>1 DEF StopKillTool
<1>6. CASE StopTermRunner
  <2>1. rPc' \in [Runs -> {"idle", "mkdir", "readPid", "checkPid", "reclaim", "mkdir2"}
                             \cup Holding \cup Over]
    BY <1>6 DEF StopTermRunner, Alive
  <2>2. dir' \in BOOLEAN /\ stolen' \in BOOLEAN /\ {pid', owner'} \subseteq Runs \cup {NoRun}
    BY <1>6 DEF StopTermRunner
  <2> QED
    BY <1>6, <2>1, <2>2 DEF StopTermRunner
<1>7. CASE StopKillRunner
  BY <1>7 DEF StopKillRunner, Alive
<1>8. CASE StopThaw
  BY <1>8 DEF StopThaw
<1>9. CASE StopRecord
  BY <1>9 DEF StopRecord
<1>10. CASE StopUnlock
  BY <1>10 DEF StopUnlock
<1>11. CASE UNCHANGED vars
  BY <1>11 DEF vars
<1> QED
  BY <1>1, <1>2, <1>3, <1>4, <1>5, <1>6, <1>7, <1>8, <1>9, <1>10, <1>11
     DEF Next, StopStep

(* The initial states are well typed, with and without a lock left over.   *)
LEMMA TypeInit == Init => TypeOK
  BY RunsAssumption DEF Init, TypeOK

(* The type invariant holds throughout.                                    *)
THEOREM TypeCorrect == Spec => []TypeOK
  BY TypeInit, TypeStep, PTL DEF Spec

-----------------------------------------------------------------------------
(* The inductive invariant.                                                *)

(* Unless the lock was stolen, a run past acquire_lock is the one whose    *)
(* mkdir made the directory that is there.                                 *)
HolderOwns == stolen \/ \A r \in Runs : rPc[r] \in Holding => dir /\ owner = r

(* From its first look at the lock on, a stop is bound to remove it.       *)
Stopping == {"check", "log", "term", "termRunner", "kill", "killRunner", "thaw", "record",
             "unlock"}

(* A lock that a run made is there only while that run is, or while a stop *)
(* that may have killed it is under way.                                   *)
LockUsed == dir /\ owner # NoRun => rPc[owner] \in Holding \/ sPc \in Stopping

(* A lock left over from before is one that nobody has removed yet: no run *)
(* got past acquire_lock, and whoever has read its pid found no process.   *)
LeftOver ==
    dir /\ owner = NoRun =>
        /\ pid = NoRun
        /\ target = NoRun
        /\ sPc \in {"idle", "check"}
        /\ \A r \in Runs :
              /\ opid[r] = NoRun
              /\ rPc[r] \in {"idle", "mkdir", "readPid", "checkPid", "reclaim"}

(* Past its first look a stop has a run to stop.                           *)
StopHasTarget ==
    sPc \in {"log", "term", "termRunner", "kill", "killRunner", "thaw", "record", "unlock",
             "stopped"}
    => target \in Runs

(* Past the signals only a late scrub-rs works on.                         *)
TreeReached ==
    sPc \in {"termRunner", "killRunner", "thaw", "record", "unlock", "stopped"}
        /\ tool[target] = "on" => late

(* Whoever is inside FIFREEZE is not dead, and whoever was dead at the     *)
(* thaw pass and was not started again is dead and holds no freeze.        *)
FreezeHeld ==
    /\ \A r \in freezing : tool[r] # "off"
    /\ \A r \in gone : tool[r] = "off"
    /\ frozen \notin gone

RInv ==
    TypeOK /\ HolderOwns /\ LockUsed /\ LeftOver /\ StopHasTarget /\ TreeReached /\ FreezeHeld

(* It holds at first.                                                      *)
LEMMA InvInit == Init => RInv
  BY TypeInit, RunsAssumption DEF Init, RInv, HolderOwns, LockUsed, LeftOver, StopHasTarget,
     TreeReached, FreezeHeld, Holding

(* Every step preserves it.                                                *)
LEMMA InvStep == RInv /\ [Next]_vars => RInv'
<1> SUFFICES ASSUME RInv, [Next]_vars PROVE RInv'
  OBVIOUS
<1>0. TypeOK /\ TypeOK'
  BY TypeStep DEF RInv
<1> DEFINE Rest == HolderOwns /\ LockUsed /\ LeftOver /\ StopHasTarget /\ TreeReached
                     /\ FreezeHeld
<1> SUFFICES Rest'
  BY <1>0 DEF RInv
<1> USE <1>0, RunsAssumption
    DEF RInv, TypeOK, HolderOwns, LockUsed, LeftOver, StopHasTarget, TreeReached, FreezeHeld, Stopping,
        Holding, Over, Alive, Goto, RemoveLock, MakeLock, lockVars, toolVars, runVars, logVars,
        stopVars
<1>1. ASSUME NEW r \in Runs, Start(r) \/ RunStep(r) \/ ToolStep(r)
      PROVE  Rest'
  <2>1. CASE Start(r)
    BY <2>1 DEF Start
  <2>2. CASE Mkdir(r)
    BY <2>2 DEF Mkdir
  <2>3. CASE WritePid(r)
    BY <2>3 DEF WritePid
  <2>4. CASE SetTrap(r)
    BY <2>4 DEF SetTrap
  <2>5. CASE ReadPid(r)
    BY <2>5 DEF ReadPid
  <2>6. CASE CheckPid(r)
    BY <2>6 DEF CheckPid
  <2>7. CASE Reclaim(r)
    BY <2>7 DEF Reclaim
  <2>8. CASE MkdirAgain(r)
    BY <2>8 DEF MkdirAgain
  <2>9. CASE OpenLog(r)
    BY <2>9 DEF OpenLog
  <2>10. CASE NothingToScrub(r)
    BY <2>10 DEF NothingToScrub
  <2>11. CASE StartTool(r)
    BY <2>11 DEF StartTool
  <2>12. CASE RefuseDevice(r)
    BY <2>12 DEF RefuseDevice
  <2>13. CASE ToolFreezeBegins(r)
    BY <2>13 DEF ToolFreezeBegins
  <2>14. CASE ToolFreezeEnds(r)
    BY <2>14 DEF ToolFreezeEnds
  <2>15. CASE ToolThaws(r)
    BY <2>15 DEF ToolThaws
  <2>16. CASE ToolExits(r)
    BY <2>16 DEF ToolExits
  <2>17. CASE ToolHandles(r)
    BY <2>17 DEF ToolHandles
  <2>18. CASE ToolDies(r)
    BY <2>18 DEF ToolDies
  <2>19. CASE ToolDone(r)
    BY <2>19 DEF ToolDone
  <2>20. CASE WriteFinished(r)
    BY <2>20 DEF WriteFinished
  <2>21. CASE Exit(r)
    BY <2>21 DEF Exit
  <2> QED
    BY <1>1, <2>1, <2>2, <2>3, <2>4, <2>5, <2>6, <2>7, <2>8, <2>9, <2>10, <2>11, <2>12,
       <2>13, <2>14, <2>15, <2>16, <2>17, <2>18, <2>19, <2>20, <2>21 DEF RunStep, ToolStep
<1>2. CASE StopBegin
  BY <1>2 DEF StopBegin
<1>3. CASE StopCheck
  BY <1>3 DEF StopCheck
<1>4. CASE StopReadLog
  BY <1>4 DEF StopReadLog
<1>5. CASE StopKillTool
  BY <1>5 DEF StopKillTool, Signalled
<1>6. CASE StopTermRunner
  BY <1>6 DEF StopTermRunner
<1>7. CASE StopKillRunner
  BY <1>7 DEF StopKillRunner
<1>8. CASE StopThaw
  BY <1>8 DEF StopThaw
<1>9. CASE StopRecord
  BY <1>9 DEF StopRecord
<1>10. CASE StopUnlock
  BY <1>10 DEF StopUnlock
<1>11. CASE UNCHANGED vars
  BY <1>11 DEF vars
<1> QED
  BY <1>1, <1>2, <1>3, <1>4, <1>5, <1>6, <1>7, <1>8, <1>9, <1>10, <1>11
     DEF Next, StopStep

(* The invariant of the lock and of the stop.                              *)
THEOREM Invariance == Spec => []RInv
  BY InvInit, InvStep, PTL DEF Spec

(* However many runs start, end, reclaim and are stopped at once: unless a *)
(* live run's lock was removed by another, at most one is past             *)
(* acquire_lock.                                                           *)
THEOREM Exclusion == Spec => []ExclusiveUnlessStolen
<1>1. RInv => ExclusiveUnlessStolen
  <2> SUFFICES ASSUME RInv, ~stolen PROVE Cardinality(Holders) <= 1
    BY DEF ExclusiveUnlessStolen
  <2>1. Holders \subseteq {owner}
    BY DEF RInv, HolderOwns, Holders
  <2>2. Cardinality({owner}) = 1 /\ IsFiniteSet({owner})
    BY FS_Singleton
  <2> QED
    BY <2>1, <2>2, FS_Subset
<1> QED
  BY <1>1, Invariance, PTL

(* Once everything that was started is over, the lock directory is gone,   *)
(* whoever was killed at whatever step and whether or not a crash had left *)
(* a lock before.                                                          *)
THEOREM LockGone == Spec => []LockReleased
<1>1. RInv => LockReleased
  BY DEF RInv, TypeOK, LockUsed, LeftOver, LockReleased, Stopping, Holding, Over
<1> QED
  BY <1>1, Invariance, PTL

(* The signals of a stop reach the whole tree but for a scrub-rs that the  *)
(* dying runner started after its children had been listed.                *)
THEOREM StopIsThorough == Spec => []StopReaches
<1>1. RInv => StopReaches
  BY DEF RInv, TreeReached, StopReaches
<1> QED
  BY <1>1, Invariance, PTL

(* After its thaw pass no freeze is left of a scrub-rs that was dead by    *)
(* then, although dying ones complete what they began.                     *)
THEOREM NoFreezeOfTheDead == Spec => []DeadHoldNoFreeze
<1>1. RInv => DeadHoldNoFreeze
  BY DEF RInv, FreezeHeld, DeadHoldNoFreeze
<1> QED
  BY <1>1, Invariance, PTL

=============================================================================
