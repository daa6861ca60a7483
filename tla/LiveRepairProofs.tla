--------------------------- MODULE LiveRepairProofs ---------------------------
(***************************************************************************)
(* Proofs about LiveRepair, for any set of sectors and contents: what a    *)
(* freeze window guarantees, with and without faults.                      *)
(***************************************************************************)
EXTENDS LiveRepair, TLAPS

(* Every step preserves the type invariant.                                *)
LEMMA TypeStep == TypeOK /\ [Next]_vars => TypeOK'
<1> SUFFICES ASSUME TypeOK, [Next]_vars PROVE TypeOK'
  OBVIOUS
<1> USE ModesAssumption, FilesystemAssumption
    DEF TypeOK, batchVars, fsVars, candVars, wVars, lockVars, procVars, hist, Owned, OnDisk, Verdicts
<1>1. ASSUME NEW b \in SUBSET queue, BeginOffline(b) PROVE TypeOK'
  BY <1>1 DEF BeginOffline
<1>2. ASSUME NEW b \in SUBSET queue, BeginUnfrozen(b) PROVE TypeOK'
  BY <1>2 DEF BeginUnfrozen
<1>3. ASSUME NEW b \in SUBSET queue, BeginFrozen(b) PROVE TypeOK'
  BY <1>3 DEF BeginFrozen, FsFreeze
<1>4. CASE NoteActiveMount
  BY <1>4 DEF NoteActiveMount
<1>5. CASE InstallHandlers
  BY <1>5 DEF InstallHandlers
<1>6. CASE NextCandidate
  BY <1>6 DEF NextCandidate
<1>7. CASE FreezeTimeout
  BY <1>7 DEF FreezeTimeout
<1>8. CASE Reconfirm
  BY <1>8 DEF Reconfirm, Give, Proceed, Confirmed
<1>9. CASE FreshRead
  BY <1>9 DEF FreshRead, Give, Proceed
<1>10. CASE Rebuild
  BY <1>10 DEF Rebuild, Give, Proceed
<1>11. CASE WriteBack
  <2>1. disk' = disk \/ \E c \in {stored[cur], Junk} : disk' = [disk EXCEPT ![cur] = c]
    BY <1>11 DEF WriteBack
  <2>0. disk' \in [Sectors -> OnDisk]
    <3>1. ASSUME NEW c \in {stored[cur], Junk}, disk' = [disk EXCEPT ![cur] = c]
          PROVE  disk' \in [Sectors -> OnDisk]
      <4>1. CASE cur \in Sectors
        BY <3>1, <4>1
      <4>2. CASE cur \notin Sectors
        BY <3>1, <4>2
      <4> QED
        BY <4>1, <4>2
    <3> QED
      BY <2>1, <3>1
  <2>2. damaged' \in BOOLEAN
    BY <1>11, Zenon DEF WriteBack
  <2>3. /\ cached' \in Contents \cup {NotCached}
        /\ verdict' \in [Sectors -> Verdicts \cup {"none"}]
    BY <1>11 DEF WriteBack, Give, Proceed
  <2> QED
    BY <1>11, <2>0, <2>2, <2>3 DEF WriteBack, Give, Proceed
<1>12. CASE DropCache
  BY <1>12 DEF DropCache, Give, Proceed
<1>13. CASE ReadBack
  BY <1>13 DEF ReadBack, Give
<1>14. CASE EndUnguarded
  BY <1>14 DEF EndUnguarded
<1>15. CASE EndThawed
  BY <1>15 DEF EndThawed, FsThaw
<1>16. CASE EndThawFailed
  BY <1>16 DEF EndThawFailed
<1>17. CASE ControllerDrop
  BY <1>17 DEF ControllerDrop, FsThaw
<1>18. CASE WriterDone
  BY <1>18 DEF WriterDone
<1>19. CASE ScrubFails
  BY <1>19 DEF ScrubFails
<1>20. CASE OtherThreadPanics
  BY <1>20 DEF OtherThreadPanics
<1>21. CASE HookThaws
  <2>1. frozen' \in BOOLEAN /\ foreign' \in BOOLEAN
    BY <1>21 DEF HookThaws, ForeignThaw, ForeignThawFails, FsThaw
  <2>2. thawFailed' \in BOOLEAN
    BY <1>21, Zenon DEF HookThaws, ForeignThaw, ForeignThawFails
  <2>3. UNCHANGED <<intent, live, disk, mode, stored, queue, batch, wPc, cur, cached, verdict,
                    proc>>
    BY <1>21 DEF HookThaws, ForeignThaw, ForeignThawFails, FsThaw
  <2>4. UNCHANGED <<allowed, begun, active, installed, damaged>>
        /\ mainPc' = "failing" /\ hook' = FALSE
    BY <1>21 DEF HookThaws
  <2>5. ({frozen, allowed, begun, hook, active, installed, thawFailed, foreign, damaged}
            \subseteq BOOLEAN)'
    BY <2>1, <2>2, <2>4
  <2> QED
    BY <2>3, <2>4, <2>5
<1>22. CASE WriterPanics
  BY <1>22 DEF WriterPanics, FsThaw
<1>23. CASE MainReturns
  BY <1>23 DEF MainReturns
<1>24. CASE Signal
  BY <1>24 DEF Signal
<1>25. CASE HandlerReadsMount
  BY <1>25 DEF HandlerReadsMount
<1>26. CASE HandlerThaws
  BY <1>26 DEF HandlerThaws, ForeignThaw, ForeignThawFails, FsThaw
<1>27. CASE HandlerRaises
  BY <1>27 DEF HandlerRaises
<1>28. CASE StopThaws
  BY <1>28 DEF StopThaws, ForeignThaw, FsThaw
<1>29. CASE FsWorks
  BY <1>29 DEF FsWorks, FsStep, FsFree, FsWrite, FsCommit
<1>30. CASE UNCHANGED vars
  BY <1>30 DEF vars
<1> QED
  BY <1>1, <1>2, <1>3, <1>4, <1>5, <1>6, <1>7, <1>8, <1>9, <1>10, <1>11, <1>12, <1>13, <1>14,
     <1>15, <1>16, <1>17, <1>18, <1>19, <1>20, <1>21, <1>22, <1>23, <1>24, <1>25, <1>26,
     <1>27, <1>28, <1>29, <1>30
     DEF Next, WriterStep, BeginBatch

(* The initial states are well typed.                                      *)
LEMMA TypeInit == Init => TypeOK
<1>1. Scanned \in Contents
  BY FilesystemAssumption DEF Scanned
<1>2. Init => /\ intent \in [Sectors -> Contents]
              /\ live \in [Sectors -> Contents] /\ stored \in [Sectors -> Contents]
  BY <1>1 DEF Init
<1>3. Init => disk \in [Sectors -> OnDisk]
  BY <1>1 DEF Init, OnDisk
<1>4. Init => intent \in [Sectors -> Owned] /\ live \in [Sectors -> Owned]
  BY <1>2 DEF Owned
<1>5. Init => verdict \in [Sectors -> Verdicts \cup {"none"}]
  BY DEF Init
<1>6. Init => {frozen, allowed, begun, hook, active, installed, thawFailed, foreign, damaged}
                  \subseteq BOOLEAN
  BY DEF Init
<1> QED
  BY <1>2, <1>3, <1>4, <1>5, <1>6 DEF Init, TypeOK

(* The type invariant holds throughout.                                    *)
THEOREM TypeCorrect == Spec => []TypeOK
  BY TypeInit, TypeStep, PTL DEF Spec

-----------------------------------------------------------------------------
(* The inductive invariant of the freeze window.                           *)

InHand   == wPc \in {"reconfirm", "read", "rebuild", "write", "written", "readback"}
InRepair == InHand /\ wPc # "reconfirm"
InWindow == InHand \/ wPc \in {"frozen", "noted", "loop"}
Undisturbed == Guarded /\ ~foreign

(* An offline device does not change; a frozen filesystem has nothing      *)
(* uncommitted; an undisturbed window is frozen, so what was re-confirmed  *)
(* in it stays confirmed; and only a window that may write writes.         *)
WindowHolds ==
    /\ mode \in {"offline", "image"} => intent = stored
    /\ frozen => live = intent
    /\ InWindow /\ Undisturbed => frozen
    /\ InRepair /\ Undisturbed => live[cur] = stored[cur]
    /\ wPc \in {"write", "written", "readback"} => allowed /\ mode # "dry"
    /\ wPc = "readback" /\ mode # "image" => cached = NotCached

(* Every sector waits, is in the batch, is in hand or has its verdict.     *)
OnceEach ==
    /\ queue \cap batch = {}
    /\ \A s \in queue \cup batch : verdict[s] = "none"
    /\ InHand => cur \in Sectors \ (queue \cup batch) /\ verdict[cur] = "none"
    /\ wPc = "idle" => batch = {}

(* A freeze is held only by a window, or by a writer that failed to thaw;  *)
(* and so is the mark of a thaw by somebody else.                          *)
FreezeOwned ==
    /\ frozen \/ foreign => /\ InWindow \/ wPc \in {"abort", "err", "panicked"}
                            /\ InWindow => Guarded
    /\ wPc \in {"abort", "err"} => thawFailed
    /\ wPc = "panicked" /\ frozen => thawFailed

LInv == /\ TypeOK /\ WindowHolds /\ OnceEach /\ FreezeOwned
        /\ DamageNeedsForeignThaw /\ EmergencyThawSticks /\ RecoveredIsCurrent

(* The window's guarantees hold before the first batch.                    *)
LEMMA InvInit == Init => LInv
  BY TypeInit DEF Init, LInv, WindowHolds, OnceEach, FreezeOwned, DamageNeedsForeignThaw,
                  EmergencyThawSticks, RecoveredIsCurrent, InWindow, InRepair, InHand

(* Every step preserves the window's guarantees.                           *)
LEMMA InvStep == LInv /\ [Next]_vars => LInv'
<1> SUFFICES ASSUME LInv, [Next]_vars PROVE LInv'
  OBVIOUS
<1>0. TypeOK /\ TypeOK'
  BY TypeStep DEF LInv
<1>m. mode \in {"live", "dry", "offline", "image", "unfrozen"}
  BY <1>0, ModesAssumption DEF TypeOK
<1> DEFINE Rest == WindowHolds /\ OnceEach /\ FreezeOwned /\ DamageNeedsForeignThaw
                       /\ EmergencyThawSticks /\ RecoveredIsCurrent
<1> SUFFICES Rest'
  BY <1>0 DEF LInv
<1> USE <1>0, <1>m DEF LInv, WindowHolds, OnceEach, FreezeOwned, DamageNeedsForeignThaw,
    EmergencyThawSticks, RecoveredIsCurrent, InWindow, InRepair, InHand, Undisturbed, Guarded,
    fsVars, batchVars, candVars, wVars, lockVars, procVars, hist
<1> DEFINE Same == UNCHANGED <<mode, stored, queue, batchVars, hist>>
<1>g. ASSUME NEW v, Give(v), InHand, Same, UNCHANGED fsVars,
             v = "recovered" /\ mode \in {"live", "offline"} /\ ~foreign
                => intent[cur] \in {disk[cur], NoCsum}
      PROVE  Rest'
  <2>1. \A s \in Sectors : verdict'[s] = IF s = cur THEN v ELSE verdict[s]
    BY <1>g DEF Give, TypeOK
  <2>2. wPc' = "loop"
    BY <1>g DEF Give
  <2>3. OnceEach' /\ RecoveredIsCurrent'
    BY <1>g, <2>1, <2>2 DEF TypeOK
  <2> QED
    BY <1>g, <2>2, <2>3
<1>p. ASSUME NEW pc \in {"read", "rebuild", "write", "readback"}, Proceed(pc), InHand, Same,
             UNCHANGED fsVars,
             Undisturbed => live[cur] = stored[cur],
             pc \in {"write", "readback"} => allowed /\ mode # "dry",
             pc = "readback" /\ mode # "image" => cached' = NotCached
      PROVE  Rest'
  BY <1>p DEF Proceed
<1>t. ASSUME UNCHANGED <<intent, live, disk, candVars, queue, wVars, verdict, damaged>>,
             \/ frozen /\ ~frozen' /\ foreign' /\ UNCHANGED thawFailed
             \/ UNCHANGED <<frozen, foreign>> /\ (thawFailed => thawFailed')
      PROVE  Rest'
  <2>1. CASE UNCHANGED <<frozen, foreign>> /\ (thawFailed => thawFailed')
    BY <1>t, <2>1
  <2>2. CASE frozen /\ ~frozen' /\ foreign' /\ UNCHANGED thawFailed
    BY <1>t, <2>2
  <2> QED
    BY <1>t, <2>1, <2>2
<1>1. ASSUME NEW b \in SUBSET queue, BeginOffline(b) PROVE Rest'
  BY <1>1 DEF BeginOffline
<1>2. ASSUME NEW b \in SUBSET queue, BeginUnfrozen(b) PROVE Rest'
  BY <1>2 DEF BeginUnfrozen
<1>3. ASSUME NEW b \in SUBSET queue, BeginFrozen(b) PROVE Rest'
  BY <1>3 DEF BeginFrozen, FsFreeze
<1>4. CASE NoteActiveMount
  BY <1>4 DEF NoteActiveMount
<1>5. CASE InstallHandlers
  BY <1>5 DEF InstallHandlers
<1>6. CASE NextCandidate
  BY <1>6 DEF NextCandidate, TypeOK
<1>7. CASE FreezeTimeout
  BY <1>7 DEF FreezeTimeout
<1>8. CASE Reconfirm
  <2>1. InHand /\ Same /\ UNCHANGED fsVars
    BY <1>8 DEF Reconfirm
  <2>2. Give("skipped") \/ Give("stale") \/ (Confirmed /\ Proceed("read"))
    BY <1>8 DEF Reconfirm
  <2> QED
    BY <1>g, <1>p, <2>1, <2>2 DEF Confirmed
<1>9. CASE FreshRead
  <2>1. InHand /\ Same /\ UNCHANGED fsVars
    BY <1>9 DEF FreshRead
  <2>2. Undisturbed => live[cur] = stored[cur]
    BY <1>9 DEF FreshRead
  <2>3. Give("stale") \/ Proceed("rebuild")
    BY <1>9 DEF FreshRead
  <2> QED
    BY <1>g, <1>p, <2>1, <2>2, <2>3
<1>10. CASE Rebuild
  <2>1. InHand /\ Same /\ UNCHANGED fsVars
    BY <1>10 DEF Rebuild
  <2>2. Undisturbed => live[cur] = stored[cur]
    BY <1>10 DEF Rebuild
  <2>3. \/ Give("failed") \/ Give("not_frozen")
        \/ mode # "live" /\ mode # "offline" /\ Give("recovered")
        \/ mode # "dry" /\ allowed /\ Proceed("write")
    BY <1>10 DEF Rebuild
  <2> QED
    BY <1>g, <1>p, <2>1, <2>2, <2>3
<1>11. CASE WriteBack
  BY <1>11 DEF WriteBack, Give, Proceed, TypeOK
<1>12. CASE DropCache
  <2>1. InHand /\ Same /\ UNCHANGED fsVars /\ allowed /\ mode # "dry"
    BY <1>12 DEF DropCache
  <2>2. Undisturbed => live[cur] = stored[cur]
    BY <1>12 DEF DropCache
  <2>3. \/ Give("readback_failed")
        \/ Proceed("readback") /\ (mode # "image" => cached' = NotCached)
    BY <1>12 DEF DropCache
  <2> QED
    BY <1>g, <1>p, <2>1, <2>2, <2>3
<1>13. CASE ReadBack
  <2>1. InHand /\ Same /\ UNCHANGED fsVars
    BY <1>13 DEF ReadBack
  <2>2. mode \in {"live", "offline"} /\ ~foreign => intent[cur] = stored[cur]
    BY <1>13, <2>1 DEF ReadBack
  <2>3. \/ Give("readback_failed")
        \/ Give("recovered") /\ (mode # "image" => disk[cur] = stored[cur])
    BY <1>13 DEF ReadBack
  <2> QED
    BY <1>g, <2>1, <2>2, <2>3
<1>14. CASE EndUnguarded
  BY <1>14 DEF EndUnguarded
<1>15. CASE EndThawed
  BY <1>15 DEF EndThawed, FsThaw
<1>16. CASE EndThawFailed
  BY <1>16 DEF EndThawFailed
<1>17. CASE ControllerDrop
  BY <1>17 DEF ControllerDrop, FsThaw
<1>18. CASE WriterDone
  BY <1>18 DEF WriterDone
<1>19. CASE ScrubFails
  BY <1>19 DEF ScrubFails
<1>20. CASE OtherThreadPanics
  BY <1>20 DEF OtherThreadPanics
<1>21. CASE HookThaws
  <2>1. UNCHANGED <<intent, live, disk, candVars, queue, wVars, verdict, damaged>>
    BY <1>21 DEF HookThaws, ForeignThaw, ForeignThawFails, FsThaw
  <2>2. \/ frozen /\ ~frozen' /\ foreign' /\ UNCHANGED thawFailed
        \/ UNCHANGED <<frozen, foreign>> /\ (thawFailed => thawFailed')
    BY <1>21 DEF HookThaws, ForeignThaw, ForeignThawFails, FsThaw
  <2> QED
    BY <1>t, <2>1, <2>2
<1>22. CASE WriterPanics
  <2>1. frozen' => thawFailed'
    BY <1>22, Zenon DEF WriterPanics
  <2>2. /\ wPc' = "panicked"
        /\ UNCHANGED <<mode, intent, disk, live, stored, allowed, batch, queue, verdict,
                       foreign, damaged>>
    BY <1>22 DEF WriterPanics, FsThaw
  <2>3. frozen' => frozen
    BY <1>22 DEF WriterPanics, FsThaw
  <2> QED
    BY <1>22, <2>1, <2>2, <2>3
<1>23. CASE MainReturns
  BY <1>23 DEF MainReturns
<1>24. CASE Signal
  BY <1>24 DEF Signal
<1>25. CASE HandlerReadsMount
  BY <1>25 DEF HandlerReadsMount
<1>26. CASE HandlerThaws
  <2>1. UNCHANGED <<intent, live, disk, candVars, queue, wVars, verdict, damaged>>
    BY <1>26 DEF HandlerThaws, ForeignThaw, ForeignThawFails, FsThaw
  <2>2. \/ frozen /\ ~frozen' /\ foreign' /\ UNCHANGED thawFailed
        \/ UNCHANGED <<frozen, foreign>> /\ (thawFailed => thawFailed')
    BY <1>26 DEF HandlerThaws, ForeignThaw, ForeignThawFails, FsThaw
  <2> QED
    BY <1>t, <2>1, <2>2
<1>27. CASE HandlerRaises
  BY <1>27 DEF HandlerRaises
<1>28. CASE StopThaws
  <2>1. UNCHANGED <<intent, live, disk, candVars, queue, wVars, verdict, damaged, thawFailed>>
        /\ frozen /\ ~frozen' /\ foreign'
    BY <1>28 DEF StopThaws, ForeignThaw, FsThaw
  <2> QED
    BY <1>t, <2>1
<1>29. CASE FsWorks
  <2>1. /\ ~frozen /\ ~frozen' /\ mode \notin {"offline", "image"}
        /\ UNCHANGED <<candVars, queue, wVars, verdict, hist>>
    BY <1>29 DEF FsWorks, FsStep, FsFree, FsWrite, FsCommit
  <2>2. \A s \in Sectors : intent[s] \in {disk[s], NoCsum} => intent'[s] \in {disk'[s], NoCsum}
    BY <1>29 DEF FsWorks, FsStep, FsFree, FsWrite, FsCommit, TypeOK
  <2>3. RecoveredIsCurrent'
    BY <2>1, <2>2
  <2> QED
    BY <2>1, <2>3
<1>30. CASE UNCHANGED vars
  BY <1>30 DEF vars
<1> QED
  BY <1>1, <1>2, <1>3, <1>4, <1>5, <1>6, <1>7, <1>8, <1>9, <1>10, <1>11, <1>12, <1>13, <1>14,
     <1>15, <1>16, <1>17, <1>18, <1>19, <1>20, <1>21, <1>22, <1>23, <1>24, <1>25, <1>26,
     <1>27, <1>28, <1>29, <1>30
     DEF Next, WriterStep, BeginBatch

(* The inductive invariant: in a window the committed metadata is what the *)
(* filesystem has in memory, and the freeze is the writer's, unless a      *)
(* hook, the handler or a stop has thawed it.                              *)
THEOREM Invariance == Spec => []LInv
  BY InvInit, InvStep, PTL DEF Spec

(* Whatever panics, signals and stops occur, newer data is overwritten     *)
(* only after a thaw under the writer, or where nothing is frozen by       *)
(* choice.                                                                 *)
THEOREM DamageBounded == Spec => []DamageNeedsForeignThaw
<1>1. LInv => DamageNeedsForeignThaw
  BY DEF LInv
<1> QED
  BY <1>1, Invariance, PTL

(* After an emergency thaw the process never freezes again.                *)
THEOREM ThawSticks == Spec => []EmergencyThawSticks
<1>1. LInv => EmergencyThawSticks
  BY DEF LInv
<1> QED
  BY <1>1, Invariance, PTL

(* A writer that has ended leaves the filesystem thawed unless FITHAW      *)
(* failed.                                                                 *)
THEOREM EndsThawed == Spec => []WriterLeavesThawed
<1>1. LInv => WriterLeavesThawed
  BY DEF LInv, FreezeOwned, InWindow, InHand, WriterLeavesThawed
<1> QED
  BY <1>1, Invariance, PTL

(* Every step keeps the window covered: whoever takes the note of the      *)
(* active mount away has thawed in the same step.                          *)
LEMMA CoverStep == LInv /\ WindowCovered /\ [Next]_vars => WindowCovered'
<1> SUFFICES ASSUME LInv, WindowCovered, [Next]_vars PROVE WindowCovered'
  OBVIOUS
<1> USE DEF LInv, FreezeOwned, WindowCovered, InWindow, InHand, Guarded,
        fsVars, batchVars, candVars, wVars, lockVars, procVars, hist
<1>1. CASE BeginBatch
  BY <1>1 DEF BeginBatch, BeginOffline, BeginUnfrozen, BeginFrozen, FsFreeze
<1>2. CASE NoteActiveMount \/ InstallHandlers
  BY <1>2 DEF NoteActiveMount, InstallHandlers
<1>3. CASE NextCandidate \/ FreezeTimeout \/ Reconfirm \/ FreshRead \/ Rebuild
           \/ WriteBack \/ DropCache \/ ReadBack
  BY <1>3 DEF NextCandidate, FreezeTimeout, Reconfirm, FreshRead, Rebuild, WriteBack,
        DropCache, ReadBack, Give, Proceed
<1>4. CASE EndUnguarded \/ EndThawed \/ EndThawFailed \/ ControllerDrop \/ WriterDone
  BY <1>4 DEF EndUnguarded, EndThawed, EndThawFailed, ControllerDrop, WriterDone, FsThaw
<1>5. CASE ScrubFails \/ OtherThreadPanics \/ MainReturns \/ Signal \/ HandlerReadsMount
           \/ HandlerRaises \/ FsWorks
  BY <1>5 DEF ScrubFails, OtherThreadPanics, MainReturns, Signal, HandlerReadsMount,
        HandlerRaises, FsWorks, FsStep, FsFree, FsWrite, FsCommit
<1>6. CASE HookThaws \/ HandlerThaws \/ StopThaws
  BY <1>6 DEF HookThaws, HandlerThaws, StopThaws, ForeignThaw, ForeignThawFails, FsThaw
<1>7. CASE WriterPanics
  BY <1>7, Zenon DEF WriterPanics
<1>8. CASE UNCHANGED vars
  BY <1>8 DEF vars
<1> QED
  BY <1>1, <1>2, <1>3, <1>4, <1>5, <1>6, <1>7, <1>8 DEF Next, WriterStep

(* The panic hook, the handlers and the noted mount stand behind every     *)
(* moment of a window from their installation on, in every batch.          *)
THEOREM EveryWindowCovered == Spec => []WindowCovered
<1>1. Init => WindowCovered
  BY DEF Init, WindowCovered
<1> QED
  BY <1>1, CoverStep, Invariance, PTL DEF Spec

-----------------------------------------------------------------------------
(* With whatever faults, also of a device that lies about its writes and   *)
(* a cache that cannot be dropped: what is counted as recovered is on the  *)
(* device as the filesystem has it, then and from then on.                 *)
THEOREM RecoveredStays == Spec => []RecoveredIsCurrent
<1>1. LInv => RecoveredIsCurrent
  BY DEF LInv
<1> QED
  BY <1>1, Invariance, PTL

-----------------------------------------------------------------------------
(* Without faults the repair implements its contract.                      *)

(* Nobody has thawed, or is about to thaw, the writer's window.            *)
Calm == ~foreign /\ ~hook /\ proc \in {"running", "dead"}

(* Without faults every step is a step of the contract or leaves the       *)
(* filesystem and the device alone.                                        *)
LEMMA ContractStep ==
    ASSUME LInv, Calm, [Next]_vars, Faults = {}, "unfrozen" \notin Modes
    PROVE  Calm' /\ [Contract!Next]_(Contract!fsVars)
<1> USE DEF Contract!fsVars, Calm
<1> DEFINE Goal == Calm' /\ [Contract!Next]_(Contract!fsVars)
<1>q. UNCHANGED <<fsVars, foreign, procVars>> => Goal
  BY DEF fsVars, procVars
<1>1. ASSUME NEW b \in SUBSET queue, BeginOffline(b) \/ BeginUnfrozen(b) PROVE Goal
  BY <1>1, <1>q DEF BeginOffline, BeginUnfrozen, hist
<1>2. ASSUME NEW b \in SUBSET queue, BeginFrozen(b) PROVE Goal
  BY <1>2 DEF BeginFrozen, FsFreeze, Contract!Next, Contract!FsFreeze, hist, procVars
<1>3. CASE NoteActiveMount \/ InstallHandlers \/ NextCandidate \/ FreezeTimeout
           \/ Reconfirm \/ FreshRead \/ Rebuild \/ DropCache \/ ReadBack \/ EndUnguarded
           \/ EndThawFailed \/ WriterDone
  BY <1>3, <1>q DEF NoteActiveMount, InstallHandlers, NextCandidate, FreezeTimeout, Reconfirm,
        FreshRead, Rebuild, DropCache, ReadBack, EndUnguarded, EndThawFailed, WriterDone, hist
<1>0. CASE ScrubFails \/ MainReturns
  BY <1>0 DEF ScrubFails, MainReturns, hist, fsVars
<1>4. CASE WriteBack
  <2>1. mode \in {"live", "offline", "image"} /\ allowed /\ cur \in Sectors
    BY <1>4, ModesAssumption DEF WriteBack, LInv, WindowHolds, OnceEach, InHand, TypeOK
  <2>2. intent[cur] = stored[cur]
    BY <1>4, <2>1 DEF WriteBack, LInv, WindowHolds, InWindow, InRepair, InHand, Undisturbed, Guarded
  <2>3. intent[cur] # Contract!NoCsum
    BY <2>1, <2>2, FilesystemAssumption DEF LInv, TypeOK, Contract!NoCsum
  <2>4. UNCHANGED <<intent, live, frozen, foreign, hook, proc>>
    BY <1>4 DEF WriteBack, procVars
  <2>5. CASE UNCHANGED disk
    BY <2>4, <2>5
  <2>6. CASE \E c \in {stored[cur], Junk} : disk' = [disk EXCEPT ![cur] = c]
    <3>1. Contract!Repair(cur)
      BY <2>2, <2>3, <2>4, <2>6 DEF Contract!Repair, Contract!Junk, Junk
    <3> QED
      BY <2>1, <2>4, <3>1 DEF Contract!Next
  <2> QED
    BY <1>4, <2>5, <2>6 DEF WriteBack
<1>5. CASE EndThawed \/ ControllerDrop \/ WriterPanics
  BY <1>5, <1>q DEF EndThawed, ControllerDrop, WriterPanics, FsThaw, Contract!Next,
        Contract!FsThaw, hist, procVars
<1>6. CASE OtherThreadPanics \/ HookThaws \/ Signal \/ HandlerReadsMount \/ HandlerThaws
           \/ HandlerRaises \/ StopThaws
  BY <1>6 DEF OtherThreadPanics, HookThaws, Signal, HandlerReadsMount, HandlerThaws,
        HandlerRaises, StopThaws
<1>7. CASE FsWorks
  BY <1>7 DEF FsWorks, FsStep, FsFree, FsWrite, FsCommit, Contract!Next, Contract!FsStep,
        Contract!FsFree, Contract!FsWrite, Contract!FsCommit, Contract!NoCsum, NoCsum, hist,
        procVars
<1>8. CASE UNCHANGED vars
  BY <1>8, <1>q DEF vars, hist
<1> QED
  BY <1>0, <1>1, <1>2, <1>3, <1>4, <1>5, <1>6, <1>7, <1>8 DEF Next, WriterStep, BeginBatch

(* "Repairs are race-free": in freeze windows, as long as no thread panics *)
(* and no signal or stop comes, every step of a repair is one the contract *)
(* allows, whatever the filesystem does between the writer's steps.        *)
THEOREM Refinement ==
    ASSUME Faults = {}, "unfrozen" \notin Modes
    PROVE  Spec => RaceFree
<1>1. Init => Contract!Init /\ Calm
  <2>1. Scanned \in Contents
    BY FilesystemAssumption DEF Scanned
  <2>2. Init => intent \in [Sectors -> Contents] /\ live = intent /\ frozen = FALSE
    BY <2>1 DEF Init
  <2>3. Init => disk \in [Sectors -> Contract!OnDisk]
    BY <2>1 DEF Init, Junk, Contract!OnDisk, Contract!Junk
  <2> QED
    BY <2>2, <2>3 DEF Init, Contract!Init, Calm
<1>2. LInv /\ Calm /\ [Next]_vars
        => Calm' /\ [Contract!Next]_(Contract!fsVars)
  BY ContractStep
<1> QED
  BY <1>1, <1>2, Invariance, PTL DEF Spec, RaceFree, Contract!Spec

=============================================================================
