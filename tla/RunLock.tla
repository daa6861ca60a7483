------------------------------- MODULE RunLock -------------------------------
(***************************************************************************)
(* The runner script scrub.sh: `run` (from the button and from cron),      *)
(* which takes a lock directory, scrubs the configured disks one after the *)
(* other and closes its run log; and `stop`, which finds the run through   *)
(* the lock, kills its process tree, records the cancellation and removes  *)
(* the lock. Every step of a script is a separate process or system call,  *)
(* so the scripts interleave at each of them.                              *)
(***************************************************************************)
EXTENDS Naturals, FiniteSets

CONSTANTS Runs,    \* invocations of `scrub.sh run`
          Disks,   \* the most disks a run scrubs
          NoRun    \* no invocation

ASSUME RunsAssumption == Runs # {} /\ NoRun \notin Runs /\ Disks \in Nat \ {0}

VARIABLES
    dir,       \* the lock directory exists
    pid,       \* the pid file in it
    owner,     \* history: the run whose mkdir made it
    rPc, opid, trapSet, left,
    tool,      \* the scrub-rs process of each run
    freezing,  \* the runs whose scrub-rs is inside FIFREEZE
    window,    \* the runs whose scrub-rs has frozen and not thawed itself
    frozen,    \* the run whose scrub-rs froze the mount that is frozen
    late,      \* history: the target's scrub-rs started after stop listed its children
    gone,      \* history: the runs whose scrub-rs was dead at the thaw pass
    newest,    \* the newest run log: the run that writes it
    lines,     \* the `finished:` lines of each run's log
    sPc, target, runLog,
    stolen     \* history: the lock of a live run was removed by another

lockVars == <<dir, pid, owner>>
toolVars == <<tool, freezing, window, frozen, late, gone>>
runVars  == <<rPc, opid, trapSet, left, toolVars>>
logVars  == <<newest, lines>>
stopVars == <<sPc, target, runLog>>
vars     == <<lockVars, runVars, logVars, stopVars, stolen>>

Over  == {"skipped", "ended", "killed"}
Alive(r) == r # NoRun /\ rPc[r] \notin Over \cup {"idle"}

(* The runs that came out of acquire_lock with success.                    *)
Holding == {"writePid", "setTrap", "locked", "scrubbing", "waiting", "finishing"}
Holders == {r \in Runs : rPc[r] \in Holding}

(* rm -rf of the lock directory, on behalf of run `me` (NoRun: of stop).   *)
RemoveLock(me) ==
    /\ dir' = FALSE
    /\ pid' = NoRun
    /\ owner' = NoRun
    /\ stolen' = (stolen \/ (dir /\ Alive(owner) /\ owner # me))

MakeLock(r) ==
    /\ dir' = TRUE
    /\ pid' = NoRun
    /\ owner' = r

Goto(r, pc) == rPc' = [rPc EXCEPT ![r] = pc]

-----------------------------------------------------------------------------
(* scrub.sh run                                                            *)

Start(r) ==
    /\ rPc[r] = "idle"
    /\ Goto(r, "mkdir")
    /\ UNCHANGED <<lockVars, opid, trapSet, left, toolVars, logVars, stopVars, stolen>>

(* acquire_lock: the first mkdir.                                          *)
Mkdir(r) ==
    /\ rPc[r] = "mkdir"
    /\ IF dir THEN Goto(r, "readPid") /\ UNCHANGED lockVars
              ELSE Goto(r, "writePid") /\ MakeLock(r)
    /\ UNCHANGED <<opid, trapSet, left, toolVars, logVars, stopVars, stolen>>

(* The pid goes into the directory, if that is still there (an error is    *)
(* not looked at), and then the EXIT trap is set.                          *)
WritePid(r) ==
    /\ rPc[r] = "writePid"
    /\ pid' = IF dir THEN r ELSE pid
    /\ Goto(r, "setTrap")
    /\ UNCHANGED <<dir, owner, opid, trapSet, left, toolVars, logVars, stopVars, stolen>>

SetTrap(r) ==
    /\ rPc[r] = "setTrap"
    /\ trapSet' = trapSet \cup {r}
    /\ Goto(r, "locked")
    /\ UNCHANGED <<lockVars, opid, left, toolVars, logVars, stopVars, stolen>>

(* The lock is there: whose is it, and is that process alive?              *)
ReadPid(r) ==
    /\ rPc[r] = "readPid"
    /\ opid' = [opid EXCEPT ![r] = pid]
    /\ Goto(r, "checkPid")
    /\ UNCHANGED <<lockVars, trapSet, left, toolVars, logVars, stopVars, stolen>>

(* Mutant: a lock without a live owner is looked at again, not reclaimed.  *)
CheckPidRetrying(r) ==
    /\ rPc[r] = "checkPid"
    /\ Goto(r, IF Alive(opid[r]) THEN "skipped" ELSE "readPid")
    /\ UNCHANGED <<lockVars, opid, trapSet, left, toolVars, logVars, stopVars, stolen>>

CheckPid(r) ==
    /\ rPc[r] = "checkPid"
    /\ Goto(r, IF Alive(opid[r]) THEN "skipped" ELSE "reclaim")
    /\ UNCHANGED <<lockVars, opid, trapSet, left, toolVars, logVars, stopVars, stolen>>

Reclaim(r) ==
    /\ rPc[r] = "reclaim"
    /\ RemoveLock(r)
    /\ Goto(r, "mkdir2")
    /\ UNCHANGED <<opid, trapSet, left, toolVars, logVars, stopVars>>

(* Mutant: after a reclaim the lock is taken for granted.                  *)
MkdirAgainUnchecked(r) ==
    /\ rPc[r] = "mkdir2"
    /\ Goto(r, "writePid") /\ MakeLock(r)
    /\ UNCHANGED <<opid, trapSet, left, toolVars, logVars, stopVars, stolen>>

MkdirAgain(r) ==
    /\ rPc[r] = "mkdir2"
    /\ IF dir THEN Goto(r, "skipped") /\ UNCHANGED lockVars
              ELSE Goto(r, "writePid") /\ MakeLock(r)
    /\ UNCHANGED <<opid, trapSet, left, toolVars, logVars, stopVars, stolen>>

(* The run log is opened. A log is the newest whenever it was written last *)
(* (ls -1t).                                                               *)
OpenLog(r) ==
    /\ rPc[r] = "locked"
    /\ left[r] > 0
    /\ newest' = r
    /\ Goto(r, "scrubbing")
    /\ UNCHANGED <<lockVars, opid, trapSet, left, toolVars, lines, stopVars, stolen>>

(* No disk is configured: the run returns at once, without a log.          *)
NothingToScrub(r) ==
    /\ rPc[r] = "locked"
    /\ left[r] = 0
    /\ Goto(r, "finishing")
    /\ UNCHANGED <<lockVars, opid, trapSet, left, toolVars, logVars, stopVars, stolen>>

(* Mutant: the device loop runs once too often.                            *)
StartToolOnceMore(r) ==
    /\ rPc[r] = "scrubbing"
    /\ left' = [left EXCEPT ![r] = @ - 1]
    /\ tool' = [tool EXCEPT ![r] = "on"]
    /\ late' = (late \/ (r = target /\ sPc \notin {"idle", "check", "log", "term", "kill"}))
    /\ gone' = gone \ {r}
    /\ Goto(r, "waiting")
    /\ newest' = r
    /\ UNCHANGED <<lockVars, opid, trapSet, freezing, window, frozen, lines, stopVars, stolen>>

(* scrub_one_device: start scrub-rs in a pipeline and wait for it.         *)
StartTool(r) ==
    /\ rPc[r] = "scrubbing"
    /\ left[r] > 0
    /\ left' = [left EXCEPT ![r] = @ - 1]
    /\ tool' = [tool EXCEPT ![r] = "on"]
    /\ late' = (late \/ (r = target /\ sPc \notin {"idle", "check", "log", "term", "kill"}))
    /\ gone' = gone \ {r}
    /\ Goto(r, "waiting")
    /\ newest' = r
    /\ UNCHANGED <<lockVars, opid, trapSet, freezing, window, frozen, lines, stopVars, stolen>>

(* A repair of a mounted disk with no mount to freeze is refused.          *)
RefuseDevice(r) ==
    /\ rPc[r] = "scrubbing"
    /\ left[r] > 0
    /\ left' = [left EXCEPT ![r] = @ - 1]
    /\ newest' = r
    /\ UNCHANGED <<lockVars, rPc, opid, trapSet, toolVars, lines, stopVars, stolen>>

(* scrub-rs repairs in freeze windows (LiveRepair). Nothing interrupts a   *)
(* FIFREEZE that has begun, no signal either; on a mount that is frozen    *)
(* already it fails.                                                       *)
ToolFreezeBegins(r) ==
    /\ tool[r] \in {"on", "handling"}
    /\ r \notin freezing \cup window
    /\ freezing' = freezing \cup {r}
    /\ UNCHANGED <<lockVars, rPc, opid, trapSet, left, tool, window, frozen, late, gone,
                   logVars, stopVars, stolen>>

ToolFreezeEnds(r) ==
    /\ r \in freezing
    /\ freezing' = freezing \ {r}
    /\ \/ frozen = NoRun /\ frozen' = r /\ window' = window \cup {r}
       \/ frozen # NoRun /\ UNCHANGED <<frozen, window>>
    /\ UNCHANGED <<lockVars, rPc, opid, trapSet, left, tool, late, gone, logVars, stopVars,
                   stolen>>

(* FITHAW lifts the freeze that is there, whoever made it; without one it  *)
(* fails, and this scrub-rs does not freeze again.                         *)
ToolThaws(r) ==
    /\ tool[r] \in {"on", "handling"}
    /\ r \in window /\ frozen # NoRun
    /\ frozen' = NoRun
    /\ window' = window \ {r}
    /\ UNCHANGED <<lockVars, rPc, opid, trapSet, left, tool, freezing, late, gone, logVars,
                   stopVars, stolen>>

(* It ends by itself, out of its windows or, if a thaw failed or main did  *)
(* not wait for the writer, in one; also when its runner is gone.          *)
ToolExits(r) ==
    /\ tool[r] = "on"
    /\ r \notin freezing
    /\ tool' = [tool EXCEPT ![r] = "off"]
    /\ window' = window \ {r}
    /\ \/ UNCHANGED frozen
       \/ r \in window /\ frozen' = NoRun
    /\ UNCHANGED <<lockVars, rPc, opid, trapSet, left, freezing, late, gone, logVars, stopVars,
                   stolen>>

(* The TERM handler thaws the mount that is noted, if it gets that mutex,  *)
(* if the mount is noted yet and if FITHAW succeeds, and raises the signal *)
(* again. The other threads go on until then.                              *)
ToolHandles(r) ==
    /\ tool[r] = "handling"
    /\ tool' = [tool EXCEPT ![r] = "dying"]
    /\ \/ UNCHANGED frozen
       \/ r \in window /\ frozen' = NoRun
    /\ UNCHANGED <<lockVars, rPc, opid, trapSet, left, freezing, window, late, gone, logVars,
                   stopVars, stolen>>

(* A process that nothing can save any more still completes its FIFREEZE.  *)
ToolDies(r) ==
    /\ tool[r] = "dying"
    /\ r \notin freezing
    /\ tool' = [tool EXCEPT ![r] = "off"]
    /\ window' = window \ {r}
    /\ UNCHANGED <<lockVars, rPc, opid, trapSet, left, freezing, frozen, late, gone, logVars,
                   stopVars, stolen>>

ToolDone(r) ==
    /\ rPc[r] = "waiting"
    /\ tool[r] = "off"
    /\ Goto(r, "scrubbing")
    /\ newest' = r
    /\ UNCHANGED <<lockVars, opid, trapSet, left, toolVars, lines, stopVars, stolen>>

WriteFinished(r) ==
    /\ rPc[r] = "scrubbing"
    /\ left[r] = 0
    /\ lines' = [lines EXCEPT ![r] = @ \cup {"finished"}]
    /\ Goto(r, "finishing")
    /\ newest' = r
    /\ UNCHANGED <<lockVars, opid, trapSet, left, toolVars, stopVars, stolen>>

(* The script ends, and its EXIT trap removes the lock.                    *)
Exit(r) ==
    /\ rPc[r] = "finishing"
    /\ RemoveLock(r)
    /\ Goto(r, "ended")
    /\ UNCHANGED <<opid, trapSet, left, toolVars, logVars, stopVars>>

-----------------------------------------------------------------------------
(* scrub.sh stop                                                           *)

StopBegin ==
    /\ sPc = "idle"
    /\ target' = pid
    /\ sPc' = IF dir THEN "check" ELSE "done"
    /\ UNCHANGED <<lockVars, runVars, logVars, runLog, stolen>>

(* A lock without a live owner is stale and is removed.                    *)
StopCheck ==
    /\ sPc = "check"
    /\ IF Alive(target)
         THEN /\ sPc' = "log"
              /\ UNCHANGED <<lockVars, stolen>>
         ELSE /\ sPc' = "done"
              /\ RemoveLock(NoRun)
    /\ UNCHANGED <<runVars, logVars, target, runLog>>

(* A newest log that is finished already: the lock is removed and nothing  *)
(* is cancelled.                                                           *)
StopReadLog ==
    /\ sPc = "log"
    /\ runLog' = newest
    /\ IF newest # NoRun /\ lines[newest] # {}
         THEN sPc' = "done" /\ RemoveLock(NoRun)
         ELSE sPc' = "term" /\ UNCHANGED <<lockVars, stolen>>
    /\ UNCHANGED <<runVars, logVars, target>>

(* What a signal makes of a scrub-rs: KILL and, until its handlers are     *)
(* installed, TERM are its death; with them TERM runs the handler.         *)
Signalled(t, sig) ==
    IF t = "off" THEN {"off"}
    ELSE {"dying"} \cup (IF sig = "TERM" /\ t = "on" THEN {"handling"} ELSE {})

(* Mutant: KILL goes to the runner only.                                   *)
StopKillToolOnce ==
    /\ sPc \in {"term", "kill"}
    /\ IF sPc = "term"
         THEN \E t \in Signalled(tool[target], "TERM") : tool' = [tool EXCEPT ![target] = t]
         ELSE UNCHANGED tool
    /\ late' = FALSE
    /\ sPc' = IF sPc = "term" THEN "termRunner" ELSE "killRunner"
    /\ UNCHANGED <<lockVars, rPc, opid, trapSet, left, freezing, window, frozen, gone, logVars,
                   target, runLog, stolen>>

(* kill_tree: the children found at this moment, then the runner itself;   *)
(* first with TERM and, if the runner outlives it, with KILL. The signals  *)
(* are only sent: what stop waits for is the runner.                       *)
StopKillTool ==
    /\ sPc \in {"term", "kill"}
    /\ \E t \in Signalled(tool[target], IF sPc = "term" THEN "TERM" ELSE "KILL") :
          tool' = [tool EXCEPT ![target] = t]
    /\ late' = FALSE
    /\ sPc' = IF sPc = "term" THEN "termRunner" ELSE "killRunner"
    /\ UNCHANGED <<lockVars, rPc, opid, trapSet, left, freezing, window, frozen, gone, logVars,
                   target, runLog, stolen>>

(* The runner dies of TERM, with its EXIT trap if that is set, or is still *)
(* there after the wait.                                                   *)
StopTermRunner ==
    /\ sPc = "termRunner"
    /\ \/ /\ Alive(target)
          /\ Goto(target, "killed")
          /\ IF target \in trapSet THEN RemoveLock(target)
                                   ELSE UNCHANGED <<lockVars, stolen>>
          /\ sPc' = "thaw"
       \/ /\ sPc' = IF Alive(target) THEN "kill" ELSE "thaw"
          /\ UNCHANGED <<rPc, lockVars, stolen>>
    /\ UNCHANGED <<opid, trapSet, left, toolVars, logVars, target, runLog>>

(* KILL runs no trap; it too may not get through (a warning only).         *)
StopKillRunner ==
    /\ sPc = "killRunner"
    /\ \/ Alive(target) /\ Goto(target, "killed")
       \/ UNCHANGED rPc
    /\ sPc' = "thaw"
    /\ UNCHANGED <<lockVars, stolen, opid, trapSet, left, toolVars, logVars, target, runLog>>

(* Mutant: thawed only if the runner could be killed.                      *)
StopThawIfKilled ==
    /\ sPc = "thaw"
    /\ frozen' = IF Alive(target) THEN frozen ELSE NoRun
    /\ gone' = {r \in Runs : tool[r] = "off"}
    /\ sPc' = "record"
    /\ UNCHANGED <<lockVars, rPc, opid, trapSet, left, tool, freezing, window, late, logVars,
                   target, runLog, stolen>>

(* thaw_frozen_mounts: fsfreeze -u on every mount, whoever froze it.       *)
StopThaw ==
    /\ sPc = "thaw"
    /\ frozen' = NoRun
    /\ gone' = {r \in Runs : tool[r] = "off"}
    /\ sPc' = "record"
    /\ UNCHANGED <<lockVars, rPc, opid, trapSet, left, tool, freezing, window, late, logVars,
                   target, runLog, stolen>>

StopRecord ==
    /\ sPc = "record"
    /\ lines' = IF runLog = NoRun THEN lines
                ELSE [lines EXCEPT ![runLog] = @ \cup {"cancelled"}]
    /\ newest' = IF runLog = NoRun THEN newest ELSE runLog
    /\ sPc' = "unlock"
    /\ UNCHANGED <<lockVars, runVars, target, runLog, stolen>>

(* Mutant: the lock is left to the runner's EXIT trap.                     *)
StopUnlockNot ==
    /\ sPc = "unlock"
    /\ sPc' = "stopped"
    /\ UNCHANGED <<lockVars, runVars, logVars, target, runLog, stolen>>

StopUnlock ==
    /\ sPc = "unlock"
    /\ RemoveLock(NoRun)
    /\ sPc' = "stopped"
    /\ UNCHANGED <<runVars, logVars, target, runLog>>

-----------------------------------------------------------------------------
(* A lock may be left from a run that crashed or was cut off by a reboot,  *)
(* its pid naming no process. Every run reads its own list of disks.       *)
Init ==
    /\ dir \in BOOLEAN
    /\ pid = NoRun
    /\ owner = NoRun
    /\ rPc = [r \in Runs |-> "idle"]
    /\ opid = [r \in Runs |-> NoRun]
    /\ trapSet = {}
    /\ left \in [Runs -> 0..Disks]
    /\ tool = [r \in Runs |-> "off"]
    /\ freezing = {}
    /\ window = {}
    /\ frozen = NoRun
    /\ late = FALSE
    /\ gone = {}
    /\ newest = NoRun
    /\ lines = [r \in Runs |-> {}]
    /\ sPc = "idle"
    /\ target = NoRun
    /\ runLog = NoRun
    /\ stolen = FALSE

RunStep(r) ==
    \/ Mkdir(r)
    \/ WritePid(r)
    \/ SetTrap(r)
    \/ ReadPid(r)
    \/ CheckPid(r)
    \/ Reclaim(r)
    \/ MkdirAgain(r)
    \/ OpenLog(r)
    \/ NothingToScrub(r)
    \/ StartTool(r)
    \/ RefuseDevice(r)
    \/ ToolDone(r)
    \/ WriteFinished(r)
    \/ Exit(r)

ToolStep(r) ==
    \/ ToolFreezeBegins(r)
    \/ ToolFreezeEnds(r)
    \/ ToolThaws(r)
    \/ ToolExits(r)
    \/ ToolHandles(r)
    \/ ToolDies(r)

StopStep ==
    \/ StopCheck
    \/ StopReadLog
    \/ StopKillTool
    \/ StopTermRunner
    \/ StopKillRunner
    \/ StopThaw
    \/ StopRecord
    \/ StopUnlock

Next ==
    \/ \E r \in Runs : Start(r) \/ RunStep(r) \/ ToolStep(r)
    \/ StopBegin
    \/ StopStep

Spec == Init /\ [][Next]_vars

(* Scripts that were started go on to their end, and nobody has to start   *)
(* or stop anything. FIFREEZE returns, a dying process dies, and scrub-rs  *)
(* comes to its end although it is in a FIFREEZE now and then              *)
(* (RecoveryPipeline's Terminates). Its handler may wait for ever: the     *)
(* thread it interrupts may hold the mutex.                                *)
FairSpec ==
    /\ Spec
    /\ WF_vars(StopStep)
    /\ \A r \in Runs :
          /\ WF_vars(RunStep(r))
          /\ WF_vars(ToolFreezeEnds(r) \/ ToolDies(r))
          /\ SF_vars(ToolExits(r))

-----------------------------------------------------------------------------
(* Type invariant.                                                         *)
TypeOK ==
    /\ dir \in BOOLEAN
    /\ pid \in Runs \cup {NoRun} /\ owner \in Runs \cup {NoRun}
    /\ newest \in Runs \cup {NoRun} /\ target \in Runs \cup {NoRun}
    /\ runLog \in Runs \cup {NoRun} /\ frozen \in Runs \cup {NoRun}
    /\ rPc \in [Runs -> {"idle", "mkdir", "readPid", "checkPid", "reclaim", "mkdir2"}
                            \cup Holding \cup Over]
    /\ opid \in [Runs -> Runs \cup {NoRun}]
    /\ trapSet \subseteq Runs
    /\ left \in [Runs -> 0..Disks]
    /\ tool \in [Runs -> {"off", "on", "handling", "dying"}]
    /\ freezing \in SUBSET Runs /\ window \in SUBSET Runs /\ gone \in SUBSET Runs
    /\ lines \in [Runs -> SUBSET {"finished", "cancelled"}]
    /\ sPc \in {"idle", "check", "log", "term", "termRunner", "kill", "killRunner",
                "thaw", "record", "unlock", "stopped", "done"}
    /\ stolen \in BOOLEAN /\ late \in BOOLEAN

(* As long as nobody removes the lock of a run that is alive, at most one  *)
(* run is past acquire_lock, whatever runs start, end or are stopped at    *)
(* the same time.                                                          *)
ExclusiveUnlessStolen == stolen \/ Cardinality(Holders) <= 1

(* The lock never survives its users, and a lock left by a crash not the   *)
(* next run or stop: once what was started is over, the directory is gone, *)
(* so no later run is held up.                                             *)
LockReleased ==
    /\ \A r \in Runs : rPc[r] \in Over \cup {"idle"}
    /\ sPc \in {"idle", "stopped", "done"}
    /\ sPc # "idle" \/ \E r \in Runs : rPc[r] \in Over
    => ~dir

(* A run that was started comes to its end: it skips, finishes or is       *)
(* killed, even when its lock is removed under it.                         *)
RunsEnd == \A r \in Runs : (rPc[r] = "mkdir") ~> (rPc[r] \in Over)

(* A stop reaches the whole tree of the run: past the signals, a scrub-rs  *)
(* of it works on without one pending only if the runner, not dead yet,    *)
(* started that one after its children had been listed, at the last        *)
(* listing there was.                                                      *)
StopReaches ==
    sPc \in {"thaw", "record", "unlock", "stopped"} /\ tool[target] = "on" => late

(* What the thaw pass of a stop is for: no scrub-rs that was dead by then, *)
(* by whichever signal and at whatever step it died, leaves the filesystem *)
(* frozen. (One that outlived the pass may: StopLeavesThawed.)             *)
DeadHoldNoFreeze ==
    sPc \in {"record", "unlock", "stopped"} => frozen \notin gone

-----------------------------------------------------------------------------
(* What the script says of itself, and does not keep.                      *)

(* The thaw pass comes "AFTER the tree is dead (so scrub-rs's own signal   *)
(* handler / RAII can't race it)", for a filesystem left frozen "would     *)
(* stall every writer on it indefinitely" (scrub.sh:732-736): once a stop  *)
(* has seen its runner die, no scrub-rs it signalled has left a freeze.    *)
StopLeavesThawed ==
    sPc = "stopped" /\ ~Alive(target) /\ tool[target] = "off" /\ frozen = target => late

(* "mkdir is atomic, so exactly one process wins" (scrub.sh:295-296).      *)
MutualExclusion == Cardinality(Holders) <= 1

(* "a stop in that window must NOT [...] append a fake cancellation after  *)
(* a real completion" (scrub.sh:675-677).                                  *)
RealOutcomeStands ==
    [][\A r \in Runs : "cancelled" \in lines'[r] \ lines[r] => "finished" \notin lines[r]]_vars

=============================================================================
