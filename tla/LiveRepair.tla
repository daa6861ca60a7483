------------------------------ MODULE LiveRepair ------------------------------
(***************************************************************************)
(* One writer thread repairing sectors of a disk whose filesystem may be   *)
(* mounted and busy (batch_recover.rs, freeze.rs). For each batch it       *)
(* freezes the filesystem, and for each candidate re-confirms the          *)
(* corruption against the committed metadata, re-reads the device,         *)
(* rebuilds the block, writes it and reads it back; then it thaws. Beside  *)
(* it run the filesystem, the other threads (which may panic, and a panic  *)
(* hook thaws), SIGTERM (whose handler thaws), the thaw pass of a `stop`   *)
(* of the runner script, and main, which on an error returns without       *)
(* waiting for the writer.                                                 *)
(***************************************************************************)
EXTENDS LiveFilesystem, FiniteSets

CONSTANTS Modes,    \* the modes considered
          Faults    \* which of "panic" (of a thread), "signal" and "stop" may occur

ASSUME ModesAssumption == Modes \subseteq {"live", "dry", "offline", "image", "unfrozen"}
ASSUME FaultsAssumption == Faults \subseteq {"panic", "signal", "stop"}

VARIABLES
    mode,        \* repair of a live filesystem in freeze windows, or without them by
                 \* choice (unfrozen), of an offline device or an image file; or dry
    stored,      \* the checksum the scrub found for each candidate
    queue,       \* candidates not yet handed to a flush
    wPc, batch, cur, allowed, begun,
    cached,      \* the page of the current sector in the kernel's cache
    verdict,
    active,      \* ACTIVE_FREEZE_MOUNT is set
    installed,   \* the panic hook and the signal handlers are installed
    mainPc,      \* main: scrubbing and then joining the writer, or failing
    proc,        \* the process: running, in the signal handler (by its steps), or dead
    hook,        \* a panicking thread has read the noted mount and is about to thaw it
    thawFailed,  \* history: an FITHAW has failed
    foreign,     \* history: a hook, the handler or a stop thawed the writer's window
    damaged      \* history: the writer replaced newer data of the filesystem

batchVars == <<batch, allowed, begun>>
wVars    == <<wPc, batchVars, cur, cached>>
candVars == <<mode, stored>>
procVars == <<mainPc, proc, hook>>
lockVars == <<active, installed>>
hist     == <<thawFailed, foreign, damaged>>
vars     == <<fsVars, candVars, queue, wVars, verdict, lockVars, procVars, hist>>

Verdicts == {"stale", "skipped", "failed", "recovered", "not_frozen", "readback_failed"}
NoSector == "none"
NotCached == -3

Alive == proc # "dead"

(* The writer holds a freeze guard.                                        *)
Guarded == mode = "live" /\ allowed

-----------------------------------------------------------------------------
(* Opening a batch: FreezeController::guard.                               *)

(* Without a mount given to freeze there is no freeze, and writes are      *)
(* allowed: the disk is not mounted, this is a dry run, or it was asked    *)
(* for (--no-freeze, or no --freeze-mount for a mounted disk).             *)
BeginOffline(b) ==
    /\ Alive
    /\ wPc = "idle"
    /\ mode # "live"
    /\ batch' = b
    /\ queue' = queue \ b
    /\ allowed' = TRUE
    /\ begun' = FALSE
    /\ wPc' = "loop"
    /\ UNCHANGED <<fsVars, candVars, cur, cached, verdict, lockVars, procVars,
                   hist>>

(* FIFREEZE failed: the batch is assessed only.                            *)
BeginUnfrozen(b) ==
    /\ Alive
    /\ wPc = "idle"
    /\ mode = "live"
    /\ batch' = b
    /\ queue' = queue \ b
    /\ allowed' = FALSE
    /\ begun' = FALSE
    /\ wPc' = "loop"
    /\ UNCHANGED <<fsVars, candVars, cur, cached, verdict, lockVars, procVars,
                   hist>>

(* FIFREEZE succeeded. The mount is noted for the hook and the handler in  *)
(* a step of its own, and they are installed in another.                   *)
BeginFrozen(b) ==
    /\ Alive
    /\ wPc = "idle"
    /\ mode = "live"
    /\ FsFreeze
    /\ batch' = b
    /\ queue' = queue \ b
    /\ allowed' = TRUE
    /\ begun' = FALSE
    /\ wPc' = "frozen"
    /\ UNCHANGED <<candVars, cur, cached, verdict, lockVars, procVars, hist>>

(* Mutant: the mount is noted with the handlers, for the first batch only. *)
NoteActiveMountOnce ==
    /\ Alive
    /\ wPc = "frozen"
    /\ active' = ~installed
    /\ wPc' = "noted"
    /\ UNCHANGED <<fsVars, candVars, queue, batchVars, cur, cached, verdict,
                   installed, procVars, hist>>

NoteActiveMount ==
    /\ Alive
    /\ wPc = "frozen"
    /\ active' = TRUE
    /\ wPc' = "noted"
    /\ UNCHANGED <<fsVars, candVars, queue, batchVars, cur, cached, verdict,
                   installed, procVars, hist>>

InstallHandlers ==
    /\ Alive
    /\ wPc = "noted"
    /\ installed' = TRUE
    /\ wPc' = "loop"
    /\ UNCHANGED <<fsVars, candVars, queue, batchVars, cur, cached, verdict, active,
                   procVars, hist>>

-----------------------------------------------------------------------------
(* The loop over the candidates of a batch (flush_batch).                  *)

NextCandidate ==
    /\ Alive
    /\ wPc = "loop"
    /\ cur' \in batch
    /\ batch' = batch \ {cur'}
    /\ begun' = TRUE
    /\ wPc' = "reconfirm"
    /\ UNCHANGED <<fsVars, candVars, queue, allowed, cached, verdict, lockVars,
                   procVars, hist>>

(* The freeze window is used up: the rest is deferred to the next flush.   *)
FreezeTimeout ==
    /\ Alive
    /\ wPc = "loop"
    /\ begun
    /\ allowed
    /\ batch # {}
    /\ queue' = queue \cup batch
    /\ batch' = {}
    /\ UNCHANGED <<fsVars, candVars, wPc, cur, allowed, begun, cached, verdict,
                   lockVars, procVars, hist>>

(* Mutant: a verdict recorded under the name of its cause.                 *)
GiveUnmapped(v) ==
    /\ verdict' = [verdict EXCEPT ![cur] = IF v = "skipped" THEN "unverifiable" ELSE v]
    /\ cur' = NoSector
    /\ wPc' = "loop"

(* The candidate in hand is classified, and the loop continues.            *)
Give(v) ==
    /\ verdict' = [verdict EXCEPT ![cur] = v]
    /\ cur' = NoSector
    /\ wPc' = "loop"

Proceed(pc) ==
    /\ wPc' = pc
    /\ UNCHANGED <<verdict, cur>>

(* Mutant: any checksum still there counts as the corruption confirmed.    *)
ConfirmedLoosely == live[cur] # NoCsum

(* Reconfirmer::reconfirm finds the extent live and its committed checksum *)
(* to be the one the scrub saw.                                            *)
Confirmed == live[cur] = stored[cur]

(* Either the metadata is readable and decides, or the candidate is        *)
(* skipped.                                                                *)
Reconfirm ==
    /\ Alive
    /\ wPc = "reconfirm"
    /\ \/ Give("skipped")
       \/ ~Confirmed /\ Give("stale")
       \/ Confirmed /\ Proceed("read")
    /\ UNCHANGED <<fsVars, candVars, queue, batchVars, cached, lockVars,
                   procVars, hist>>

(* The device is read again; a block that verifies was rewritten since the *)
(* scan. A sector whose read fails, and one that the scrub reported as     *)
(* unreadable and that is not read again, is rebuilt like a corrupt one.   *)
FreshRead ==
    /\ Alive
    /\ wPc = "read"
    /\ \/ disk[cur] = stored[cur] /\ Give("stale")
       \/ Proceed("rebuild")
    /\ UNCHANGED <<fsVars, candVars, queue, batchVars, cached, lockVars,
                   procVars, hist>>

(* Mutant: a block rebuilt outside a window is written all the same.       *)
RebuildUnguarded ==
    /\ Alive
    /\ wPc = "rebuild"
    /\ \/ Give("failed")
       \/ mode = "dry" /\ Give("recovered")
       \/ mode # "dry" /\ Proceed("write")
    /\ UNCHANGED <<fsVars, candVars, queue, batchVars, cached, lockVars,
                   procVars, hist>>

(* The stripe is gathered and a parity path tried after the other: either  *)
(* none yields the stored checksum, or the block rebuilt has it. It is     *)
(* written only in a window, and never in a dry run.                       *)
Rebuild ==
    /\ Alive
    /\ wPc = "rebuild"
    /\ \/ Give("failed")
       \/ /\ mode = "dry" \/ ~allowed
          /\ Give(IF allowed THEN "recovered" ELSE "not_frozen")
       \/ /\ mode # "dry" /\ allowed
          /\ Proceed("write")
    /\ UNCHANGED <<fsVars, candVars, queue, batchVars, cached, lockVars,
                   procVars, hist>>

(* write_block: the write goes through, or the device only says so; or it  *)
(* fails, before or after bytes went out.                                  *)
WriteBack ==
    /\ Alive
    /\ wPc = "write"
    /\ \/ /\ \E c \in {stored[cur], Junk} : disk' = [disk EXCEPT ![cur] = c]
          /\ damaged' = (damaged \/ intent[cur] \notin {stored[cur], NoCsum})
          /\ \/ Proceed("written") /\ cached' = stored[cur]
             \/ Give("failed") /\ UNCHANGED cached
       \/ Give("failed") /\ UNCHANGED <<disk, damaged, cached>>
    /\ UNCHANGED <<intent, live, frozen, candVars, queue, batchVars, lockVars,
                   procVars, thawFailed, foreign>>

(* Mutant: the read-back goes ahead whether or not the cache was dropped.  *)
DropCacheTrusting ==
    /\ Alive
    /\ wPc = "written"
    /\ cached' \in {NotCached, cached}
    /\ wPc' = "readback"
    /\ UNCHANGED <<fsVars, candVars, queue, batchVars, cur, verdict, lockVars,
                   procVars, hist>>

(* Invalidate the cache, so that the read-back sees the device. Where that *)
(* fails the write does not count; for an image file it always fails, and  *)
(* the cache is what the file holds.                                       *)
DropCache ==
    /\ Alive
    /\ wPc = "written"
    /\ \/ mode # "image" /\ Proceed("readback") /\ cached' = NotCached
       \/ mode # "image" /\ Give("readback_failed") /\ cached' = NotCached
       \/ mode = "image" /\ Proceed("readback") /\ UNCHANGED cached
    /\ UNCHANGED <<fsVars, candVars, queue, batchVars, lockVars, procVars,
                   hist>>

(* Read the sector back: only bytes that verify count as recovered. The    *)
(* read may fail. The cache is dropped again.                              *)
ReadBack ==
    /\ Alive
    /\ wPc = "readback"
    /\ \/ /\ (IF cached = NotCached THEN disk[cur] ELSE cached) = stored[cur]
          /\ Give("recovered")
       \/ Give("readback_failed")
    /\ cached' = NotCached
    /\ UNCHANGED <<fsVars, candVars, queue, batchVars, lockVars, procVars,
                   hist>>

-----------------------------------------------------------------------------
(* Closing a batch: the guard is dropped, then a thaw error is looked for. *)

EndUnguarded ==
    /\ Alive
    /\ wPc = "loop"
    /\ batch = {}
    /\ ~Guarded
    /\ wPc' = "idle"
    /\ UNCHANGED <<fsVars, candVars, queue, batchVars, cur, cached, verdict,
                   lockVars, procVars, hist>>

(* Mutant: a batch cut short by the freeze timeout keeps its freeze.       *)
EndThawedUnlessDeferred ==
    /\ Alive
    /\ wPc = "loop"
    /\ batch = {}
    /\ Guarded
    /\ IF queue = {} THEN FsThaw ELSE UNCHANGED fsVars
    /\ active' = FALSE
    /\ wPc' = "idle"
    /\ UNCHANGED <<candVars, queue, batchVars, cur, cached, verdict, installed,
                   procVars, hist>>

EndThawed ==
    /\ Alive
    /\ wPc = "loop"
    /\ batch = {}
    /\ Guarded
    /\ FsThaw
    /\ active' = FALSE
    /\ wPc' = "idle"
    /\ UNCHANGED <<candVars, queue, batchVars, cur, cached, verdict, installed,
                   procVars, hist>>

(* Mutant: the thaw error is never taken up.                               *)
EndThawFailedIgnored ==
    /\ Alive
    /\ wPc = "loop"
    /\ batch = {}
    /\ Guarded
    /\ thawFailed' = TRUE
    /\ wPc' = "idle"
    /\ UNCHANGED <<fsVars, candVars, queue, batchVars, cur, cached, verdict,
                   lockVars, procVars, foreign, damaged>>

(* FITHAW fails, as it must when someone else thawed: the writer aborts.   *)
EndThawFailed ==
    /\ Alive
    /\ wPc = "loop"
    /\ batch = {}
    /\ Guarded
    /\ thawFailed' = TRUE
    /\ wPc' = "abort"
    /\ UNCHANGED <<fsVars, candVars, queue, batchVars, cur, cached, verdict,
                   lockVars, procVars, foreign, damaged>>

(* The controller, dropped with the thread, tries to thaw once more.       *)
ControllerDrop ==
    /\ Alive
    /\ wPc = "abort"
    /\ \/ FsThaw /\ active' = FALSE
       \/ UNCHANGED <<fsVars, active>>
    /\ wPc' = "err"
    /\ UNCHANGED <<candVars, queue, batchVars, cur, cached, verdict, installed,
                   procVars, hist>>

WriterDone ==
    /\ Alive
    /\ wPc = "idle"
    /\ queue = {}
    /\ wPc' = "ok"
    /\ UNCHANGED <<fsVars, candVars, queue, batchVars, cur, cached, verdict,
                   lockVars, procVars, hist>>

-----------------------------------------------------------------------------
(* The rest of the process.                                                *)

(* FITHAW by somebody other than the writer.                               *)
ForeignThaw ==
    /\ FsThaw
    /\ foreign' = TRUE
    /\ UNCHANGED thawFailed

ForeignThawFails ==
    /\ thawFailed' = (thawFailed \/ frozen)
    /\ UNCHANGED <<fsVars, foreign>>

(* The scrub fails, and main returns an error without joining anybody.     *)
ScrubFails ==
    /\ Alive
    /\ mainPc' = "failing"
    /\ UNCHANGED <<fsVars, candVars, queue, wVars, verdict, lockVars, proc, hook,
                   hist>>

(* The scrub-reader, the accumulator or main panics. The hook, if it is    *)
(* installed, reads the noted mount under its mutex, and thaws it later.   *)
OtherThreadPanics ==
    /\ "panic" \in Faults
    /\ Alive
    /\ ~hook
    /\ hook' = (installed /\ active)
    /\ mainPc' = IF hook' THEN mainPc ELSE "failing"
    /\ UNCHANGED <<fsVars, candVars, queue, wVars, verdict, lockVars, proc,
                   hist>>

HookThaws ==
    /\ Alive
    /\ hook
    /\ ForeignThaw \/ ForeignThawFails
    /\ hook' = FALSE
    /\ mainPc' = "failing"
    /\ UNCHANGED <<candVars, queue, wVars, verdict, lockVars, proc, damaged>>

(* The writer itself panics: the hook runs, unwinding drops the guard and  *)
(* the controller, which thaw if the hook could not.                       *)
WriterPanics ==
    /\ "panic" \in Faults
    /\ Alive
    /\ wPc \in {"reconfirm", "read", "rebuild"}
    /\ \/ FsThaw /\ active' \in {active, FALSE}
       \/ UNCHANGED <<fsVars, active>>
    /\ thawFailed' = (thawFailed \/ frozen')
    /\ wPc' = "panicked"
    /\ UNCHANGED <<candVars, queue, batchVars, cur, cached, verdict, installed,
                   procVars, foreign, damaged>>

(* On an error, or when the scrub has ended and the writer was joined.     *)
MainReturns ==
    /\ Alive
    /\ mainPc = "failing" \/ wPc \in {"ok", "err", "panicked"}
    /\ proc' = "dead"
    /\ UNCHANGED <<fsVars, candVars, queue, wVars, verdict, lockVars, mainPc,
                   hook, hist>>

(* SIGTERM: by default the process dies; once installed, the handler runs  *)
(* on whatever thread took the signal, while the others go on.             *)
Signal ==
    /\ "signal" \in Faults
    /\ proc = "running"
    /\ proc' = IF installed THEN "handling" ELSE "dead"
    /\ UNCHANGED <<fsVars, candVars, queue, wVars, verdict, lockVars, mainPc,
                   hook, hist>>

(* The handler reads the noted mount (if its mutex is held by the thread   *)
(* it interrupted, it never gets there) ...                                *)
HandlerReadsMount ==
    /\ proc = "handling"
    /\ proc' = IF active THEN "thawing" ELSE "raising"
    /\ UNCHANGED <<fsVars, candVars, queue, wVars, verdict, lockVars, mainPc,
                   hook, hist>>

(* ... thaws it, and clears the note when it could (a step of its own, but *)
(* no window begins in between: the writer's own thaw has to fail first)   *)
HandlerThaws ==
    /\ proc = "thawing"
    /\ \/ ForeignThaw /\ active' = FALSE
       \/ ForeignThawFails /\ UNCHANGED active
    /\ proc' = "raising"
    /\ UNCHANGED <<candVars, queue, wVars, verdict, installed, mainPc, hook,
                   damaged>>

(* ... and raises the signal again, with the default action.               *)
HandlerRaises ==
    /\ proc = "raising"
    /\ proc' = "dead"
    /\ UNCHANGED <<fsVars, candVars, queue, wVars, verdict, lockVars, mainPc,
                   hook, hist>>

(* The thaw pass of a stop, of this run or of another one, thaws every     *)
(* mount, whoever froze it.                                                *)
StopThaws ==
    /\ "stop" \in Faults
    /\ Alive
    /\ ForeignThaw
    /\ UNCHANGED <<candVars, queue, wVars, verdict, lockVars, procVars,
                   damaged>>

(* The filesystem works on (what it does once scrub-rs is dead is of no    *)
(* interest here).                                                         *)
FsWorks ==
    /\ Alive
    /\ mode \notin {"offline", "image"}
    /\ FsStep
    /\ UNCHANGED <<candVars, queue, wVars, verdict, lockVars, procVars, hist>>

-----------------------------------------------------------------------------
(* What the candidates held when they were scanned; which of the contents  *)
(* it is does not matter. The sector was then bad, or is bad since, or the *)
(* read error was a passing one.                                           *)
Scanned == CHOOSE c \in Contents : TRUE

Init ==
    /\ mode \in Modes
    /\ intent = [s \in Sectors |-> Scanned]
    /\ live = intent
    /\ stored = intent
    /\ disk \in [Sectors -> {Scanned, Junk}]
    /\ frozen = FALSE
    /\ queue = Sectors
    /\ wPc = "idle"
    /\ batch = {}
    /\ cur = NoSector
    /\ allowed = FALSE
    /\ begun = FALSE
    /\ cached = NotCached
    /\ verdict = [s \in Sectors |-> "none"]
    /\ active = FALSE
    /\ installed = FALSE
    /\ mainPc = "waiting"
    /\ proc = "running"
    /\ hook = FALSE
    /\ thawFailed = FALSE
    /\ foreign = FALSE
    /\ damaged = FALSE

BeginBatch ==
    \E b \in SUBSET queue :
        b # {} /\ (BeginOffline(b) \/ BeginUnfrozen(b) \/ BeginFrozen(b))

WriterStep ==
    \/ BeginBatch
    \/ NoteActiveMount
    \/ InstallHandlers
    \/ NextCandidate
    \/ FreezeTimeout
    \/ Reconfirm
    \/ FreshRead
    \/ Rebuild
    \/ WriteBack
    \/ DropCache
    \/ ReadBack
    \/ EndUnguarded
    \/ EndThawed
    \/ EndThawFailed
    \/ ControllerDrop
    \/ WriterDone

Next ==
    \/ WriterStep
    \/ ScrubFails
    \/ OtherThreadPanics
    \/ HookThaws
    \/ WriterPanics
    \/ MainReturns
    \/ Signal
    \/ HandlerReadsMount
    \/ HandlerThaws
    \/ HandlerRaises
    \/ StopThaws
    \/ FsWorks

Spec == Init /\ [][Next]_vars

(* The writer is a thread that is never starved; the filesystem, main and  *)
(* the faults are not forced to do anything.                               *)
FairSpec == Spec /\ WF_vars(WriterStep)

-----------------------------------------------------------------------------
(* Properties.                                                             *)

(* Type invariant.                                                         *)
TypeOK ==
    /\ mode \in Modes
    /\ intent \in [Sectors -> Owned]
    /\ live \in [Sectors -> Owned]
    /\ stored \in [Sectors -> Contents]
    /\ disk \in [Sectors -> OnDisk]
    /\ queue \in SUBSET Sectors
    /\ batch \in SUBSET Sectors
    /\ wPc \in {"idle", "frozen", "noted", "loop", "reconfirm", "read", "rebuild", "write",
                "written", "readback", "abort", "ok", "err", "panicked"}
    /\ cur \in Sectors \cup {NoSector}
    /\ wPc \in {"reconfirm", "read", "rebuild", "write", "written", "readback"}
          => cur \in Sectors
    /\ verdict \in [Sectors -> Verdicts \cup {"none"}]
    /\ mainPc \in {"waiting", "failing"}
    /\ proc \in {"running", "handling", "thawing", "raising", "dead"}
    /\ cached \in Contents \cup {NotCached}
    /\ {frozen, allowed, begun, hook, active, installed, thawFailed, foreign, damaged}
          \subseteq BOOLEAN

(* Without faults the writer implements the contract: whatever the         *)
(* filesystem frees, rewrites and commits between the steps of a repair,   *)
(* every write is one of content the filesystem holds the sector to have   *)
(* ("Repairs are race-free").                                              *)
Contract == INSTANCE RepairContract
RaceFree == Contract!Spec

(* Every freeze is given up again, by a thaw or an abort, unless the       *)
(* process dies first: batches, timeouts and deferrals never hold it.      *)
FreezeReleased == frozen ~> (~frozen \/ proc = "dead" \/ wPc = "err")

(* Data the filesystem wrote meanwhile is overwritten with the older       *)
(* content only after a panic hook, the signal handler or the thaw pass of *)
(* a stop thawed the filesystem while the writer was in its window, or     *)
(* where it repairs a mounted disk without freezing it.                    *)
DamageNeedsForeignThaw == damaged => foreign \/ mode = "unfrozen"

(* However the writer ends - done, aborted or unwound by a panic - it      *)
(* leaves no freeze behind unless FITHAW itself failed.                    *)
WriterLeavesThawed ==
    wPc \in {"ok", "err", "panicked"} /\ frozen => thawFailed

(* Every moment of a freeze window is covered: the mount is noted and the  *)
(* hook and the handlers are in place, in whatever batch and after         *)
(* whatever happened before; except that the mount is noted only after     *)
(* FIFREEZE and the handlers are installed after that, and once an FITHAW  *)
(* has failed.                                                             *)
WindowCovered ==
    frozen /\ ~thawFailed => wPc = "frozen" \/ (active /\ (installed \/ wPc = "noted"))

(* Once a hook, the handler or a stop has thawed the filesystem under the  *)
(* writer, this process never freezes it again: the writer's own thaw then *)
(* fails, and it gives up before its next batch.                           *)
EmergencyThawSticks == foreign => ~frozen

(* A sector counted as recovered is repaired for good: from the read-back  *)
(* on the device holds what the filesystem has there, also when the device *)
(* lies about writes or the cache cannot be dropped. Not claimed where a   *)
(* window was thawed under the writer, nor of repairs without windows and  *)
(* of image files, whose host device is not looked at.                     *)
RecoveredIsCurrent ==
    mode \in {"live", "offline"} /\ ~foreign =>
        \A s \in Sectors :
            verdict[s] = "recovered" => intent[s] \in {disk[s], NoCsum}

-----------------------------------------------------------------------------
(* What the code says of itself, and does not keep.                        *)

(* batch_recover.rs:343, README.md:102-103: nothing is ever written        *)
(* unfrozen; repairs are race-free.                                        *)
NeverDamaged == ~damaged

(* README.md:104-105, freeze.rs:5-7: the pause is always released, "even   *)
(* if the tool itself crashes", by layers; here once they are all in       *)
(* place, and where FITHAW does not fail.                                  *)
DeathLeavesThawed == proc = "dead" /\ installed /\ active /\ frozen => thawFailed

=============================================================================
