-------------------------- MODULE RecoveryPipeline --------------------------
(***************************************************************************)
(* The batched recovery pipeline of scrub-rs: the scrub on the main thread *)
(* hands every suspicious sector to an accumulator thread, which groups    *)
(* them into batches for a writer thread (batch_recover.rs); when the      *)
(* scrub ends, main shuts the pipeline down, joins both threads,           *)
(* reconciles the counters and picks the exit code (main.rs).              *)
(*                                                                         *)
(* A candidate is named by its position in `events`, the scrub's reports   *)
(* in order, so a set of candidates stands for a Vec in arrival order.     *)
(* What the writer does to one candidate is a choice among the verdicts    *)
(* the code can give it in the current window.                             *)
(***************************************************************************)
EXTENDS Naturals, Sequences, FiniteSets

CONSTANTS Phys,       \* array offsets of the sectors the scrub may report
          BatchMax,   \* --batch-max: candidates per batch
          MaxEvents   \* bound on the scrub's reports (TLC)

ASSUME ConstantsAssumption ==
    /\ Phys # {}
    /\ Phys \subseteq Nat
    /\ BatchMax \in Nat \ {0}
    /\ MaxEvents \in Nat

VARIABLES
    mode,     \* plain (no array), dry, offline (no live mount) or live
    events,   \* the array offset of every report of the scrub, in order
    sent,     \* Driver.sent
    scrub,    \* the ScrubStats main tests after the scrub, each 0 or 1 (some)
    mainPc, state, exit,
    chanA,    \* sync_channel(1) main -> accumulator
    accPc, batch,
    chanB,    \* sync_channel(1) accumulator -> writer
    wPc, draining, pending, work, window, processed,
    stats,    \* BatchStats
    verdict   \* history: the verdict given to each classified candidate

mainVars == <<mode, events, sent, scrub, mainPc, state, exit>>
accVars  == <<accPc, batch>>
wVars    == <<wPc, draining, pending, work, window, processed, stats, verdict>>
vars     == <<mainVars, chanA, accVars, chanB, wVars>>

-----------------------------------------------------------------------------
(* Buckets of BatchStats. A candidate past re-confirmation and the fresh   *)
(* read is a mismatch, and then falls in exactly one sub-bucket.           *)
SubBuckets == {"recovered", "failed", "not_corrupt", "not_frozen", "readback_failed"}
Verdicts   == SubBuckets \cup {"stale", "skipped", "deduped"}
Buckets    == Verdicts \cup {"mismatch"}
Counter    == [Buckets -> Nat]

Modes == {"plain", "dry", "offline", "live"}
Ids   == 1..Len(events)

(* A capacity-1 channel holds nothing, one item, or the Done marker.       *)
Empty    == [tag |-> "empty", ids |-> {}]
Done     == [tag |-> "done", ids |-> {}]
Item(s)  == [tag |-> "item", ids |-> s]
Channel  == [tag : {"empty", "item", "done"}, ids : SUBSET Ids]

Classified(st) == st["mismatch"] + st["stale"] + st["skipped"] + st["deduped"]
SubTotal(st)   == st["recovered"] + st["failed"] + st["not_corrupt"]
                      + st["not_frozen"] + st["readback_failed"]

(* The far end of a channel is gone once its thread has ended.             *)
AccGone    == accPc \in {"returned", "panicked"}
WriterGone == wPc \in {"ok", "err", "panicked"}
Running    == mainPc # "exited"

-----------------------------------------------------------------------------
(* Main thread.                                                            *)

(* Driver::on_event for one report: plain scrubs only count it; otherwise  *)
(* the candidate is sent, blocking while the channel is full, and counted  *)
(* when the accumulator is still there to take it. (Its other early        *)
(* returns do not happen: every report is of a sector with a checksum, and *)
(* main's canary has refused a slot that is no data disk.)                 *)
OnEvent(p) ==
    /\ mainPc = "scrubbing"
    /\ Len(events) < MaxEvents
    /\ mode # "plain" => AccGone \/ chanA = Empty
    /\ events' = Append(events, p)
    /\ IF mode = "plain" \/ AccGone
         THEN UNCHANGED <<chanA, sent>>
         ELSE /\ chanA' = Item({Len(events) + 1})
              /\ sent' = sent + 1
    /\ UNCHANGED <<mode, scrub, mainPc, state, exit, accVars, chanB, wVars>>

(* scrub.run returns Ok: the state turns done, and the pipeline (if any)   *)
(* is still to be shut down.                                               *)
ScrubOk ==
    /\ mainPc = "scrubbing"
    /\ state' = "done"
    /\ mainPc' = IF mode = "plain" THEN "verdict" ELSE "sendDone"
    /\ UNCHANGED <<mode, events, sent, scrub, exit, chanA, accVars, chanB, wVars>>

(* scrub.run returns Err (the reader thread died): main returns at once,   *)
(* without joining the pipeline threads.                                   *)
ScrubErr ==
    /\ mainPc = "scrubbing"
    /\ state' = "error"
    /\ exit' = 1
    /\ mainPc' = "exited"
    /\ UNCHANGED <<mode, events, sent, scrub, chanA, accVars, chanB, wVars>>

(* Send Msg::Done (the result is ignored) and drop the sender.             *)
SendDone ==
    /\ mainPc = "sendDone"
    /\ AccGone \/ chanA = Empty
    /\ chanA' = IF AccGone THEN chanA ELSE Done
    /\ mainPc' = "joinAcc"
    /\ UNCHANGED <<mode, events, sent, scrub, state, exit, accVars, chanB, wVars>>

Fail ==
    /\ state' = "error"
    /\ exit' = 1
    /\ mainPc' = "exited"

JoinAccumulator ==
    /\ mainPc = "joinAcc"
    /\ AccGone
    /\ IF accPc = "panicked"
         THEN Fail
         ELSE /\ mainPc' = "joinWriter"
              /\ UNCHANGED <<state, exit>>
    /\ UNCHANGED <<mode, events, sent, scrub, chanA, accVars, chanB, wVars>>

(* Mutant: an aborted or panicked writer is taken for a finished one, and  *)
(* the reconciliation is skipped with it.                                  *)
LenientJoinWriter ==
    /\ mainPc = "joinWriter"
    /\ WriterGone
    /\ mainPc' = "verdict"
    /\ UNCHANGED <<mode, events, sent, scrub, state, exit, chanA, accVars, chanB, wVars>>

JoinWriter ==
    /\ mainPc = "joinWriter"
    /\ WriterGone
    /\ IF wPc # "ok"
         THEN Fail
         ELSE /\ mainPc' = "reconcile"
              /\ UNCHANGED <<state, exit>>
    /\ UNCHANGED <<mode, events, sent, scrub, chanA, accVars, chanB, wVars>>

(* Every candidate sent must be classified, and every mismatch be in one   *)
(* sub-bucket; otherwise the run is reported incomplete.                   *)
Reconciled == Classified(stats) = sent /\ SubTotal(stats) = stats["mismatch"]

Reconcile ==
    /\ mainPc = "reconcile"
    /\ IF ~Reconciled
         THEN Fail
         ELSE /\ mainPc' = "verdict"
              /\ UNCHANGED <<state, exit>>
    /\ UNCHANGED <<mode, events, sent, scrub, chanA, accVars, chanB, wVars>>

IssuesFound(sc, st) ==
    \/ sc.mismatch + st["mismatch"] > 0
    \/ sc.read_error > 0
    \/ sc.header_error > 0
    \/ sc.meta_read_error > 0
    \/ st["skipped"] > 0

NothingLeftOver(sc, st) ==
    /\ sc.meta_read_error = 0
    /\ \A b \in {"failed", "skipped", "not_frozen", "readback_failed", "not_corrupt"} :
          st[b] = 0

(* Mutant: a cascade that looks at the failed sub-bucket alone.            *)
ExitCodeCountingFixes(sc, st) ==
    CASE sc.header_error > 0 -> 6
      [] sc.header_error = 0 /\ ~IssuesFound(sc, st) -> 0
      [] OTHER -> IF mode = "plain" THEN 3
                  ELSE IF st["failed"] = 0 THEN 4 ELSE 5

(* The exit-code cascade: metadata fatal, clean, recovered, recover-failed *)
(* and, without a pipeline, issues found.                                  *)
ExitCode(sc, st) ==
    CASE sc.header_error > 0 -> 6
      [] sc.header_error = 0 /\ ~IssuesFound(sc, st) -> 0
      [] OTHER -> IF mode = "plain" THEN 3
                  ELSE IF NothingLeftOver(sc, st) THEN 4 ELSE 5

(* ScrubStats is first looked at here. An unreadable sector is both a read *)
(* error and a report; a plain scrub counts its other reports as mismatch. *)
ScrubStats == [mismatch : {0, 1}, read_error : {0, 1}, header_error : {0, 1},
               meta_read_error : {0, 1}]
Exit(sc) ==
    /\ mainPc = "verdict"
    /\ events = <<>> => sc.mismatch + sc.read_error = 0
    /\ IF mode = "plain" THEN events # <<>> => sc.mismatch + sc.read_error > 0
                         ELSE sc.mismatch = 0
    /\ scrub' = sc
    /\ exit' = ExitCode(scrub', stats)
    /\ mainPc' = "exited"
    /\ UNCHANGED <<mode, events, sent, state, chanA, accVars, chanB, wVars>>

-----------------------------------------------------------------------------
(* Accumulator thread (run_accumulator). It waits for a first candidate    *)
(* ("waiting"), fills the batch until it is full, the idle timeout fires   *)
(* or the scrub is over ("filling"), hands it over ("handing"), and after  *)
(* the scrub's Done sends the rest ("flushing") and its own Done           *)
(* ("ending").                                                             *)

AccRecvCandidate ==
    /\ Running
    /\ accPc \in {"waiting", "filling"}
    /\ chanA.tag = "item"
    /\ batch' = batch \cup chanA.ids
    /\ chanA' = Empty
    /\ accPc' = IF Cardinality(batch') < BatchMax THEN "filling" ELSE "handing"
    /\ UNCHANGED <<mainVars, chanB, wVars>>

AccRecvDone ==
    /\ Running
    /\ accPc \in {"waiting", "filling"}
    /\ chanA.tag = "done"
    /\ chanA' = Empty
    /\ accPc' = IF batch = {} THEN "ending" ELSE "flushing"
    /\ UNCHANGED <<mainVars, batch, chanB, wVars>>

(* recv_timeout(batch_idle) gives up: the open batch goes out as it is.    *)
AccIdle ==
    /\ Running
    /\ accPc = "filling"
    /\ chanA = Empty
    /\ accPc' = "handing"
    /\ UNCHANGED <<mainVars, chanA, batch, chanB, wVars>>

(* Hand the batch to the writer, blocking while it still has one waiting;  *)
(* if the writer is gone, return and drop what is held.                    *)
AccHandOver ==
    /\ Running
    /\ accPc \in {"handing", "flushing"}
    /\ WriterGone \/ chanB = Empty
    /\ batch' = {}
    /\ IF WriterGone
         THEN /\ accPc' = "returned"
              /\ UNCHANGED chanB
         ELSE /\ accPc' = IF accPc = "handing" THEN "waiting" ELSE "ending"
              /\ chanB' = Item(batch)
    /\ UNCHANGED <<mainVars, chanA, wVars>>

AccSendDone ==
    /\ Running
    /\ accPc = "ending"
    /\ WriterGone \/ chanB = Empty
    /\ chanB' = IF WriterGone THEN chanB ELSE Done
    /\ accPc' = "returned"
    /\ UNCHANGED <<mainVars, chanA, batch, wVars>>

AccPanic ==
    /\ Running
    /\ accPc \in {"waiting", "filling"}
    /\ accPc' = "panicked"
    /\ batch' = {}
    /\ UNCHANGED <<mainVars, chanA, chanB, wVars>>

-----------------------------------------------------------------------------
(* Writer thread (run_writer, flush_pending, flush_batch).                 *)

(* Mutant: a new batch replaces the candidates deferred by the last flush. *)
WriterRecvBatchOverwriting ==
    /\ Running
    /\ wPc = "recv"
    /\ chanB.tag = "item"
    /\ pending' = chanB.ids
    /\ chanB' = Empty
    /\ wPc' = "flush"
    /\ UNCHANGED <<mainVars, chanA, accVars, draining, work, window, processed, stats, verdict>>

WriterRecvBatch ==
    /\ Running
    /\ wPc = "recv"
    /\ chanB.tag = "item"
    /\ pending' = pending \cup chanB.ids
    /\ chanB' = Empty
    /\ wPc' = "flush"
    /\ UNCHANGED <<mainVars, chanA, accVars, draining, work, window, processed, stats, verdict>>

(* Mutant: the writer ends on Done without draining what it deferred.      *)
WriterRecvEndUndrained ==
    /\ Running
    /\ wPc = "recv"
    /\ chanB.tag = "done" \/ (chanB = Empty /\ AccGone)
    /\ chanB' = Empty
    /\ draining' = TRUE
    /\ wPc' = "ok"
    /\ UNCHANGED <<mainVars, chanA, accVars, pending, work, window, processed, stats, verdict>>

(* Done, or the accumulator is gone: flush until nothing is deferred.      *)
WriterRecvEnd ==
    /\ Running
    /\ wPc = "recv"
    /\ chanB.tag = "done" \/ (chanB = Empty /\ AccGone)
    /\ chanB' = Empty
    /\ draining' = TRUE
    /\ wPc' = IF pending = {} THEN "ok" ELSE "flush"
    /\ UNCHANGED <<mainVars, chanA, accVars, pending, work, window, processed, stats, verdict>>

(* sort_by_key and dedup_by keep the first report of each offset.          *)
FirstReports(s) ==
    {i \in s : \A j \in s : events[j] = events[i] => i <= j}

WritesAllowed == window \in {"frozen", "offline"}

(* The outcomes of freeze.guard() in each mode.                            *)
Windows == IF mode = "live" THEN {"frozen", "assess"} ELSE {"offline"}

(* Mutant: the dedup count is taken the wrong way round.                   *)
FlushBeginMiscounting ==
    /\ Running
    /\ wPc = "flush"
    /\ work' = FirstReports(pending)
    /\ LET dups == pending \ work' IN
         /\ verdict' = [i \in DOMAIN verdict \cup dups |->
                           IF i \in dups THEN "deduped" ELSE verdict[i]]
         /\ stats' = [stats EXCEPT !["deduped"] =
                           @ + (Cardinality(work') - Cardinality(pending))]
    /\ pending' = {}
    /\ window' \in Windows
    /\ processed' = FALSE
    /\ wPc' = "loop"
    /\ UNCHANGED <<mainVars, chanA, accVars, chanB, draining>>

(* flush_batch up to the loop: dedup and freeze.                           *)
FlushBegin ==
    /\ Running
    /\ wPc = "flush"
    /\ work' = FirstReports(pending)
    /\ LET dups == pending \ work' IN
         /\ verdict' = [i \in DOMAIN verdict \cup dups |->
                           IF i \in dups THEN "deduped" ELSE verdict[i]]
         /\ stats' = [stats EXCEPT !["deduped"] =
                           @ + (Cardinality(pending) - Cardinality(work'))]
    /\ pending' = {}
    /\ window' \in Windows
    /\ processed' = FALSE
    /\ wPc' = "loop"
    /\ UNCHANGED <<mainVars, chanA, accVars, chanB, draining>>

(* Mutant: without the guard `i > 0` a flush may get nothing done.         *)
FreezeTimeoutUnguarded ==
    /\ Running
    /\ wPc = "loop"
    /\ work # {}
    /\ WritesAllowed
    /\ pending' = work
    /\ work' = {}
    /\ UNCHANGED <<mainVars, chanA, accVars, chanB, wPc, draining, window, processed,
                   stats, verdict>>

(* The freeze window is used up: the rest of the batch is deferred.        *)
FreezeTimeout ==
    /\ Running
    /\ wPc = "loop"
    /\ work # {}
    /\ processed
    /\ WritesAllowed
    /\ pending' = work
    /\ work' = {}
    /\ UNCHANGED <<mainVars, chanA, accVars, chanB, wPc, draining, window, processed,
                   stats, verdict>>

(* What one candidate can come to: re-confirmed stale (or rewritten since) *)
(* or not confirmable; the stripe unreadable or no parity path verifying;  *)
(* rebuilt and then, by mode, reported, held back, or written and re-read. *)
RebuiltVerdicts ==
    IF mode = "dry" \/ ~WritesAllowed
      THEN {IF WritesAllowed THEN "recovered" ELSE "not_frozen"}
      ELSE {"recovered", "failed", "readback_failed"}
LoopVerdicts == {"stale", "skipped", "failed"} \cup RebuiltVerdicts

(* Count a verdict in its bucket, and the sub-buckets in mismatch too.     *)
Count(st, v) ==
    [b \in Buckets |->
        IF b = v \/ (b = "mismatch" /\ v \in SubBuckets) THEN st[b] + 1 ELSE st[b]]

(* Mutant: a candidate that cannot be confirmed goes back in line as well. *)
ClassifyAndRequeue(v) ==
    /\ Running
    /\ wPc = "loop"
    /\ v \in LoopVerdicts
    /\ \E i \in work :
          /\ \A j \in work : events[i] <= events[j]
          /\ work' = work \ {i}
          /\ pending' = IF v = "skipped" THEN pending \cup {i} ELSE pending
          /\ verdict' = [k \in DOMAIN verdict \cup {i} |-> IF k = i THEN v ELSE verdict[k]]
    /\ stats' = Count(stats, v)
    /\ processed' = TRUE
    /\ UNCHANGED <<mainVars, chanA, accVars, chanB, wPc, draining, window>>

(* One turn of the loop, in order of array offset.                         *)
Classify(v) ==
    /\ Running
    /\ wPc = "loop"
    /\ v \in LoopVerdicts
    /\ \E i \in work :
          /\ \A j \in work : events[i] <= events[j]
          /\ work' = work \ {i}
          /\ verdict' = [k \in DOMAIN verdict \cup {i} |-> IF k = i THEN v ELSE verdict[k]]
    /\ stats' = Count(stats, v)
    /\ processed' = TRUE
    /\ UNCHANGED <<mainVars, chanA, accVars, chanB, wPc, draining, pending, window>>

(* The guard is dropped. A failed thaw aborts the writer; otherwise it     *)
(* takes the next batch or, after Done, flushes what it deferred.          *)
FlushEnd(thawed) ==
    /\ Running
    /\ wPc = "loop"
    /\ work = {}
    /\ ~thawed => window = "frozen"
    /\ wPc' = IF ~thawed THEN "err"
              ELSE IF ~draining THEN "recv"
              ELSE IF pending = {} THEN "ok" ELSE "flush"
    /\ window' = "closed"
    /\ UNCHANGED <<mainVars, chanA, accVars, chanB, draining, pending, work, processed,
                   stats, verdict>>

WriterPanic ==
    /\ Running
    /\ wPc = "loop"
    /\ wPc' = "panicked"
    /\ UNCHANGED <<mainVars, chanA, accVars, chanB, draining, pending, work, window,
                   processed, stats, verdict>>

-----------------------------------------------------------------------------
Init ==
    /\ mode \in Modes
    /\ events = <<>>
    /\ sent = 0
    /\ scrub = [mismatch |-> 0, read_error |-> 0, header_error |-> 0, meta_read_error |-> 0]
    /\ mainPc = "scrubbing"
    /\ state = "running"
    /\ exit = 0
    /\ chanA = Empty
    /\ accPc = IF mode = "plain" THEN "absent" ELSE "waiting"
    /\ batch = {}
    /\ chanB = Empty
    /\ wPc = IF mode = "plain" THEN "absent" ELSE "recv"
    /\ draining = FALSE
    /\ pending = {}
    /\ work = {}
    /\ window = "closed"
    /\ processed = FALSE
    /\ stats = [b \in Buckets |-> 0]
    /\ verdict = << >>

MainStep ==
    \/ ScrubOk
    \/ SendDone
    \/ JoinAccumulator
    \/ JoinWriter
    \/ Reconcile
    \/ \E sc \in ScrubStats : Exit(sc)

AccStep ==
    \/ AccRecvCandidate
    \/ AccRecvDone
    \/ AccIdle
    \/ AccHandOver
    \/ AccSendDone

WriterStep ==
    \/ WriterRecvBatch
    \/ WriterRecvEnd
    \/ FlushBegin
    \/ FreezeTimeout
    \/ \E v \in Verdicts : Classify(v)
    \/ \E thawed \in BOOLEAN : FlushEnd(thawed)

Next ==
    \/ \E p \in Phys : OnEvent(p)
    \/ MainStep
    \/ ScrubErr
    \/ AccStep
    \/ AccPanic
    \/ WriterStep
    \/ WriterPanic

Spec == Init /\ [][Next]_vars

(* Every thread that can run is eventually scheduled. The scrub itself is  *)
(* finite (MainStep holds ScrubOk); reports, errors and panics are never   *)
(* forced.                                                                 *)
FairSpec == Spec /\ WF_vars(MainStep) /\ WF_vars(AccStep) /\ WF_vars(WriterStep)

-----------------------------------------------------------------------------
(* Properties.                                                             *)

(* Type invariant of the pipeline's variables.                             *)
TypeOK ==
    /\ mode \in Modes
    /\ events \in Seq(Phys)
    /\ sent \in Nat
    /\ scrub \in ScrubStats
    /\ mainPc \in {"scrubbing", "sendDone", "joinAcc", "joinWriter", "reconcile",
                   "verdict", "exited"}
    /\ state \in {"running", "done", "error"}
    /\ exit \in 0..6
    /\ chanA \in Channel
    /\ accPc \in {"absent", "waiting", "filling", "handing", "flushing", "ending",
                  "returned", "panicked"}
    /\ batch \in SUBSET Ids
    /\ chanB \in Channel
    /\ wPc \in {"absent", "recv", "flush", "loop", "ok", "err", "panicked"}
    /\ draining \in BOOLEAN
    /\ pending \in SUBSET Ids
    /\ work \in SUBSET Ids
    /\ window \in {"closed", "frozen", "assess", "offline"}
    /\ processed \in BOOLEAN
    /\ stats \in Counter
    /\ DOMAIN verdict \in SUBSET Ids
    /\ \A i \in DOMAIN verdict : verdict[i] \in Verdicts

(* No thread of the pipeline has died.                                     *)
Intact == accPc # "panicked" /\ wPc \notin {"err", "panicked"}

(* Every candidate counted as sent is held in exactly one place - a        *)
(* channel, the open batch, the writer's pending or current work - or has  *)
(* been counted in exactly one bucket, as long as no thread has died. So   *)
(* main's reconciliation (main.rs:473-488) can fail only after a death.    *)
Conservation ==
    mode # "plain" /\ Intact =>
        sent = Cardinality(chanA.ids) + Cardinality(batch) + Cardinality(chanB.ids)
               + Cardinality(pending) + Cardinality(work) + Classified(stats)

(* When both threads were joined without error, the two accounting checks  *)
(* of main (main.rs:473-504) hold: they never turn a complete run into an  *)
(* error.                                                                  *)
ReconciliationHolds == mainPc = "reconcile" => Reconciled

(* A run that ends with any code but 1 has a verdict for every report of   *)
(* the scrub, and for every reported sector one that is not `deduped`:     *)
(* nothing is lost in a channel, a batch or a deferral on the way.         *)
NothingLost ==
    mainPc = "exited" /\ exit # 1 /\ mode # "plain" =>
        /\ DOMAIN verdict = Ids
        /\ \A i \in Ids : \E j \in Ids :
              events[j] = events[i] /\ verdict[j] # "deduped"

(* A candidate once classified keeps its verdict: it is never handed out   *)
(* again by a later flush of deferred candidates.                          *)
VerdictFinal ==
    [][\A i \in DOMAIN verdict : i \in DOMAIN verdict' /\ verdict'[i] = verdict[i]]_vars

(* The exit codes say what they promise: 0 means nothing was found wrong,  *)
(* 4 means every confirmed mismatch was (or in a dry run could be) rebuilt *)
(* and none was left unconfirmed, held back or unverified.                 *)
ExitTruthful ==
    mainPc = "exited" =>
        /\ exit = 0 => /\ scrub.mismatch = 0 /\ scrub.read_error = 0
                       /\ scrub.header_error = 0 /\ scrub.meta_read_error = 0
                       /\ \A i \in DOMAIN verdict : verdict[i] \in {"stale", "deduped"}
        /\ exit = 4 => /\ mode # "plain" /\ scrub.meta_read_error = 0
                       /\ \A i \in DOMAIN verdict :
                             verdict[i] \in {"stale", "deduped", "recovered"}

(* Main reaches its exit whatever the writer's freezes, deferrals, aborts  *)
(* and panics: no send blocks forever on a dead or full channel, and the   *)
(* drain of deferred candidates ends.                                      *)
Terminates == <>(mainPc = "exited")

-----------------------------------------------------------------------------
(* What the code says of itself, and does not keep.                        *)

(* The counters of a dry run of the same candidates: it would call the     *)
(* blocks it rebuilt recovered that this run held back for want of a       *)
(* freeze.                                                                 *)
AsDryRun(st) == [st EXCEPT !["recovered"] = @ + st["not_frozen"], !["not_frozen"] = 0]

(* main.rs:3-4, scrub.sh:325-326: the same disk yields the same code in    *)
(* dry-run and repair mode.                                                *)
SameDiskSameCode ==
    mainPc = "exited" /\ exit # 1 => exit = ExitCode(scrub, AsDryRun(stats))

=============================================================================
