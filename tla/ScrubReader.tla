----------------------------- MODULE ScrubReader -----------------------------
(***************************************************************************)
(* The data scrub of one device (btrfs/scrub.rs). The main thread walks    *)
(* the device extents, streams the checksums of each, groups them into     *)
(* runs of neighbouring sectors and sends a read command per run to the    *)
(* reader thread, with at most Depth of them under way. The reader reads a *)
(* run, narrowing a failing read down to its bad sectors piece by piece    *)
(* within a budget, and answers with what it could and could not read; the *)
(* main thread verifies and reports. Without a reader thread ("inline")    *)
(* the main thread reads each run itself.                                  *)
(*                                                                         *)
(* Addresses count sectors. A sector of a data extent is named by its      *)
(* place on the device, since the two copies of a DUP chunk are two        *)
(* extents with the same logical addresses. What a sector holds is a       *)
(* number; its checksum is the number it should hold.                      *)
(***************************************************************************)
EXTENDS Integers, Sequences, FiniteSetsExt

CONSTANTS Layout,      \* the device extents, in order: [kind, logical, phys, len]
          CsumLeaves,  \* the leaves of the checksum tree: the sectors each covers
          Content,     \* what each physical sector should hold
          Rots,        \* the sets of physical sectors that may have rotted
          Modes,       \* "pipelined", "inline"
          Depth,       \* prefetch_depth_for
          MaxRun,      \* MAX_RUN_SECTORS
          Splits,      \* EIO_SPLIT_FACTOR
          Budget       \* isolation_budget_limit

ASSUME ScrubAssumption ==
    /\ Layout \in Seq([kind : {"data", "other"}, logical : Nat, phys : Nat, len : Nat])
    /\ CsumLeaves \subseteq SUBSET Nat
    /\ \A p \in DOMAIN Content : Content[p] \in Nat
    /\ Modes \subseteq {"pipelined", "inline"}
    /\ {Depth, MaxRun, Budget} \subseteq Nat \ {0}
    /\ Splits \in Nat \ {0, 1}

(* The allocator gives no sector of the device to two extents.             *)
ASSUME LayoutAssumption ==
    \A i \in 1..Len(Layout) : \A j \in 1..Len(Layout) :
        i # j => \/ Layout[i].phys + Layout[i].len <= Layout[j].phys
                 \/ Layout[j].phys + Layout[j].len <= Layout[i].phys

VARIABLES
    mode, batch,
    disk,        \* what each physical sector holds
    mainPc, ext, stream, run, inflight, failed,
    cmds, rsps,  \* sync_channel(Depth) each; the sender of cmds may be dropped
    closed,
    rPc, job,    \* the reader thread and the run it reads
    checked,     \* how often each sector was counted in sectors_checked
    unread,      \* the sectors counted in sectors_read_error as unreadable
    reported,    \* the sectors passed to on_sector
    truncated,   \* the sectors of the runs counted in isolation_truncated
    probed,      \* history: the sectors answered as bad after a read of them alone
    gaps         \* the leaves counted as stale, unverifiable or unreadable

mainVars == <<mainPc, ext, stream, run, inflight, failed>>
chanVars == <<cmds, rsps, closed>>
readVars == <<rPc, job>>
outVars  == <<checked, unread, reported, truncated, probed>>
vars     == <<mode, batch, disk, mainVars, chanVars, readVars, outVars, gaps>>

Sectors(e) == e.logical .. (e.logical + e.len - 1)
Extents    == {Layout[i] : i \in 1..Len(Layout)}
DataExtents == {e \in Extents : e.kind = "data"}

(* A dev-extent maps logical to physical addresses.                        *)
PhysIn(e, s) == e.phys + (s - e.logical)

(* The sectors of data extents that have a checksum in some of the leaves, *)
(* by their place on the device; the scrub is about those of all leaves.   *)
Covered(leaves) ==
    UNION {{PhysIn(e, s) : s \in Sectors(e) \cap UNION leaves} : e \in DataExtents}
Targets == Covered(CsumLeaves)

(* The sector's bytes on the device match its stored checksum.             *)
Sound(p) == disk[p] = Content[p]

ReaderGone == rPc \in {"gone", "panicked"}
NoJob      == [ext |-> 0, phys |-> 0, entries |-> << >>, pieces |-> {}, budget |-> 0,
               good |-> {}, bad |-> {}, alone |-> {}]

-----------------------------------------------------------------------------
(* Main thread.                                                            *)

(* LazyCsumProvider::range: the checksums of an extent, from the leaves of *)
(* the checksum tree that could be had.                                    *)
CsumRange(e, lost) == Sectors(e) \cap UNION (CsumLeaves \ lost)

(* The next dev-extent. Those without a chunk or not holding data are      *)
(* skipped; of a data extent the checksum tree is walked, and every leaf   *)
(* that cannot be had is counted and leaves out its sectors.               *)
NextExtent ==
    /\ mainPc = "extent"
    /\ ext < Len(Layout)
    /\ ext' = ext + 1
    /\ run' = << >>
    /\ LET e == Layout[ext'] IN
         \/ /\ e.kind # "data"
            /\ UNCHANGED <<mainPc, stream, gaps>>
         \/ /\ e.kind = "data"
            /\ mainPc' = "stream"
            /\ \E lost \in SUBSET {l \in CsumLeaves : l \cap Sectors(e) # {}} :
                  /\ stream' = CsumRange(e, lost)
                  /\ gaps' = gaps \cup lost
    /\ UNCHANGED <<mode, batch, disk, inflight, failed, chanVars, readVars, outVars>>

(* A checksum that does not continue the run, or finds it full, sends it   *)
(* off first.                                                              *)
Breaks(s) == run # << >> /\ (s # run[Len(run)] + 1 \/ Len(run) >= MaxRun)

EmitCsum ==
    /\ mainPc = "stream"
    /\ stream # {}
    /\ mainPc' = IF Breaks(Min(stream)) THEN "flush" ELSE "push"
    /\ UNCHANGED <<mode, batch, disk, ext, stream, run, inflight, failed, chanVars, readVars,
                   outVars, gaps>>

PushCsum ==
    /\ mainPc = "push"
    /\ run' = Append(run, Min(stream))
    /\ stream' = stream \ {Min(stream)}
    /\ mainPc' = "stream"
    /\ UNCHANGED <<mode, batch, disk, ext, inflight, failed, chanVars, readVars, outVars, gaps>>

EndExtent ==
    /\ mainPc = "stream"
    /\ stream = {}
    /\ mainPc' = IF run = << >> THEN "extent" ELSE "flush"
    /\ UNCHANGED <<mode, batch, disk, ext, stream, run, inflight, failed, chanVars, readVars,
                   outVars, gaps>>

(* Where a flush came from: a checksum to be pushed, or the extent's end.  *)
AfterFlush == IF stream = {} THEN "extent" ELSE "push"

(* The command to read a run: with the extent it is of and where it starts *)
(* on the device.                                                          *)
ReadCmd(x, entries) ==
    [ext |-> x, phys |-> PhysIn(Layout[x], entries[1]), entries |-> entries]

(* Mutant: the run is copied into the command and stays.                   *)
SendRunCopied ==
    /\ mainPc = "flush"
    /\ ReaderGone \/ Len(cmds) < Depth
    /\ IF ReaderGone
         THEN /\ failed' = TRUE
              /\ mainPc' = "close"
              /\ UNCHANGED <<cmds, inflight>>
         ELSE /\ cmds' = Append(cmds, ReadCmd(ext, run))
              /\ inflight' = inflight + 1
              /\ mainPc' = IF inflight' >= Depth THEN "recv" ELSE AfterFlush
              /\ UNCHANGED failed
    /\ UNCHANGED <<mode, batch, disk, ext, stream, run, rsps, closed, readVars, outVars, gaps>>

(* flush: the run becomes a read command. It blocks while the channel is   *)
(* full, fails when the reader is gone, and takes a response back when     *)
(* Depth commands are under way. The inline scrub reads at once, and keeps *)
(* the run.                                                                *)
SendRun ==
    /\ mainPc = "flush"
    /\ ReaderGone \/ Len(cmds) < Depth
    /\ IF ReaderGone
         THEN /\ failed' = TRUE
              /\ mainPc' = "close"
              /\ UNCHANGED <<cmds, inflight>>
         ELSE /\ cmds' = Append(cmds, ReadCmd(ext, run))
              /\ inflight' = inflight + 1
              /\ mainPc' = IF mode = "inline" \/ inflight' >= Depth THEN "recv" ELSE AfterFlush
              /\ UNCHANGED failed
    /\ run' = IF mode = "inline" THEN run ELSE << >>
    /\ UNCHANGED <<mode, batch, disk, ext, stream, rsps, closed, readVars, outVars, gaps>>

(* Mutant: a region is verified one sector off.                            *)
MatchesShifted(r, i) == disk[r.phys + i] = Content[PhysIn(Layout[r.ext], r.entries[i])]

(* The i-th sector of what was read has the checksum of the i-th entry.    *)
Matches(r, i) == disk[r.phys + i - 1] = Content[PhysIn(Layout[r.ext], r.entries[i])]

(* Mutant: a run of which some sectors were read is not truncated.         *)
TruncatedAllBad(r) == r.budget = 0 /\ r.good = {}

(* The isolation budget of the run was spent.                              *)
Truncated(r) == r.budget = 0

(* process_isolated: a run whose isolation was cut short is counted as     *)
(* truncated; every sector that was read is verified. In batch mode all    *)
(* mismatches and all unreadable sectors are reported; otherwise the       *)
(* mismatches that live metadata and a fresh read confirm.                 *)
Process(r) ==
    LET at(I)  == {PhysIn(Layout[r.ext], r.entries[i]) : i \in I}
        wrong  == at({i \in r.good : ~Matches(r, i)})
        both   == r.good \cup r.bad
        of(p)  == {i \in both : PhysIn(Layout[r.ext], r.entries[i]) = p}
    IN  /\ checked' = [p \in Targets |-> checked[p] + Cardinality(of(p))]
        /\ unread' = unread \cup at(r.bad)
        /\ truncated' = truncated \cup (IF Truncated(r) THEN at(both) ELSE {})
        /\ probed' = probed \cup at(r.alone)
        /\ \/ batch /\ reported' = reported \cup wrong \cup at(r.bad)
           \/ ~batch /\ \E conf \in SUBSET wrong : reported' = reported \cup conf

Receive ==
    /\ rsps # << >>
    /\ rsps' = Tail(rsps)
    /\ inflight' = inflight - 1
    /\ Process(Head(rsps))
    /\ UNCHANGED failed

(* The channel is empty and its sender gone.                               *)
ReceiveError ==
    /\ rsps = << >>
    /\ ReaderGone
    /\ failed' = TRUE
    /\ UNCHANGED <<rsps, inflight, outVars>>

RecvResponse ==
    /\ mainPc = "recv"
    /\ \/ Receive /\ mainPc' = AfterFlush
       \/ ReceiveError /\ mainPc' = "close"
    /\ UNCHANGED <<mode, batch, disk, ext, stream, run, cmds, closed, readVars, gaps>>

(* Mutant: the command sender outlives the drain.                          *)
CloseCommandsLate ==
    /\ mainPc = "close" \/ (mainPc = "extent" /\ ext = Len(Layout))
    /\ mainPc' = "drain"
    /\ UNCHANGED <<mode, batch, disk, ext, stream, run, inflight, failed, cmds, rsps, closed,
                   readVars, outVars, gaps>>

(* All extents are done, or the reader is dead: the sender is dropped.     *)
CloseCommands ==
    /\ mainPc = "close" \/ (mainPc = "extent" /\ ext = Len(Layout))
    /\ closed' = TRUE
    /\ mainPc' = "drain"
    /\ UNCHANGED <<mode, batch, disk, ext, stream, run, inflight, failed, cmds, rsps, readVars,
                   outVars, gaps>>

Drain ==
    /\ mainPc = "drain"
    /\ inflight > 0
    /\ \/ Receive /\ mainPc' = mainPc
       \/ ReceiveError /\ mainPc' = "join"
    /\ UNCHANGED <<mode, batch, disk, ext, stream, run, cmds, closed, readVars, gaps>>

Drained ==
    /\ mainPc = "drain"
    /\ inflight = 0
    /\ mainPc' = "join"
    /\ UNCHANGED <<mode, batch, disk, ext, stream, run, inflight, failed, chanVars, readVars,
                   outVars, gaps>>

(* Mutant: the pipeline's failure is only logged.                          *)
JoinReaderLenient ==
    /\ mainPc = "join"
    /\ ReaderGone
    /\ mainPc' = "ok"
    /\ UNCHANGED <<mode, batch, disk, ext, stream, run, inflight, failed, chanVars, readVars,
                   outVars, gaps>>

(* The scrub is an error if the reader panicked or an answer was lost.     *)
JoinReader ==
    /\ mainPc = "join"
    /\ ReaderGone
    /\ failed' = (failed \/ rPc = "panicked")
    /\ mainPc' = IF failed' THEN "err" ELSE "ok"
    /\ UNCHANGED <<mode, batch, disk, ext, stream, run, inflight, chanVars, readVars, outVars,
                   gaps>>

-----------------------------------------------------------------------------
(* Reader thread, and isolate_run on one run. A piece is a range of the    *)
(* run's indices; pieces still to be read are taken in order.              *)

Piece(first, len) == [first |-> first, len |-> len]
Indices(p)        == p.first .. (p.first + p.len - 1)

ReaderRecv ==
    /\ rPc = "recv"
    /\ cmds # << >>
    /\ job' = [ext |-> Head(cmds).ext, phys |-> Head(cmds).phys, entries |-> Head(cmds).entries,
               pieces |-> {Piece(1, Len(Head(cmds).entries))}, budget |-> Budget,
               good |-> {}, bad |-> {}, alone |-> {}]
    /\ cmds' = Tail(cmds)
    /\ rPc' = "read"
    /\ UNCHANGED <<mode, batch, disk, mainVars, rsps, closed, outVars, gaps>>

ReaderEnd ==
    /\ rPc = "recv"
    /\ cmds = << >>
    /\ closed
    /\ rPc' = "gone"
    /\ UNCHANGED <<mode, batch, disk, mainVars, chanVars, job, outVars, gaps>>

(* The piece isolate_run comes to next.                                    *)
NextPiece == CHOOSE p \in job.pieces : \A q \in job.pieces : p.first <= q.first

(* Mutant: every part gets the rounded-up share.                           *)
SplitRoundedUp(p) ==
    LET k     == IF p.len < Splits THEN p.len ELSE Splits
        share == (p.len + k - 1) \div k
    IN  {Piece(p.first + i * share, share) : i \in 0..(k - 1)}

(* A piece is cut into Splits parts, the first ones a sector longer when   *)
(* it does not divide.                                                     *)
Split(p) ==
    LET k    == IF p.len < Splits THEN p.len ELSE Splits
        base == p.len \div k
        rem  == p.len % k
    IN  {Piece(p.first + i * base + (IF i < rem THEN i ELSE rem),
               base + (IF i < rem THEN 1 ELSE 0)) : i \in 0..(k - 1)}

ReadOk ==
    /\ rPc = "read"
    /\ job.pieces # {}
    /\ job.budget > 0
    /\ job' = [job EXCEPT !.pieces = @ \ {NextPiece}, !.good = @ \cup Indices(NextPiece)]
    /\ UNCHANGED <<mode, batch, disk, mainVars, chanVars, rPc, outVars, gaps>>

(* Any read may fail. It costs budget; a single sector is bad then, and so *)
(* is the whole piece when the budget is gone; otherwise it is split.      *)
(* `alone` records the sectors that failed by themselves.                  *)
ReadFails ==
    /\ rPc = "read"
    /\ job.pieces # {}
    /\ job.budget > 0
    /\ LET p    == NextPiece
           rest == job.pieces \ {p}
           give == p.len = 1 \/ job.budget = 1
       IN  job' = [job EXCEPT !.budget = @ - 1,
                              !.alone = IF p.len = 1 THEN @ \cup {p.first} ELSE @,
                              !.pieces = IF give THEN rest ELSE rest \cup Split(p),
                              !.bad = IF give THEN @ \cup Indices(p) ELSE @]
    /\ UNCHANGED <<mode, batch, disk, mainVars, chanVars, rPc, outVars, gaps>>

(* The budget is spent: what is left is bad without being read.            *)
GiveUp ==
    /\ rPc = "read"
    /\ job.pieces # {}
    /\ job.budget = 0
    /\ job' = [job EXCEPT !.pieces = @ \ {NextPiece}, !.bad = @ \cup Indices(NextPiece)]
    /\ UNCHANGED <<mode, batch, disk, mainVars, chanVars, rPc, outVars, gaps>>

(* The answer goes back, blocking while the channel is full.               *)
ReaderSend ==
    /\ rPc = "read"
    /\ job.pieces = {}
    /\ Len(rsps) < Depth
    /\ rsps' = Append(rsps, job)
    /\ job' = NoJob
    /\ rPc' = "recv"
    /\ UNCHANGED <<mode, batch, disk, mainVars, cmds, closed, outVars, gaps>>

ReaderPanics ==
    /\ mode = "pipelined"
    /\ rPc = "read"
    /\ rPc' = "panicked"
    /\ UNCHANGED <<mode, batch, disk, mainVars, chanVars, job, outVars, gaps>>

-----------------------------------------------------------------------------
Init ==
    /\ mode \in Modes
    /\ batch \in BOOLEAN
    /\ \E rot \in Rots : disk = [p \in DOMAIN Content |->
                                    IF p \in rot THEN Content[p] + 1 ELSE Content[p]]
    /\ mainPc = "extent"
    /\ ext = 0
    /\ stream = {}
    /\ run = << >>
    /\ inflight = 0
    /\ failed = FALSE
    /\ cmds = << >>
    /\ rsps = << >>
    /\ closed = FALSE
    /\ rPc = "recv"
    /\ job = NoJob
    /\ checked = [s \in Targets |-> 0]
    /\ unread = {}
    /\ reported = {}
    /\ truncated = {}
    /\ probed = {}
    /\ gaps = {}

MainStep ==
    \/ NextExtent
    \/ EmitCsum
    \/ PushCsum
    \/ EndExtent
    \/ SendRun
    \/ RecvResponse
    \/ CloseCommands
    \/ Drain
    \/ Drained
    \/ JoinReader

ReaderStep ==
    \/ ReaderRecv
    \/ ReaderEnd
    \/ ReadOk
    \/ ReadFails
    \/ GiveUp
    \/ ReaderSend

Next == MainStep \/ ReaderStep \/ ReaderPanics

Spec == Init /\ [][Next]_vars

(* Both threads are scheduled; every read returns.                         *)
FairSpec == Spec /\ WF_vars(MainStep) /\ WF_vars(ReaderStep)

-----------------------------------------------------------------------------
(* Properties.                                                             *)

(* Type invariant.                                                         *)
TypeOK ==
    /\ mode \in Modes
    /\ batch \in BOOLEAN
    /\ disk \in [DOMAIN Content -> Nat]
    /\ mainPc \in {"extent", "stream", "push", "flush", "recv", "close", "drain", "join",
                   "ok", "err"}
    /\ ext \in 0..Len(Layout)
    /\ stream \subseteq UNION CsumLeaves
    /\ run \in Seq(UNION CsumLeaves)
    /\ inflight \in 0..Depth
    /\ failed \in BOOLEAN
    /\ closed \in BOOLEAN
    /\ Len(cmds) <= Depth
    /\ Len(rsps) <= Depth
    /\ rPc \in {"recv", "read", "gone", "panicked"}
    /\ job.budget \in 0..Budget
    /\ job.good \cup job.bad \subseteq 1..Len(job.entries)
    /\ checked \in [Targets -> Nat]
    /\ unread \subseteq Targets
    /\ reported \subseteq Targets
    /\ truncated \subseteq Targets
    /\ probed \subseteq Targets
    /\ gaps \subseteq CsumLeaves

(* No sector is counted twice, however runs are cut, pieces are split and  *)
(* answers come in: sectors_checked never exceeds what there is.           *)
CheckedOnce == \A p \in Targets : checked[p] <= 1

(* A scrub that returns Ok has checked every sector that has a checksum in *)
(* a data extent, except where it counted a leaf of the checksum tree it   *)
(* could not use - also when the reader thread dies at any point.          *)
OkIsComplete ==
    mainPc = "ok" => \A p \in Targets : checked[p] = 1 \/ p \in Covered(gaps)

(* Nothing but what is wrong is reported, and in batch mode all of it: a   *)
(* checked sector is handed to recovery exactly if its bytes do not have   *)
(* its checksum or could not be read.                                      *)
ReportsExact ==
    mainPc = "ok" =>
        \A p \in Targets : checked[p] > 0 =>
            /\ p \in reported => ~Sound(p) \/ p \in unread
            /\ batch /\ (~Sound(p) \/ p \in unread) => p \in reported

(* What the read errors stand for is told: a sector counted as unreadable  *)
(* failed in a read of its own, or is one of a run counted in              *)
(* isolation_truncated, however failing pieces are split and the budget    *)
(* runs out.                                                               *)
TruncationTold == unread \subseteq probed \cup truncated

(* The scrub returns, whatever fails to read and whenever the reader dies: *)
(* the two threads never wait for each other.                              *)
Returns == <>(mainPc \in {"ok", "err"})

=============================================================================
