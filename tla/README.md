# A TLA+ model of rotshield

rotshield scrubs the btrfs disks of an unRAID array and rebuilds rotten
sectors from parity, while the disks stay mounted and in use. This directory
holds a TLA+ model of its core: modules that follow the source, TLC
configurations that check them on small instances, and theorems that TLAPS
proves for every instance. `PROJECT.json` lists the components, the runs, the
source lines each definition stands for, the hazards and the findings.

Paths below are relative to `src/`; `rs/` stands for `scrub-rs/src/`, and
`scrub.sh` for the script of that name under `plugins/source/`.

## 1. Inventory

| Part | State | Operations | Meets |
|---|---|---|---|
| **Runner script** `scrub.sh` | lock directory and pid file, run logs, process tree | `run` (button, cron), `stop` | starts, signals and thaws behind scrub-rs; interleaves with itself at every command |
| **Driver** `rs/main.rs` | sent counter, status, exit code | open, run the scrub, shut the pipeline down, reconcile, exit | filesystem scrub (callbacks), pipeline (channel, joins) |
| **Data scrub** `rs/btrfs/scrub.rs` | runs, commands in flight, statistics | walk extents, stream checksums, read, isolate read errors, verify | reader thread (two bounded channels), checksum provider, driver |
| **Recovery pipeline** `rs/batch_recover.rs` | open batch, pending and deferred candidates, verdict counters | accumulate, hand over, flush, defer, drain | driver, accumulator and writer threads |
| **Freeze control** `rs/freeze.rs` | frozen flag, active mount, hook and handlers | FIFREEZE, FITHAW by guard, controller, panic hook, signal handler | the live filesystem, every thread of the process |
| **Live re-confirmation** `rs/btrfs/extent.rs`, `scrub_driver.rs`, `open.rs` | cached roots | look the sector up in the committed trees | the live filesystem |
| **Parity engine** `rs/recovery/`, `rs/array/stripe.rs`, `parity.rs` | none | gather a stripe, rebuild via P, Q, or both | disks that others write meanwhile |
| **Metadata reading** `rs/btrfs/tree.rs`, `reader.rs`, `open.rs`, `chunk.rs`, `dev_extent.rs`, `csum.rs`, `superblock.rs` | chunk map, roots, walk queues, counters of nodes lost | walk trees, pick mirrors, tell stale from corrupt | a filesystem that rewrites them |
| **Live status** `rs/status.rs`, `status.php` | shared counters, socket | count, serve a snapshot | all threads, the settings page |
| Array configuration, formats, pages, packaging, `nmdctl`, test tools | - | - | - |

What is hard here, and what must hold:

* *Candidates on their way.* A candidate passes from the scrub through two
  channels, a batch, possibly several deferrals, to a verdict. Threads may die
  at any point. None may be lost or counted twice, and if one is, the run must
  not look complete.
* *Writing below a live filesystem.* Between the scan and the write the
  filesystem may free the sector and give it to another file. A repair is right
  only if nothing can change between its last look and its write, and a freeze
  must never outlast the repair.
* *Scripts against scripts.* The button, cron and stop meet in a lock
  directory with no atomic reclaim.
* *A reader that fails.* The reader may meet bad sectors anywhere, run out of
  its budget, or die; the scrub must stay exact or say that it is incomplete.
* *Metadata that moves.* Trees are read node by node from the raw device while
  the filesystem commits new ones and reuses the blocks of the old. What cannot
  be read, or is no longer what the pointer meant, must be told apart, and must
  not make a disk look checked when it was not.
* *Parity that lies.* Parity may be rotten, computed from the rot, or torn by a
  write; the engine must rebuild what can be rebuilt, and know the difference.

`hazards` in PROJECT.json places each of these at its lines, with the
properties that would catch it.

## 2. Modules

| Module | Models | Used by |
|---|---|---|
| `RecoveryPipeline` | main, accumulator and writer threads, from report to exit code | run `pipeline` |
| `RecoveryPipelineProofs` | theorems about it | |
| `LiveFilesystem` | the copy-on-write filesystem and FIFREEZE/FITHAW (external) | extended by the next two |
| `RepairContract` | abstract: what a repair may do to a live disk | refined by `LiveRepair` |
| `LiveRepair`, `MCLiveRepair` | one repair run against a live filesystem, with panics, signals and a stop's thaw pass; the symmetry of its sectors | runs `live_repair`, `live_repair_faults`, `repair_can_race` |
| `LiveRepairProofs` | theorems about it, the refinement among them | |
| `RunLock` | `scrub.sh run` and `stop`, and the freeze windows, signals and deaths of the scrub-rs they start | run `run_lock` |
| `RunLockProofs` | theorems about it | |
| `MetadataStore` | nodes, copies, chunks and superblocks as scrub-rs reads them; the filesystem that rewrites them (external) | extended by the next two |
| `MetadataScan`, `MCMetadataScan` | open, the walks of the chunk, root, device and checksum trees; a small filesystem | runs `metadata_scan`, `csum_root_reused` |
| `MetadataScanProofs` | theorems about it, and about reading nodes | |
| `LiveReconfirm`, `MCLiveReconfirm` | re-confirmation of a candidate, in and out of a freeze window; a small filesystem | runs `reconfirm`, `extent_leaf_edge` |
| `LiveReconfirmProofs`, `LiveVerdictProofs` | theorems about its cache and about its verdicts | |
| `ScrubReader`, `MCScrubReader` | the data scrub and its reader thread; a small device | runs `scrub_reader`, `scrub_inline` |
| `ScrubReaderProofs` | theorems about it | |
| `GaloisField` | the arithmetic of `gf.rs` for any width | `MCParityEngine` |
| `ParityEngine`, `MCParityEngine` | gathering and rebuilding over an abstract field; the field of `GaloisField` | run `parity` |
| `ParityEngineProofs` | theorems about it, over every field | |

Definitions whose comment starts with "Mutant:" are deliberately wrong versions
of the definition after them. Nothing uses them in a normal run; they show that
each property would notice such a bug.

### RecoveryPipeline
`events` is what the scrub reported so far (a sector per report); a candidate
is the index of its report. `chanA` and `chanB` are the channels of
`spawn_pipeline`, each a buffer of one message (`sync_channel(1)`); `batch` is
the accumulator's, `pending` and `work` the writer's vector and the part of it
the current flush has left. `stats` are the counters of `BatchStats`,
`verdict` what each candidate was counted as. Actions are the steps between
two channel operations: `OnEvent` is the driver's callback, `AccRecv*` and
`AccHandOver` the accumulator, `WriterRecv*`, `FlushBegin`, `FreezeTimeout`,
`Classify` and `FlushEnd` the writer, `ScrubOk`, `SendDone`, `Join*`,
`Reconcile`, `Exit` the tail of main. A flush sorts and deduplicates, freezes or
fails to, and classifies candidate by candidate. Which verdict a candidate gets
is a choice among those the window allows; `LiveRepair` looks inside.

### LiveFilesystem, RepairContract, LiveRepair
For each sector, `intent` is what the filesystem has in memory, `live` what its
committed trees say, `disk` what the device returns. The filesystem frees and
writes sectors and commits; FIFREEZE commits and stops it. `LiveRepair` takes
the writer through `guard` (freeze, note the mount, install the handlers: three
steps with gaps), and per candidate through re-confirmation, fresh read,
rebuild, write, dropping of the cache and read-back, each a step, so that the
filesystem, another thread's panic, a signal or a stop may come in between.
`cached` is the page of the sector in the kernel: what a read sees until the
cache is dropped, and what the device need not hold. The hook and the handler
read the noted mount in one step and thaw it in a later one (`hook`, and the
values of `proc`); `StopThaws` is the thaw pass of a stop, which asks nobody.
`mode` says what is repaired: a mounted disk in windows ("live"), one without
windows by choice ("unfrozen": `--no-freeze`, or a mounted disk whose mount was
not given), an offline device, an image file, or nothing, in a dry run.
`RepairContract` allows but one
change beside the filesystem's own: to write, into a sector, what the filesystem
holds it to have. `not_corrupt` cannot occur here, since the fresh read has
just failed the same check; `RecoveryPipeline` admits it all the same.

### RunLock
Every command of the script is a step. A run makes the directory, writes its
pid, sets its trap; or reads the pid, tests the process, removes and remakes the
directory. Then it opens its log, starts scrub-rs per disk, waits, writes
`finished:`, and exits through its trap. `stop` reads the lock, checks the log,
signals children and runner, thaws every mount, records the cancellation and
removes the lock. It waits for the runner only. scrub-rs is a process of its own:
`tool` is off, at work, in its TERM handler ("handling", where its other threads
go on and the handler may wait for ever for a mutex) or past saving ("dying");
`Signalled` says what TERM and KILL make of it, and nothing is dead before
`ToolDies`. A FIFREEZE begins and ends in two steps (`freezing`), and no signal
cuts it short, so a dying scrub-rs may still complete one. `frozen` names the run
whose scrub-rs made the freeze that is there (one mount stands for all), `window`
those that have frozen and not thawed themselves. `owner`, `stolen`, `late` and
`gone` are history: whose mkdir made the directory, whether the lock of a live
run was removed by someone else, whether the runner started a scrub-rs after its
children had last been listed, and which scrub-rs were dead at the thaw pass.

### MetadataStore, MetadataScan, LiveReconfirm
A node is its header (address, generation, level, owner, fsid) and its items; a
copy on the device is a node, bytes that fail their checksum, a failing read, or
a node of another filesystem. `read_node` and `validate_header` are operators
with the names of the code; a walk (`Top`, `Children`, `Pop`) is a stack of
pointers with the header fields each must match, and one pop is one step. The
filesystem writes new nodes into blocks that no tree uses, from any free block
on (`WriteNodes`), then the superblock (`WriteSuper`), between any two reads.
The device may lose one of its writes.

`MetadataScan` goes from the superblock to the sectors handed to `ScrubReader`:
the checks of `open`, the chunk map, the roots, the device extents, and
`LazyCsumProvider::range` per data extent. `missed` is history: the scan lost
something that the code counts nowhere (a stale node in a walk at open; a root
block with another node in it, since roots are read without expectations).

`LiveReconfirm` is one `BtrfsReconfirmer`: the superblock, the cached roots or a
walk of the root tree, the descent of the extent tree and that of the checksum
tree, a node per step. In a window (`Freeze`) the filesystem stands still. It
is what justifies that `LiveRepair` re-confirms in one step: `VerdictLive` says
that in a window the verdict is the truth about the committed trees, whatever
was cached before.

### ScrubReader
The main thread goes through device extents, their checksums, runs; sends
commands, receives when `Depth` are under way, drains and joins. The reader
takes a command, reads its pieces, splits what fails, gives up when the budget
is spent. What cannot be had of the checksum tree is a choice, and is counted.
Which read fails is a choice at each read: a failing disk need not fail twice.
In mode "inline" the main thread waits for each run, and keeps it afterwards,
as the code does. A sector is named by its place on the device: the two copies
of a DUP chunk are two extents with the same logical addresses and the same
checksums, and each copy is to be checked. What the counters and reports are
about is therefore `Targets`, the places of all sectors with a checksum.
`truncated` holds the sectors of the runs counted in `isolation_truncated`, and
`probed`, a history variable, those answered as bad after a read of them alone.

### GaloisField, ParityEngine
The engine works byte by byte, so a block is one field element. The field comes
in as constant operators with their axioms (`FieldAxioms`, `SlotsAssumption`,
`SumAssumption`), so that the same module can be checked over a small field and
be proved about for all. `GaloisField` translates `gf.rs` for any width; TLC
evaluates the axioms over the field it builds, and checks the code's own field
(width 8, reduction 0x1d): all inverses, the order of the generator, and the
powers that the slots of an array use. Gathering is one disk at a time, with a
write of another disk going to data, P and Q in any order meanwhile.
A block past the end of a short disk is a zero block.

## 3. What the runs check

**`pipeline`** (7 properties, 0.7 million states). Three reports over two
sectors, batches of two: so there is a duplicate, a full batch and a partial
one, a deferral of deferred candidates, and every thread may die anywhere.
`Conservation` and `VerdictFinal`: candidates neither vanish nor are counted
twice. `ReconciliationHolds`: main's checks never fail a complete run.
`NothingLost`: any exit but 1 has judged every reported sector. `ExitTruthful`:
what 0 and 4 promise. `Terminates`: main reaches its exit.

**`live_repair`** (0.2 million states) and **`live_repair_faults`** (2
million, up to the symmetry of the sectors). Two sectors and two contents, so
that a freed sector can be rewritten with other data while the other is
repaired, in one batch or in two. Without faults the run implements
`RepairContract` (`RaceFree`) and each freeze ends (`FreezeReleased`), for
mounted disks repaired in windows, offline disks, images and dry runs. With
panics, signals and the thaw pass of a stop, and with repairs outside windows,
what remains true: `DamageNeedsForeignThaw`, `WriterLeavesThawed`,
`EmergencyThawSticks`; `WindowCovered`: hook, handlers and active mount are in
place for every moment of every window, but for the one between FIFREEZE and
their installation; and `RecoveredIsCurrent`: what was counted as recovered is on
the device and stays what the filesystem has there, although the device may lie
about the write and the kernel may answer the read-back from its cache.

**`run_lock`** (0.25 million states). Two runs of up to one disk, and a stop.
Two runs suffice to race for the lock; a third would only repeat one of them.
One disk is enough for a runner to start its scrub-rs before, between and after
the listings of a stop; the safety theorems hold for any number of both.
`ExclusiveUnlessStolen`, `LockReleased` and `RunsEnd` are about the lock.
`StopReaches` says that past the kills only a scrub-rs started after the last
listing works on without a signal pending. `DeadHoldNoFreeze` says what the thaw
pass is worth: whoever was dead by then, of whichever signal and at whatever
step, leaves no freeze. One that outlives the pass may (section 6).

**`metadata_scan`** (87 thousand states). System and metadata chunks in two
copies, two data chunks, trees of two leaves; up to two troubles, each a bad
copy or superblock at the start, a transaction, or a lost write. Four blocks are
free, as many as a transaction writes, so the second one writes over the nodes
the first freed, while walks still point to them. A free block holds an old
checksum leaf at first. `GapsShown`: a scan without header, read or stale counts
was complete, but for the two losses of `missed`. `EmittedOnce`: no sector
twice. `MirrorsSuffice`: on an idle filesystem one good copy of each node is
enough to end well and miss nothing. `MirrorsCounted`: there each damaged node
counts once, although the checksum tree is walked per extent; every leaf of that
tree has sectors of some data extent here, so that each is walked at least once.
`ReadOnce`: no walk comes back to a block it has read, which bounds its length.

**`reconfirm`** (0.5 million states). Three sectors, of which one sits at an edge
between two leaves of the extent tree; two requests, so that the second meets
the cache of the first; two troubles as above, without lost writes. The
versions free an extent, rewrite it, or put one without checksums in its place.
`VerdictLive` is described above; `CacheFresh` says that what is cached for the
generation on the device leads to the committed trees, although outside a
window the root tree is walked after the superblock was read.

**`scrub_reader`** (0.6 million states). Five extents, three of data, of which
two are the copies of a DUP chunk, rotten in different sectors; a gap, a
run limit of four, two commands under way, three-way splits and a budget of
four failing reads: runs break for both reasons, pieces split unevenly, and the
budget runs out. `TruncationTold` says that a sector counted as unreadable was
read alone, or is in a run counted as truncated. Neighbouring sectors hold equal
contents in pairs so that a comparison with the wrong sector may also succeed.

**`parity`** (1.6 million states). Three data disks, P and Q each present or
not, any failing disk, readable or not; up to two blocks of data or parity
rotten, parity recomputed in between or not; one write of another disk.
`OneParityEnough` and `TwoParitiesSolveTwo` are stated on what was gathered, so
they say that a stripe torn by a write is rebuilt as well, if the parity blocks
are of one moment and at most one data block is of another. One stripe of
contents is enough because all paths are linear in the contents; it has a zero
block since that is what a placeholder looks like.

The other four runs each show one statement of the repository not to hold of
the code (section 6), with TLC's counterexample.

Deadlock is checked for `metadata_scan` and `reconfirm`, where the end is a
stuttering step of its own. Elsewhere it is not: every process comes to an end,
and a state without a next step is the normal one. That nobody ends too early,
or waits for ever, is what `Terminates`, `FreezeReleased`, `RunsEnd` and
`Returns` say.

### Bounds
Some constants are parameters the program also has, with smaller values in the
runs: `BatchMax` (`--batch-max`, 64 by default), `Disks` (the configured list of
disks), `Depth` (2 or 4), `MaxRun` (`MAX_RUN_SECTORS`, 16384), `Splits`
(`EIO_SPLIT_FACTOR`, 8) and `Budget` (64 failing reads). The others exist only
to make the runs finite: `MaxEvents` reports of the scrub, and `MaxRot`,
`Stripes` and `Diffs` for the rot, the contents and the racing write of a
stripe, `Trouble` for what befalls the metadata, `MaxRequests` for the
candidates re-confirmed. `MaxItemSpan` is the look-back of
`LazyCsumProvider::range`, with a smaller value. `MaxEvents` also guards
`OnEvent`, and the theorems hold for each of its values.

### Fairness
Weak fairness of each thread as a whole: the operating system schedules a
thread that can run, and a read or a call into the kernel returns. Nothing is
assumed of the filesystem, of errors, panics, signals, or of users who start and
stop runs. In `RunLock` a FIFREEZE that has begun returns and a dying process
dies; scrub-rs comes to its end because of `Terminates`, which is strong fairness
of `ToolExits` since an exit has to wait while it is inside FIFREEZE. Its signal
handler is not fair: the thread it interrupts may hold the mutex it waits for.
In `RecoveryPipeline` the end of the scrub is fair because a device has finitely
many extents; reports are never forced.

## 4. What is proved

All theorems hold for every value of the constants under the assumptions named
in the modules (`ConstantsAssumption` for the pipeline; `FilesystemAssumption`,
`ModesAssumption` and `FaultsAssumption` for live repair; `RunsAssumption` for
the runner; `ScrubAssumption` and `LayoutAssumption`, extents that do not
overlap on the device, for the data scrub; `FieldAxioms`, `SlotsAssumption` and
`SumAssumption` for the parity engine; `StoreAssumption`, `PlacesAssumption`,
every block with places of its own on the device, `LayoutAssumption`, trees that
start in different blocks, `ReconfirmAssumption`, `ScanAssumption`, every tree
with its ROOT_ITEM and the chunk tree in a place of its own, and
`OrderAssumption`, the items of a leaf and of neighbouring leaves in the order of
their keys and not overlapping in whatever version, for the metadata). Each inductive invariant was checked by
TLC on the instance of its run before it was proved.

**RecoveryPipelineProofs.** `TypeCorrect`; `Accounting` (`Conservation`);
`Reconciles` (`ReconciliationHolds`); `Completeness` (`NothingLost`);
`VerdictsKept` (`VerdictFinal`); `ExitCodesTruthful` (`ExitTruthful`). None of
the properties is inductive: `Conservation` speaks of a sum of cardinalities,
which a step changes in two places, and it does not say that the two places
hold different candidates. The inductive invariant `IInv` (theorem
`Invariance`) adds what is missing: the places a candidate can be in are
`Disjoint`, are finite sets of candidates that were sent (`Placed`), the counters
are the cardinalities of the candidates with each verdict (`Counted`); a channel
holds at most one message, and Done is the last (`ChannelsShaped`); and when a
thread has ended, its hands are empty, so that main may rely on a successful
join (`MainSide`, `AccSide`, `WriterSide`). For `Completeness` a second
invariant says that deduplication leaves a twin behind.

**LiveRepairProofs.** `TypeCorrect`; `DamageBounded`, `ThawSticks`,
`EndsThawed`, `EveryWindowCovered` (`WindowCovered`) and `RecoveredStays`
(`RecoveredIsCurrent`) for all faults; and `Refinement`: with no faults and
unless freezing was turned off, `Spec` implies `RepairContract`. The invariant
`LInv` says what a window is worth (`WindowHolds`): unless someone else thawed,
the filesystem is frozen and its memory, its committed trees and the candidate's
checksum agree from the re-confirmation to the write, and the read-back sees the
device; that a sector waits, is in the batch, in hand or judged, and only one of
these (`OnceEach`), which is why no later repair undoes one that was counted; and
that a freeze, and the mark of a foreign thaw, have an owner (`FreezeOwned`). The
refinement adds that without faults nobody is about to thaw (`Calm`).

**RunLockProofs.** `TypeCorrect`, `Exclusion` (`ExclusiveUnlessStolen`),
`LockGone` (`LockReleased`), `StopIsThorough` (`StopReaches`) and
`NoFreezeOfTheDead` (`DeadHoldNoFreeze`), for any number of runs and disks.
Mutual exclusion is not inductive because the lock is a directory and not a flag:
a second run may be on its way through the reclaim with a pid it read long ago.
`RInv` adds who owns the directory at each step of a run (`HolderOwns`,
`LockUsed`), what a dead run may leave behind (`LeftOver`), that from each kill on
the scrub-rs of the run is off, in its handler or dying unless it was started
since (`TreeReached`), and that whoever is inside FIFREEZE is not dead, while the
dead of the thaw pass stay dead and hold no freeze (`FreezeHeld`).

**ParityEngineProofs.** `TypeCorrect`, `OneParity` (`OneParityEnough`),
`TwoParities` (`TwoParitiesSolveTwo`) and `BakedInRecognised` (`BakedInTold`),
over every field of characteristic two and every finite set of slots. From the
field axioms come the laws of cancellation; from the law of the sum (a
single term can be taken out), that P and Q each
determine one missing block (`ViaPRight`, `ViaQRight`) and both together two
(`SolveTwoRight`), since the weights of two slots differ. `EInv` says what the
gathered stripe is made of while another disk is written (`Shape`, `Unraced`),
and that each path tried so far was tried on exactly that stripe and rejected
for what it is (`Rejected`, `FoundOut`): the properties speak of the last path,
which is only reached if the earlier ones failed.

**ScrubReaderProofs.** In both modes `TypeCorrect` and `Isolation`
(`TruncationTold`). `TInv` says what the queues hold: each command, the run in
the reader's hand and each answer is a whole run of one extent (`Belongs`), cut
up into what was read, what was given up and the pieces still to be read
(`CutUp`), with every sector given up while the budget lasts read alone before. That a split leaves out no sector is arithmetic (`SplitParts`: the
parts begin where the one before ends, and the last ends with the piece).
With a reader thread, `NoneTwice` (`CheckedOnce`), `Complete` (`OkIsComplete`)
and `ReportsAreExact` (`ReportsExact`); `mode = "pipelined"` is a hypothesis
because they are false of the fallback (section 6). The answers, the run in
hand and the commands are taken as one queue (`Pipe`), which no step of the
reader changes (`ReaderKeeps`): a send adds a run at its end, a receive takes
its first. `PInv` says that each sector the walk has passed is counted, in a
gap, in one run under way, or waiting for its run, and only one of them
(`CountOK`, `NoneLost`), also after the reader has died, until the failure is
noticed; that runs are of neighbours and start where their first entry is
(`PipeOK`), so that each sector is compared with its own checksum; and what is
left to wait at each step of the main thread (`RunOK`).

**LiveReconfirmProofs.** `CacheIsFresh` (`CacheFresh`), for every filesystem
whose root tree is one leaf, any bad copies and any number of commits and
requests. The code reads the superblock, walks the root tree later, and files
the roots under the generation it read first; that this is sound is not local
to any of these steps. `CInv` says why: a transaction goes only to blocks that
neither the committed nor the written trees use, so that as long as the
generation stands, every copy of the root leaf is that leaf or bad (`StoreOK`;
lemma `Transaction`); each superblock that verifies is the last one
(`SupersOK`); and what was read under the present generation agrees with the
committed trees, while anything read under an older one stays marked with it
(`SuperReadOK`, `WalkOK`, `CachedOK`). A walk that was overtaken by a commit may
read anything at the old root's block; its roots are then filed under a
generation that the superblock never has again.

**LiveVerdictProofs.** `VerdictIsLive` (`VerdictLive`): what a request in a
window answers is what the committed trees say of the sector, for all trees that
are in order, any bad copies and any number of commits between windows. The
invariant `VInv` (theorem `VerdictInvariance`) has four parts besides the
property. `TreesOK`: every copy of every node of the committed and of the
written trees is that node or bad, because a transaction goes to free blocks
only (lemma `TransactionSound`, with `TreeMoved` for one rewritten tree), and the
items of every leaf are in order. `WindowOK`: in a window nothing is written but
not committed. `RootsOK`: the roots a request goes by are those of the committed
trees, from the cache (`CInv`) or from its own walk. `DescentOK`: each step of a
search stands at a node of the committed tree from which the leaf that can hold
the target (`Chosen`, the last that begins at or before it) is reached. The rest
is about the operators: `PartitionPoint` says what a binary search by a monotone
predicate returns; `CoverRight` and `CsumRight` that in the chosen leaf the item
before that point decides; `ExtentLeafDecides` and `CsumLeafDecides` that no
other leaf has an item that reaches the sector. The two exceptions the property
names (`LeafEdge`, `Impostor`) are where this argument has a gap and so has the
code.

**MetadataScanProofs.** `TypeCorrect`, `ReadOnceHolds` (`ReadOnce`),
`EmittedOnceHolds` (`EmittedOnce`), `GapsShownHolds` (`GapsShown`) and
`MirrorsSufficeHolds` (`MirrorsSuffice`), for trees of any number of leaves, any chunks and extents, any number of transactions, bad
copies and lost writes. The filesystem writes between any two reads of a walk,
into blocks the walk still points to, so none of the properties is inductive. The
invariant `SInv` (theorem `ScanInvariance`) says first what can be on the device
(`StoreOK`): in every place a bad copy or a node of one of the trees, of the
tree's present or an earlier version, whose pointers were right when it was
written; a block that is written again carries a later generation (lemma
`Transaction`). Then what a walk has in hand (`QueueOK`):
before its first read the root alone; afterwards pointers to leaves of one tree,
in the order of the leaves and in different blocks, each to a block that holds
that very leaf or nothing of that generation, none of them read before. That is
why the generation, level and owner in a pointer suffice to keep out whatever has
taken the block. `ExtentsOK` and `EmittedOK` follow from it: each leaf's
extents and sectors lie between those of the leaf before and of the next in
whatever version (`OrderAssumption`), so that lists only grow upwards; and unless a
loss was counted or noted, every leaf is still ahead or has given what it always
has. Filters and sorts are written with the rank of an element
(`Pick`, `Sorted`), so that what they return is a fact about finite sets
(lemmas `PickIs`, `SortedRising`) and needs no induction over sequences.
`MirrorsSuffice` needs a second invariant, `IdleOK`, on top of `SInv`: until a
transaction is written, every copy of a node in use is that node or bad and every
superblock that verifies describes the first trees (`FirstOK`); and if each node
has a good copy, nothing has been counted or lost, a walk is at the top of its own
tree or holds exact pointers to its leaves, and every leaf of the root tree that
is no longer ahead has given the roots it lists (`Unharmed`). Hence every read
finds the good copy whichever mirror it is (lemma `GoodRead`), no root is missing
when `RootsKnown` looks for it, and that nothing was missed then follows from
`GapsShown`. It uses of the root tree that it lists the FS tree too, and of the
superblock that its system chunks map the chunk tree (`ScanAssumption`).

Out of the prover's reach, and left to TLC: all liveness properties and the
recursive arithmetic of `GaloisField`. Also left to TLC: `MirrorsCounted`,
whose exact count depends on every leaf of the checksum tree being met by some
extent and on no tree being there that the scan does not walk, and the types of
`LiveReconfirm`.

## 5. Limits of the model

* A candidate's verdict in `RecoveryPipeline` is chosen freely among those the
  window admits; `LiveRepair` and `ParityEngine` say when each occurs.
* In `LiveRepair` the sectors that the scrub could not read, and reads that fail
  for once, are in the choice of `FreshRead`; an I/O error of a sector is one of
  the contents of its disk. Main's scrubbing and joining are one state, there is
  one mount, and the host device of an image file is not looked at. The handler
  may thaw and clear the note in one step, because no window can begin between:
  the writer's own thaw has to fail first.
* In `LiveRepair` the committed trees are read atomically. In a window they
  cannot change (`LiveReconfirm`, `VerdictLive`); outside of one the reads may
  mix two commits, but then nothing is written. The error of `extent_leaf_edge`
  only leaves a sector unrepaired, so it cannot break what `LiveRepair` says.
* `MetadataStore` has trees of at most two levels, one device, and chunk trees
  that no transaction rewrites; parsing bytes into nodes is left out. Whether a
  transaction's node writes are ordered among themselves cannot be observed,
  since none is reachable before the superblock.
* `LiveReconfirm` loses no writes. The descents read every node without
  expectations, and `generation_mismatch`, which is also how a copy at the wrong
  address or of another filesystem is reported, is ignored (`extent.rs:132-142`):
  they follow a copy that a lost write left behind, and one that fails the address
  or the fsid check as well. `rs/btrfs/reader.rs:296-297` says otherwise of the
  address: "All checks are optional except bytenr: the node must sit where its
  parent's key pointer claimed it sits".
* `counted` in `LiveReconfirm` is one flag for all metadata counters.
* Rewrites in place (NODATACOW) have no checksum and are never candidates.
* Caches between the raw device and the filesystem are not modelled beyond
  what the read-back does about them.
* In `RunLock` one mount stands for all; FITHAW from the shell succeeds when
  the mount is frozen, and `fsfreeze` is installed. A scrub-rs that ends by itself
  may leave its freeze behind there, since `LiveRepair` says when it does.
* Counters are unbounded numbers: 64-bit overflow is out of reach of any run.

## 6. Findings

1. *A write without a freeze* (`repair_can_race`): the panic hook and the signal
   handler thaw the filesystem while the writer goes on. So does the thaw pass of
   a `stop`, which thaws every mount: that of the run it stops while the
   writer lives on, or that of a new run, which started when the trap of the killed
   one released the lock. The theorem `DamageBounded` says that there is no other
   way, unless freezing is turned off.
2. *The fallback without a reader thread* (`scrub_inline`) keeps its run after
   a flush, and checks sectors after a gap against the wrong bytes.
3. *A checksum tree that moved away* (`csum_root_reused`): its root is resolved
   once and read without expectations. When its block is reused by another tree
   in mid-scrub, the walks find no checksums, nothing is scrubbed from there on,
   and no counter says so, where the help text promises a count.
4. *Stale that is corrupt* (`extent_leaf_edge`): the search for the covering
   extent item stays within one leaf. If the item is the last of its leaf and an
   item of the same extent begins the next, a corrupt sector is called stale,
   which the help text calls benign.

Five more statements of the repository do not hold of the code. Each is a
definition at the end of its module, and the configuration named here lets TLC
find the counterexample; the properties of the runs bound what can happen
instead.

* `SameDiskSameCode` (`RecoveryPipelineCode.cfg`): "the same disk yields the same
  code in dry-run and repair mode" (`rs/main.rs:3-4`, `scrub.sh:325-326`). A batch
  that cannot be frozen turns a recoverable disk into exit 5 (`rs/main.rs:595`).
* `DeathLeavesThawed` (`LiveRepairDeath.cfg`): "Thaw is guaranteed by layers"
  (`rs/freeze.rs:5-7`), "always released automatically — even if the tool itself
  crashes" (`README.md:104-105`). When the scrub fails, main returns without
  joining the writer (`rs/main.rs:431`), and ends the process with the writer in
  its window. The same can happen when another thread panics, or a signal is
  handled, between two batches, and the next window opens before main returns or
  the signal is raised again; and, before the layers are in place, when the process
  dies between FIFREEZE and the handlers.
* `StopLeavesThawed` (`RunLockThawPass.cfg`): the thaw pass comes "AFTER the tree
  is dead (so scrub-rs's own signal handler / RAII can't race it)"
  (`scrub.sh:732-736`). Only the runner is waited for (719-730): a scrub-rs that
  was signalled inside FIFREEZE completes it after the pass and dies frozen, and
  one whose handler waits for the mutex can still open a window.
* `MutualExclusion` (`RunLockExclusion.cfg`): "mkdir is atomic, so exactly one
  process wins" (`scrub.sh:295-296`). A run loses its lock to a stop that reads it
  before the pid is written (668), or to a run that takes it for stale (313-315);
  two that reclaim one stale lock may both win. `stolen` in
  `ExclusiveUnlessStolen` is this.
* `RealOutcomeStands` (`RunLockLateStop.cfg`): a stop must not "append a fake
  cancellation after a real completion" (`scrub.sh:675-677`). It looks for the
  finished line once (679) and appends its own much later (743-761).

One observation has no text against it: a scrub-rs may survive `stop` if the
runner starts it between the listing of its children and its own death (`late` in
`StopReaches`).

## 7. Not covered, and the plan

Hazards without a property, with the reason in PROJECT.json: a cancellation
recorded after a run has finished, which the code does not avoid (section 6); a
pid reused after a reboot, which the scripts cannot tell from a run under way; the
status socket and the order of the states it shows.

Done: the pipeline, live repair with its contract, the runner's lock with
freezes, the data scrub and the parity engine, all with their proofs; live
re-confirmation, with proofs about its cache and its verdicts; the metadata scan,
with proofs that it repeats nothing and that its counters tell of what it misses.

Left: `StatusServer`, the socket and the order of the states shown.

Not modelled: parsing of on-disk formats and configuration (no state), the
counters and the text of the live status, pages and packaging, the test tools
(`craft_corrupt` among them, which only prepares images for the tests), and
`nmdctl`, which is third-party.
