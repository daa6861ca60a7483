---------------------------- MODULE LiveFilesystem ----------------------------
(***************************************************************************)
(* The live btrfs filesystem as scrub-rs meets it while repairing a        *)
(* mounted disk: a copy-on-write filesystem that frees sectors, writes new *)
(* data into free ones, and publishes both with a commit; FIFREEZE commits *)
(* and then holds everything until FITHAW. External code, modelled from    *)
(* what freeze.rs, batch_recover.rs and extent.rs rely on.                 *)
(***************************************************************************)
EXTENDS Integers

CONSTANTS Sectors,    \* the sectors the scrub reported
          Contents    \* distinguishable sector contents, each with its checksum

ASSUME FilesystemAssumption == Sectors # {} /\ Contents # {} /\ Contents \subseteq Nat

VARIABLES
    intent,   \* what the filesystem's memory says each sector holds
    live,     \* what the committed checksum tree says each sector holds
    disk,     \* what the raw device returns
    frozen    \* held by FIFREEZE

fsVars == <<intent, live, disk, frozen>>

NoCsum == -1   \* free: no extent, no checksum
Junk   == -2   \* bytes that fail every checksum, or an I/O error

Owned  == Contents \cup {NoCsum}
OnDisk == Contents \cup {Junk}

(* A file is deleted or moved away.                                        *)
FsFree(s) ==
    /\ ~frozen
    /\ intent[s] # NoCsum
    /\ intent' = [intent EXCEPT ![s] = NoCsum]
    /\ UNCHANGED <<live, disk, frozen>>

(* New data goes to a sector free in memory and in the committed trees; it *)
(* is on the device before its checksum is committed.                      *)
FsWrite(s, c) ==
    /\ ~frozen
    /\ intent[s] = NoCsum
    /\ live[s] = NoCsum
    /\ intent' = [intent EXCEPT ![s] = c]
    /\ disk' = [disk EXCEPT ![s] = c]
    /\ UNCHANGED <<live, frozen>>

FsCommit ==
    /\ ~frozen
    /\ live' = intent
    /\ UNCHANGED <<intent, disk, frozen>>

FsStep ==
    \/ \E s \in Sectors : FsFree(s) \/ \E c \in Contents : FsWrite(s, c)
    \/ FsCommit

(* FIFREEZE succeeds on a filesystem that is not frozen, and commits it.   *)
FsFreeze ==
    /\ ~frozen
    /\ frozen' = TRUE
    /\ live' = intent
    /\ UNCHANGED <<intent, disk>>

FsThaw ==
    /\ frozen
    /\ frozen' = FALSE
    /\ UNCHANGED <<intent, live, disk>>

=============================================================================
