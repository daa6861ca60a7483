---------------------------- MODULE RepairContract ----------------------------
(***************************************************************************)
(* What a repair of a live filesystem promises, whatever the filesystem    *)
(* does meanwhile: the only change scrub-rs makes to the device is to      *)
(* rewrite, in one step, a sector with the very content the filesystem     *)
(* holds it to have. No data the filesystem wrote is ever replaced by an   *)
(* older version, and no free sector is written.                           *)
(***************************************************************************)
EXTENDS LiveFilesystem

(* A device that fails while it is written may leave bytes that fail the   *)
(* checksum, as it did before.                                             *)
Repair(s) ==
    /\ intent[s] # NoCsum
    /\ \E c \in {intent[s], Junk} : disk' = [disk EXCEPT ![s] = c]
    /\ UNCHANGED <<intent, live, frozen>>

Init ==
    /\ intent \in [Sectors -> Contents]
    /\ live = intent
    /\ disk \in [Sectors -> OnDisk]
    /\ frozen = FALSE

Next == FsStep \/ FsFreeze \/ FsThaw \/ \E s \in Sectors : Repair(s)

Spec == Init /\ [][Next]_fsVars

=============================================================================
