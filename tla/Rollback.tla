------------------------------ MODULE Rollback ------------------------------
(***************************************************************************)
(* Anti-rollback at boot: wt_boot_run (src/boot.c) enforces monotonic      *)
(* version floors for the Secure image and for every guest it measures     *)
(* before a guest may run (wt_hsm_rollback_enforce, nvm_boot.c, over the   *)
(* pure checks of rollback.c).  The floors are one object of the vault's   *)
(* flash store, so they survive a reset; everything else is RAM.           *)
(*                                                                         *)
(* One behaviour is the life of a device: it is reset any number of times, *)
(* wolfBoot starts whatever image the boot partition then holds, and the   *)
(* provisioning tool locks the device once.                                *)
(***************************************************************************)
EXTENDS Naturals

CONSTANTS
    Guests,          \* guest ids that can have a measurement record
    Images,          \* Secure images, as wolfBoot can start them
    Version,         \* Version[i]: image_version of the boot handoff for image i
    Record,          \* Record[i]: guest id -> version, the measurement records
                     \* signed into i (a guest may have none)
    NoTable          \* the store holds no table

ASSUME ImagesAssumption ==
    /\ Images # {}
    /\ \A i \in Images : /\ Version[i] \in Nat \ {0}
                         /\ DOMAIN Record[i] \subseteq Guests
                         /\ \A g \in DOMAIN Record[i] : Record[i][g] \in Nat

ASSUME NoTableAssumption == NoTable \notin [image : Nat, guest : [Guests -> Nat]]

VARIABLES
    flash,           \* the stored table, or NoTable: WT_HSM_ROLLBACK_TABLE_ID
    secured,         \* the lifecycle wolfBoot reports is past PSA_ROT_PROVISIONING
    image,           \* the image in the boot partition
    phase,           \* how far wt_boot_run has come since the last reset
    handoff,         \* wt_boot_handoff_consume succeeded
    quarantined,     \* guests wt_monitor_quarantine_guest was called for
    verdict,         \* why enforcement quarantined every guest, or "ok"
    floor,           \* g_image_floor
    floorValid,      \* g_image_floor_valid
    peak             \* history: the highest versions a locked boot launched
                     \* since the vault was last formatted (not in the code)

flashVars == <<flash, secured, image>>
bootVars  == <<phase, handoff, quarantined, verdict, floor, floorValid>>
rbVars    == <<flashVars, bootVars, peak>>

\* A table of floors: one for the image, one per guest.
Tables == [image : Nat, guest : [Guests -> Nat]]
Zero   == [image |-> 0, guest |-> [g \in Guests |-> 0]]

\* g_boot_lifecycle is set only from a consumed handoff; unset it is
\* PSA_LIFECYCLE_UNKNOWN, which is neither of the two unlocked states.
Unlocked == handoff /\ ~secured

\* boot.c:90: a missing handoff reports version zero.
ReportedAs(i, ho) == IF ho THEN Version[i] ELSE 0
Reported == ReportedAs(image, handoff)

\* MUTANT: one version below the floor passes.
PassesBelow(unlocked, version, fl) == unlocked \/ version + 1 >= fl

\* wt_rollback_check
Passes(unlocked, version, fl) == unlocked \/ version >= fl

\* wt_rollback_advance
Advance(version, fl) == IF version > fl THEN version ELSE fl

\* wt_nvm_rollback_load, of a store that can be read
Load == IF flash = NoTable THEN Zero ELSE flash

\* The guests a boot of image i lets run: quarantine leaves them FAULTED, and a
\* guest without a record is refused by the launch verification (Monitor).
Launched == DOMAIN Record[image] \ quarantined

RbInit ==
    /\ flash = NoTable
    /\ secured = FALSE
    /\ image \in Images
    /\ phase = "reset"
    /\ handoff = FALSE
    /\ quarantined = {}
    /\ verdict = "ok"
    /\ floor = 0
    /\ floorValid = FALSE
    /\ peak = Zero

-----------------------------------------------------------------------------
(***************************************************************************)
(* wt_hsm_rollback_enforce.  ho: the handoff was there; reads: the store   *)
(* could be read; stores: it could be written.  A floor table that cannot  *)
(* be read, an image below its floor and an advanced table that cannot be  *)
(* stored each quarantine every guest.  The RAM floor follows the table    *)
(* even when the store fails.                                              *)
(***************************************************************************)
\* The guests whose records fall below their floor in table t.
Downgraded(ho, t) ==
    {g \in DOMAIN Record[image] :
        ~Passes(ho /\ ~secured, Record[image][g], t.guest[g])}

\* Table t with the floors of the image and of the guests that pass advanced.
Advanced(ho, t) ==
    [image |-> Advance(ReportedAs(image, ho), t.image),
     guest |-> [g \in Guests |->
                  IF g \in DOMAIN Record[image] \ Downgraded(ho, t)
                  THEN Advance(Record[image][g], t.guest[g])
                  ELSE t.guest[g]]]

\* Every guest is quarantined.
Refuse(why) == verdict' = why /\ quarantined' = Guests

EnforceUnreadable(ho) ==
    /\ phase = "reset"
    /\ Refuse("unreadable")
    /\ floorValid' = FALSE
    /\ phase' = "enforced"
    /\ handoff' = ho
    /\ UNCHANGED <<flashVars, floor, peak>>

EnforceImage(ho) ==
    /\ phase = "reset"
    /\ ~Passes(ho /\ ~secured, ReportedAs(image, ho), Load.image)
    /\ Refuse("image")
    /\ floor' = Load.image
    /\ floorValid' = TRUE
    /\ phase' = "enforced"
    /\ handoff' = ho
    /\ UNCHANGED <<flashVars, peak>>

EnforceGuests(ho, stores) ==
    /\ phase = "reset"
    /\ Passes(ho /\ ~secured, ReportedAs(image, ho), Load.image)
    /\ LET new == Advanced(ho, Load) IN
       /\ floor' = new.image
       /\ \/ /\ new = Load                \* not changed: nothing to store
             /\ verdict' = "ok"
             /\ quarantined' = Downgraded(ho, Load)
             /\ flash' = flash
          \/ /\ new # Load
             /\ stores
             /\ verdict' = "ok"
             /\ quarantined' = Downgraded(ho, Load)
             /\ flash' = new
          \/ /\ new # Load
             /\ ~stores
             /\ Refuse("store")
             /\ flash' = flash
    /\ floorValid' = TRUE
    /\ phase' = "enforced"
    /\ handoff' = ho
    /\ UNCHANGED <<secured, image, peak>>

(***************************************************************************)
(* The rest of wt_boot_run: wt_hsm_attest_bootstrap provisions the         *)
(* attestation key, and where the lifecycle allows it erases a vault that  *)
(* blocks provisioning, floors included; then the scheduler and the guests *)
(* start.                                                                  *)
(***************************************************************************)
\* wt_nvm_reformat_allowed, and flash_format erased the store.
Reformat ==
    /\ phase = "enforced"
    /\ Unlocked
    /\ flash' = NoTable
    /\ peak' = Zero
    /\ phase' = "bootstrapped"
    /\ UNCHANGED <<secured, image, handoff, quarantined, verdict, floor, floorValid>>

\* Provisioned, or degraded, with the store left as it was.
Provision ==
    /\ phase = "enforced"
    /\ phase' = "bootstrapped"
    /\ UNCHANGED <<flashVars, handoff, quarantined, verdict, floor, floorValid, peak>>

\* History: what a locked boot launches raises the peaks.
Peak ==
    [image |-> IF Launched # {} THEN Advance(Reported, peak.image) ELSE peak.image,
     guest |-> [g \in Guests |-> IF g \in Launched
                                 THEN Advance(Record[image][g], peak.guest[g])
                                 ELSE peak.guest[g]]]

MonitorStart ==
    /\ phase = "bootstrapped"
    /\ phase' = "running"
    /\ peak' = IF Unlocked THEN peak ELSE Peak
    /\ UNCHANGED <<flashVars, handoff, quarantined, verdict, floor, floorValid>>

\* wt_platform_panic: the vault or a guest's relay does not bind, or the scheduler
\* does not start.
Panic ==
    /\ phase \in {"reset", "enforced", "bootstrapped"}
    /\ phase' = "halted"
    /\ UNCHANGED <<flashVars, handoff, quarantined, verdict, floor, floorValid, peak>>

(***************************************************************************)
(* A reset, at any point of the boot or after it: RAM is lost, wolfBoot    *)
(* starts image i, and the device may have been locked meanwhile.          *)
(***************************************************************************)
Reset(i, lock) ==
    /\ phase # "reset"
    /\ phase' = "reset"
    /\ image' = i
    /\ secured' = (secured \/ lock)
    /\ handoff' = FALSE
    /\ quarantined' = {}
    /\ verdict' = "ok"
    /\ floor' = 0
    /\ floorValid' = FALSE
    /\ UNCHANGED <<flash, peak>>

Boot ==
    \/ \E ho \in BOOLEAN : EnforceUnreadable(ho) \/ EnforceImage(ho)
    \/ \E ho, stores \in BOOLEAN : EnforceGuests(ho, stores)
    \/ Reformat
    \/ Provision
    \/ MonitorStart
    \/ Panic

RbNext == Boot \/ \E i \in Images, lock \in BOOLEAN : Reset(i, lock)

(***************************************************************************)
(* What a device's life may do to its floors, for the modules that refine  *)
(* it: wt_boot_run and resets, in any order.                               *)
(***************************************************************************)
RbSpec == RbInit /\ [][RbNext]_rbVars

-----------------------------------------------------------------------------
(***************************************************************************)
(* The floors and the boot state keep their types; only guests the monitor *)
(* has are quarantined (the loops of wt_hsm_rollback_enforce).             *)
(***************************************************************************)
RbTypeOK ==
    /\ flash \in Tables \cup {NoTable}
    /\ secured \in BOOLEAN
    /\ image \in Images
    /\ phase \in {"reset", "enforced", "bootstrapped", "running", "halted"}
    /\ handoff \in BOOLEAN
    /\ quarantined \subseteq Guests
    /\ verdict \in {"ok", "unreadable", "image", "store"}
    /\ floor \in Nat
    /\ floorValid \in BOOLEAN
    /\ peak \in Tables

(***************************************************************************)
(* A boot that enforces the floors never launches a guest older than one   *)
(* it launched before, and launches no guest at all under a Secure image   *)
(* older than one that launched guests before: over every sequence of      *)
(* resets, failed reads, failed stores, lost handoffs and image changes    *)
(* since the vault was last formatted (wt_hsm_rollback_enforce).           *)
(***************************************************************************)
LaunchNewer ==
    phase' = "running" /\ phase # "running" /\ ~Unlocked =>
      /\ Launched # {} => Reported >= peak.image
      /\ \A g \in Launched : Record[image][g] >= peak.guest[g]

NoDowngrade == [][LaunchNewer]_rbVars

(***************************************************************************)
(* While the guests of an enforcing boot run, the store holds floors that  *)
(* cover them: the next reset cannot accept the previous floor again       *)
(* (nvm_boot.c:268, the quarantine after a failed store).                  *)
(***************************************************************************)
Recorded ==
    Launched # {} =>
      /\ Load.image >= Reported
      /\ \A g \in Launched : Load.guest[g] >= Record[image][g]

LaunchRecorded == phase = "running" /\ ~Unlocked => Recorded

(***************************************************************************)
(* The floor the staging gate serves for the rest of the boot              *)
(* (wt_hsm_rollback_image_floor) is never below the stored one, whatever   *)
(* became of the store: a candidate the update service accepts on a locked *)
(* device is not refused as a downgrade when it boots.                     *)
(***************************************************************************)
StagingFloorCovers == floorValid => floor >= Load.image

(***************************************************************************)
(* The stored floors of a locked device never fall, and an unlocked one    *)
(* loses them only by formatting the whole vault: no boot overwrites the   *)
(* table with lower floors, not even one that is let past them             *)
(* (wt_rollback_advance, wt_nvm_rollback_store).                           *)
(***************************************************************************)
FloorsRise ==
    \/ flash' = NoTable /\ ~secured
    \/ /\ Load'.image >= Load.image
       /\ \A g \in Guests : Load'.guest[g] >= Load.guest[g]

FloorsRatchet == [][FloorsRise]_flash

(***************************************************************************)
(* The device never goes back, over every history of resets and failures:  *)
(* no step launches anything older than what an enforcing boot launched    *)
(* before, and none lowers the record of it (wt_hsm_rollback_enforce).     *)
(***************************************************************************)
NeverBack == [][LaunchNewer /\ FloorsRise]_rbVars
=============================================================================
