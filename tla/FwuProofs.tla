----------------------------- MODULE FwuProofs ------------------------------
(***************************************************************************)
(* The theorems about Rollback, the boot that enforces the version floors, *)
(* and about Fwu, the update service on top of it, for every set of        *)
(* images, guests, versions and clients.                                   *)
(***************************************************************************)
EXTENDS Fwu, Integers, TLAPS

-----------------------------------------------------------------------------
(* The boot: anti-rollback *)

\* What wt_boot_run has decided about the guests, between enforcement and launch.
NotOlder ==
    /\ Launched # {} => Reported >= peak.image
    /\ \A g \in Launched : Record[image][g] >= peak.guest[g]

\* The store covers everything an enforcing boot launched.
Covered ==
    /\ Load.image >= peak.image
    /\ \A g \in Guests : Load.guest[g] >= peak.guest[g]

(***************************************************************************)
(* The inductive invariant.  Recorded is established by enforcement and    *)
(* lasts to the launch because an enforcing boot never formats the vault;  *)
(* with it the launch keeps the peaks under the stored floors, which is    *)
(* what makes the next boot's comparison with the floors a comparison with *)
(* everything launched before.                                             *)
(***************************************************************************)
RbInv ==
    /\ RbTypeOK
    /\ Covered
    /\ StagingFloorCovers
    /\ phase \in {"enforced", "bootstrapped", "running"} /\ ~Unlocked => Recorded
    /\ phase \in {"enforced", "bootstrapped"} /\ ~Unlocked => NotOlder

(***************************************************************************)
(* wt_nvm_rollback_load returns a table of floors, zero where none is      *)
(* stored.                                                                 *)
(***************************************************************************)
LEMMA LoadType ==
  ASSUME RbTypeOK
  PROVE  /\ Load \in Tables
         /\ Load.image \in Nat
         /\ \A g \in Guests : Load.guest[g] \in Nat
  BY Zenon DEF RbTypeOK, Load, Tables, Zero

(***************************************************************************)
(* wt_rollback_advance never lowers a floor and reaches the version.       *)
(***************************************************************************)
LEMMA AdvanceRaises ==
  ASSUME NEW v \in Nat, NEW f \in Nat
  PROVE  /\ Advance(v, f) \in Nat
         /\ Advance(v, f) >= f
         /\ Advance(v, f) >= v
         /\ \A n \in Nat : n >= f /\ n >= v => n >= Advance(v, f)
  BY DEF Advance

(***************************************************************************)
(* The versions a boot compares: the reported image version and the        *)
(* records of the image.                                                   *)
(***************************************************************************)
LEMMA VersionTypes ==
  ASSUME RbTypeOK, NEW ho \in BOOLEAN
  PROVE  /\ ReportedAs(image, ho) \in Nat
         /\ DOMAIN Record[image] \subseteq Guests
         /\ \A g \in DOMAIN Record[image] : Record[image][g] \in Nat
  BY ImagesAssumption, Zenon DEF RbTypeOK, ReportedAs

(***************************************************************************)
(* Enforcement computes a table that covers the old floors, the reported   *)
(* image version and every guest it lets pass.                             *)
(***************************************************************************)
LEMMA AdvancedCovers ==
  ASSUME RbTypeOK, NEW ho \in BOOLEAN
  PROVE  /\ Advanced(ho, Load) \in Tables
         /\ Advanced(ho, Load).image >= Load.image
         /\ Advanced(ho, Load).image >= ReportedAs(image, ho)
         /\ \A g \in Guests : Advanced(ho, Load).guest[g] >= Load.guest[g]
         /\ \A g \in DOMAIN Record[image] \ Downgraded(ho, Load) :
              Advanced(ho, Load).guest[g] >= Record[image][g]
  <1> DEFINE new == Advanced(ho, Load)
             pass == DOMAIN Record[image] \ Downgraded(ho, Load)
  <1>1. new.image = Advance(ReportedAs(image, ho), Load.image)
    BY Zenon DEF Advanced
  <1>2. \A g \in Guests : new.guest[g] = IF g \in pass
                                         THEN Advance(Record[image][g], Load.guest[g])
                                         ELSE Load.guest[g]
    BY Zenon DEF Advanced
  <1>3. /\ new.image \in Nat
        /\ new.image >= Load.image
        /\ new.image >= ReportedAs(image, ho)
    BY <1>1, LoadType, VersionTypes, AdvanceRaises, Zenon
  <1>4. ASSUME NEW g \in Guests
        PROVE  /\ new.guest[g] \in Nat
               /\ new.guest[g] >= Load.guest[g]
               /\ g \in pass => new.guest[g] >= Record[image][g]
    <2>1. CASE g \in pass
      <3>1. Record[image][g] \in Nat /\ Load.guest[g] \in Nat
        BY <2>1, LoadType, VersionTypes, Zenon
      <3>2. new.guest[g] = Advance(Record[image][g], Load.guest[g])
        BY <1>2, <2>1, Zenon
      <3> QED BY <2>1, <3>1, <3>2, AdvanceRaises, Zenon
    <2>2. CASE g \notin pass
      BY <2>2, <1>2, LoadType
    <2> QED BY <2>1, <2>2, Zenon
  <1>5. new \in Tables
    <2>1. new = [image |-> new.image, guest |-> new.guest]
      BY Zenon DEF Advanced
    <2>2. new.guest = [g \in Guests |-> new.guest[g]]
      BY Zenon DEF Advanced
    <2>3. new.guest \in [Guests -> Nat]
      BY <2>2, <1>4, Zenon
    <2> QED BY <2>1, <2>3, <1>3, Zenon DEF Tables
  <1>6. pass \subseteq Guests
    BY VersionTypes, Zenon
  <1> QED BY <1>3, <1>4, <1>5, <1>6, Zenon

(***************************************************************************)
(* An out-of-the-box device has launched nothing.                          *)
(***************************************************************************)
LEMMA InitRb == RbInit => RbInv
  <1> SUFFICES ASSUME RbInit PROVE RbInv
    BY Zenon
  <1>1. Zero \in Tables /\ Zero.image = 0 /\ \A g \in Guests : Zero.guest[g] = 0
    BY Zenon DEF Zero, Tables
  <1>2. RbTypeOK
    BY <1>1, Zenon DEF RbInit, RbTypeOK
  <1>3. Load = Zero /\ peak = Zero
    BY Zenon DEF RbInit, Load
  <1>4. Covered
    BY <1>1, <1>3 DEF Covered
  <1> QED BY <1>2, <1>4, Zenon DEF RbInv, RbInit, StagingFloorCovers

(***************************************************************************)
(* A step that leaves the stored floors and the peaks alone and decides    *)
(* nothing new about the guests.                                           *)
(***************************************************************************)
LEMMA SameStore ==
  ASSUME UNCHANGED <<flash, peak>>
  PROVE  Load' = Load /\ (Covered => Covered')
  BY Zenon DEF Load, Covered

(***************************************************************************)
(* A boot that refuses every guest launches none, so it can neither launch *)
(* an old version nor an unrecorded one.                                   *)
(***************************************************************************)
LEMMA RefuseStep ==
  ASSUME RbInv, quarantined' = Guests, UNCHANGED <<flashVars, peak>>,
         RbTypeOK', StagingFloorCovers'
  PROVE  RbInv'
  <1>1. RbTypeOK /\ Covered
    BY Zenon DEF RbInv
  <1>2. UNCHANGED <<flash, secured, image, peak>>
    BY Zenon DEF flashVars
  <1>3. Launched' = {}
    BY <1>1, <1>2, VersionTypes, Zenon DEF Launched
  <1>4. Recorded' /\ NotOlder'
    BY <1>3, Zenon DEF Recorded, NotOlder
  <1>5. Covered'
    BY <1>1, <1>2, SameStore, Zenon
  <1> QED BY <1>4, <1>5, Zenon DEF RbInv

(***************************************************************************)
(* The boot that passes: the floors it leaves in the store cover what it   *)
(* lets run, and what it lets run is not below the floors it found.        *)
(***************************************************************************)
LEMMA PassStep ==
  ASSUME RbInv, NEW ho \in BOOLEAN,
         Passes(ho /\ ~secured, ReportedAs(image, ho), Load.image),
         quarantined' = Downgraded(ho, Load), handoff' = ho,
         Load' = Advanced(ho, Load), floor' = Advanced(ho, Load).image,
         UNCHANGED <<secured, image, peak>>, RbTypeOK'
  PROVE  RbInv'
  <1>1. RbTypeOK /\ Covered
    BY Zenon DEF RbInv
  <1> DEFINE new == Advanced(ho, Load)
             pass == DOMAIN Record[image] \ Downgraded(ho, Load)
  <1>2. /\ new.image \in Nat /\ Load.image \in Nat /\ peak.image \in Nat
        /\ new.image >= Load.image /\ new.image >= ReportedAs(image, ho)
        /\ Load.image >= peak.image /\ ReportedAs(image, ho) \in Nat
    BY <1>1, AdvancedCovers, LoadType, VersionTypes, Zenon DEF Tables, RbTypeOK, Covered
  <1>3. ASSUME NEW g \in Guests
        PROVE  /\ new.guest[g] \in Nat /\ Load.guest[g] \in Nat /\ peak.guest[g] \in Nat
               /\ new.guest[g] >= Load.guest[g] /\ Load.guest[g] >= peak.guest[g]
    BY <1>1, AdvancedCovers, LoadType, Zenon DEF Tables, RbTypeOK, Covered
  <1>4. pass \subseteq Guests /\ Launched' = pass /\ Reported' = ReportedAs(image, ho)
        /\ \A g \in pass : Record[image][g] \in Nat /\ new.guest[g] >= Record[image][g]
    BY <1>1, AdvancedCovers, VersionTypes, Zenon DEF Launched, Reported
  <1>5. Unlocked' <=> (ho /\ ~secured)
    BY Zenon DEF Unlocked
  <1>6. ASSUME ~(ho /\ ~secured)
        PROVE  /\ ReportedAs(image, ho) >= Load.image
               /\ \A g \in pass : Record[image][g] >= Load.guest[g]
    BY <1>6, Zenon DEF Passes, Downgraded
  <1> HIDE DEF new, pass
  <1>7. Load' = new /\ floor' = new.image /\ image' = image /\ peak' = peak
    BY Zenon DEF new
  <1>8. Covered'
    BY <1>2, <1>3, <1>7 DEF Covered
  <1>9. StagingFloorCovers'
    BY <1>2, <1>7 DEF StagingFloorCovers
  <1>10. Recorded'
    BY <1>2, <1>4, <1>7, Zenon DEF Recorded
  <1>11. ~Unlocked' => NotOlder'
    BY <1>2, <1>3, <1>4, <1>5, <1>6, <1>7 DEF NotOlder
  <1> QED BY <1>8, <1>9, <1>10, <1>11, Zenon DEF RbInv

(***************************************************************************)
(* wt_hsm_rollback_enforce keeps the invariant, whatever the store does.   *)
(***************************************************************************)
LEMMA EnforceStep ==
  ASSUME RbInv, NEW ho \in BOOLEAN, NEW stores \in BOOLEAN,
         EnforceUnreadable(ho) \/ EnforceImage(ho) \/ EnforceGuests(ho, stores)
  PROVE  RbInv'
  <1>1. RbTypeOK
    BY Zenon DEF RbInv
  <1>2. CASE EnforceUnreadable(ho)
    <2>1. RbTypeOK'
      BY <1>1, <1>2, Zenon DEF EnforceUnreadable, Refuse, flashVars, RbTypeOK
    <2>2. StagingFloorCovers'
      BY <1>2, Zenon DEF EnforceUnreadable, StagingFloorCovers
    <2> QED BY <1>2, <2>1, <2>2, RefuseStep, Zenon DEF EnforceUnreadable, Refuse
  <1>3. CASE EnforceImage(ho)
    <2>1. Load' = Load
      BY <1>3, SameStore, Zenon DEF EnforceImage, flashVars
    <2>2. RbTypeOK'
      BY <1>1, <1>3, LoadType, Zenon DEF EnforceImage, Refuse, flashVars, RbTypeOK
    <2>3. StagingFloorCovers'
      BY <1>1, <1>3, <2>1, LoadType DEF EnforceImage, StagingFloorCovers
    <2> QED BY <1>3, <2>2, <2>3, RefuseStep, Zenon DEF EnforceImage, Refuse
  <1>4. CASE EnforceGuests(ho, stores)
    <2> DEFINE new == Advanced(ho, Load)
    <2>1. /\ Passes(ho /\ ~secured, ReportedAs(image, ho), Load.image)
          /\ phase' = "enforced" /\ handoff' = ho /\ floorValid' = TRUE
          /\ floor' = new.image /\ UNCHANGED <<secured, image, peak>>
          /\ \/ /\ new = Load /\ flash' = flash
                /\ verdict' = "ok" /\ quarantined' = Downgraded(ho, Load)
             \/ /\ flash' = new
                /\ verdict' = "ok" /\ quarantined' = Downgraded(ho, Load)
             \/ flash' = flash /\ Refuse("store")
      BY <1>4, Zenon DEF EnforceGuests
    <2>2. /\ new \in Tables /\ new.image \in Nat /\ Load.image \in Nat
          /\ new.image >= Load.image
      BY <1>1, AdvancedCovers, LoadType, Zenon DEF Tables
    <2>3. Downgraded(ho, Load) \subseteq Guests
      BY <1>1, VersionTypes, Zenon DEF Downgraded
    <2> HIDE DEF new
    <2>4. RbTypeOK'
      BY <1>1, <2>1, <2>2, <2>3, Zenon DEF Refuse, RbTypeOK
    <2>5. CASE flash' = flash /\ Refuse("store")
      <3>1. Load' = Load
        BY <2>1, <2>5, SameStore, Zenon
      <3>2. StagingFloorCovers'
        BY <2>1, <2>2, <3>1, Zenon DEF StagingFloorCovers
      <3> QED BY <2>1, <2>4, <2>5, <3>2, RefuseStep, Zenon DEF Refuse, flashVars
    <2>6. CASE /\ verdict' = "ok" /\ quarantined' = Downgraded(ho, Load)
               /\ flash' = new \/ (new = Load /\ flash' = flash)
      <3>1. Load' = new
        BY <2>2, <2>6, NoTableAssumption, Zenon DEF Load, Tables
      <3> QED BY <2>1, <2>4, <2>6, <3>1, PassStep, Zenon DEF new
    <2> QED BY <2>1, <2>5, <2>6, Zenon
  <1> QED BY <1>2, <1>3, <1>4, Zenon

(***************************************************************************)
(* The launch raises the peaks to what it launches, which the store        *)
(* already covers.                                                         *)
(***************************************************************************)
LEMMA PeakCovered ==
  ASSUME RbTypeOK, Covered, Recorded
  PROVE  /\ Peak \in Tables
         /\ Load.image >= Peak.image
         /\ \A g \in Guests : Load.guest[g] >= Peak.guest[g]
  <1>1. /\ Peak.image = IF Launched # {} THEN Advance(Reported, peak.image) ELSE peak.image
        /\ \A g \in Guests : Peak.guest[g] = IF g \in Launched
                                             THEN Advance(Record[image][g], peak.guest[g])
                                             ELSE peak.guest[g]
        /\ Peak = [image |-> Peak.image, guest |-> Peak.guest]
        /\ Peak.guest = [g \in Guests |-> Peak.guest[g]]
    BY Zenon DEF Peak
  <1>2. Peak.image \in Nat /\ Load.image >= Peak.image
    <2>1. Reported \in Nat /\ peak.image \in Nat /\ Load.image \in Nat
      BY VersionTypes, LoadType, Zenon DEF Reported, RbTypeOK, Tables
    <2>2. Load.image >= peak.image /\ (Launched # {} => Load.image >= Reported)
      BY Zenon DEF Covered, Recorded
    <2> QED BY <1>1, <2>1, <2>2, AdvanceRaises
  <1>3. ASSUME NEW g \in Guests
        PROVE  Peak.guest[g] \in Nat /\ Load.guest[g] >= Peak.guest[g]
    <2>1. peak.guest[g] \in Nat /\ Load.guest[g] \in Nat /\ Load.guest[g] >= peak.guest[g]
      BY LoadType, Zenon DEF RbTypeOK, Tables, Covered
    <2>2. CASE g \in Launched
      <3>1. Record[image][g] \in Nat /\ Load.guest[g] >= Record[image][g]
        BY <2>2, VersionTypes, Zenon DEF Launched, Recorded
      <3> QED BY <1>1, <2>1, <2>2, <3>1, AdvanceRaises
    <2>3. CASE g \notin Launched
      BY <1>1, <2>1, <2>3, Zenon
    <2> QED BY <2>2, <2>3, Zenon
  <1>4. Peak.guest \in [Guests -> Nat]
    BY <1>1, <1>3, Zenon
  <1> QED BY <1>1, <1>2, <1>3, <1>4, Zenon DEF Tables

(***************************************************************************)
(* The steps after enforcement, and the reset.                             *)
(***************************************************************************)
LEMMA LaterStep ==
  ASSUME RbInv,
         \/ Reformat \/ Provision \/ MonitorStart \/ Panic
         \/ \E i \in Images, lock \in BOOLEAN : Reset(i, lock)
  PROVE  RbInv'
  <1>1. RbTypeOK /\ Covered /\ StagingFloorCovers
        /\ (phase \in {"enforced", "bootstrapped", "running"} /\ ~Unlocked => Recorded)
        /\ (phase \in {"enforced", "bootstrapped"} /\ ~Unlocked => NotOlder)
    BY Zenon DEF RbInv
  <1>2. CASE Reformat
    <2>1. Zero \in Tables /\ Zero.image = 0 /\ \A g \in Guests : Zero.guest[g] = 0
      BY Zenon DEF Zero, Tables
    <2>2. RbTypeOK'
      BY <1>1, <1>2, <2>1, Zenon DEF Reformat, RbTypeOK
    <2>3. Unlocked' /\ Load' = Zero /\ peak' = Zero /\ floor' \in Nat
      BY <1>2, <2>2, Zenon DEF Reformat, Unlocked, Load, RbTypeOK
    <2>4. Covered' /\ StagingFloorCovers'
      BY <2>1, <2>3 DEF Covered, StagingFloorCovers
    <2> QED BY <2>2, <2>3, <2>4, Zenon DEF RbInv
  <1>3. CASE Provision
    <2>1. phase = "enforced" /\ phase' = "bootstrapped"
          /\ UNCHANGED <<flash, secured, image, handoff, quarantined, floor, floorValid,
                         verdict, peak>>
      BY <1>3, Zenon DEF Provision, flashVars
    <2>2. RbTypeOK'
      BY <1>1, <2>1, Zenon DEF RbTypeOK
    <2>3. Load' = Load /\ Launched' = Launched /\ Reported' = Reported
          /\ Unlocked' = Unlocked
      BY <2>1, Zenon DEF Load, Launched, Reported, Unlocked
    <2>4. Covered' /\ StagingFloorCovers'
      BY <1>1, <2>1, <2>3, Zenon DEF Covered, StagingFloorCovers
    <2>5. ~Unlocked' => Recorded' /\ NotOlder'
      BY <1>1, <2>1, <2>3, Zenon DEF Recorded, NotOlder
    <2> QED BY <2>2, <2>4, <2>5, Zenon DEF RbInv
  <1>4. CASE MonitorStart
    <2>1. phase = "bootstrapped" /\ phase' = "running"
          /\ UNCHANGED <<flash, secured, image, handoff, quarantined, floor, floorValid,
                         verdict>>
          /\ peak' = IF Unlocked THEN peak ELSE Peak
      BY <1>4, Zenon DEF MonitorStart, flashVars
    <2>2. Load' = Load /\ Launched' = Launched /\ Reported' = Reported
          /\ Unlocked' = Unlocked
      BY <2>1, Zenon DEF Load, Launched, Reported, Unlocked
    <2>3. peak' \in Tables /\ Covered'
      <3>1. CASE Unlocked
        BY <1>1, <2>1, <2>2, <3>1, Zenon DEF Covered, RbTypeOK
      <3>2. CASE ~Unlocked
        BY <1>1, <2>1, <2>2, <3>2, PeakCovered, Zenon DEF Covered
      <3> QED BY <3>1, <3>2, Zenon
    <2>4. RbTypeOK'
      BY <1>1, <2>1, <2>3, Zenon DEF RbTypeOK
    <2>5. StagingFloorCovers'
      BY <1>1, <2>1, <2>2, Zenon DEF StagingFloorCovers
    <2>6. ~Unlocked' => Recorded'
      BY <1>1, <2>1, <2>2, Zenon DEF Recorded
    <2> QED BY <2>1, <2>3, <2>4, <2>5, <2>6, Zenon DEF RbInv
  <1>5. CASE Panic
    <2>1. phase' = "halted"
          /\ UNCHANGED <<flash, secured, image, handoff, quarantined, floor, floorValid,
                         verdict, peak>>
      BY <1>5, Zenon DEF Panic, flashVars
    <2>2. RbTypeOK' /\ Covered' /\ StagingFloorCovers'
      BY <1>1, <2>1, SameStore, Zenon DEF RbTypeOK, StagingFloorCovers
    <2> QED BY <2>1, <2>2, Zenon DEF RbInv
  <1>6. ASSUME NEW i \in Images, NEW lock \in BOOLEAN, Reset(i, lock) PROVE RbInv'
    <2>1. RbTypeOK'
      BY <1>1, <1>6, Zenon DEF Reset, RbTypeOK
    <2>2. Covered'
      BY <1>1, <1>6, SameStore, Zenon DEF Reset
    <2> QED BY <1>6, <2>1, <2>2, Zenon DEF Reset, StagingFloorCovers, RbInv
  <1> QED BY <1>2, <1>3, <1>4, <1>5, <1>6, Zenon

LEMMA RbStep ==
  ASSUME RbInv, [RbNext]_rbVars
  PROVE  RbInv'
  <1>1. CASE RbNext
    BY <1>1, EnforceStep, LaterStep, Zenon DEF RbNext, Boot
  <1>2. CASE UNCHANGED rbVars
    <2>1. UNCHANGED <<flash, secured, image, phase, handoff, quarantined, verdict,
                      floor, floorValid, peak>>
      BY <1>2, Zenon DEF rbVars, flashVars, bootVars
    <2>2. Load' = Load /\ Launched' = Launched /\ Reported' = Reported
          /\ Unlocked' = Unlocked
      BY <2>1, Zenon DEF Load, Launched, Reported, Unlocked
    <2> QED BY <2>1, <2>2 DEF RbInv, RbTypeOK, Covered, StagingFloorCovers, Recorded,
                              NotOlder
  <1> QED BY <1>1, <1>2, Zenon

(***************************************************************************)
(* The invariant holds through every sequence of boots, failures, image    *)
(* changes and resets.                                                     *)
(***************************************************************************)
THEOREM RbInvariance == RbSpec => []RbInv
  <1>1. RbInv /\ [RbNext]_rbVars => RbInv'
    BY RbStep, Zenon
  <1> QED BY InitRb, <1>1, PTL DEF RbSpec

(***************************************************************************)
(* While an enforcing boot's guests run, the store covers them             *)
(* (the quarantine of nvm_boot.c:267-272 after a failed store).            *)
(***************************************************************************)
THEOREM LaunchesRecorded == RbSpec => []LaunchRecorded
  <1>1. RbInv => LaunchRecorded
    BY Zenon DEF RbInv, LaunchRecorded
  <1> QED BY <1>1, RbInvariance, PTL

(***************************************************************************)
(* The floor the update service checks candidates against is never below   *)
(* the stored one (g_image_floor, nvm_boot.c:280-292).                     *)
(***************************************************************************)
THEOREM StagingCovered == RbSpec => []StagingFloorCovers
  <1>1. RbInv => StagingFloorCovers
    BY Zenon DEF RbInv
  <1> QED BY <1>1, RbInvariance, PTL

-----------------------------------------------------------------------------
(* The two action properties, from the invariant *)

LEMMA LaunchStep == ASSUME RbInv, [RbNext]_rbVars PROVE [LaunchNewer]_rbVars
  <1> SUFFICES ASSUME RbNext, phase' = "running", phase # "running", ~Unlocked
               PROVE  NotOlder
    BY Zenon DEF NotOlder, LaunchNewer
  <1>1. phase = "bootstrapped"
    BY Zenon DEF RbNext, Boot, EnforceUnreadable, EnforceImage, EnforceGuests, Reformat,
           Provision, MonitorStart, Panic, Reset
  <1> QED BY <1>1, Zenon DEF RbInv

LEMMA RatchetStep == ASSUME RbInv, [RbNext]_rbVars PROVE [FloorsRise]_flash
  <1> SUFFICES ASSUME flash' # flash PROVE FloorsRise
    BY Zenon
  <1>1. Reformat \/ \E ho, stores \in BOOLEAN : EnforceGuests(ho, stores)
    BY Zenon DEF RbNext, Boot, EnforceUnreadable, EnforceImage, Provision, MonitorStart,
           Panic, Reset, rbVars, flashVars
  <1>2. CASE Reformat
    BY <1>2, Zenon DEF Reformat, Unlocked, FloorsRise
  <1>3. ASSUME NEW ho \in BOOLEAN, NEW stores \in BOOLEAN, EnforceGuests(ho, stores)
        PROVE  FloorsRise
    <2>1. flash' = Advanced(ho, Load)
      BY <1>3, Zenon DEF EnforceGuests
    <2>2. RbTypeOK
      BY Zenon DEF RbInv
    <2>3. Load' = Advanced(ho, Load)
      BY <2>1, <2>2, AdvancedCovers, NoTableAssumption, Zenon DEF Load, Tables
    <2> QED BY <2>2, <2>3, AdvancedCovers, Zenon DEF FloorsRise
  <1> QED BY <1>1, <1>2, <1>3, Zenon

\* A step that leaves the store alone keeps the floors.
LEMMA FloorsKept == ASSUME RbTypeOK, flash' = flash PROVE FloorsRise
  <1>1. Load \in Tables
    BY Zenon DEF RbTypeOK, Load, Zero, Tables
  <1>2. Load' = Load
    BY Zenon DEF Load
  <1> QED BY <1>1, <1>2 DEF FloorsRise, Tables

(***************************************************************************)
(* An enforcing boot launches nothing older than what was launched before  *)
(* (wt_hsm_rollback_enforce over every history of the device).             *)
(***************************************************************************)
THEOREM DowngradesRefused == RbSpec => NoDowngrade
  BY LaunchStep, RbInvariance, PTL DEF RbSpec, NoDowngrade

(***************************************************************************)
(* Stored floors never fall while the device is locked, and while it is    *)
(* not, only a format of the vault lowers them (wt_rollback_advance).      *)
(***************************************************************************)
THEOREM FloorsNeverFall == RbSpec => FloorsRatchet
  BY RatchetStep, RbInvariance, PTL DEF RbSpec, FloorsRatchet

(***************************************************************************)
(* The device never goes back, for any images, guests and versions         *)
(* (wt_hsm_rollback_enforce over every history of boots).                  *)
(***************************************************************************)
THEOREM NeverGoesBack == RbSpec => NeverBack
  <1>1. RbInv /\ [RbNext]_rbVars => [LaunchNewer /\ FloorsRise]_rbVars
    BY LaunchStep, RatchetStep, FloorsKept, Zenon DEF RbInv
  <1> QED BY <1>1, RbInvariance, PTL DEF RbSpec, NeverBack

-----------------------------------------------------------------------------
(* The update service: its invariant *)

\* While an instance of the service runs the boot is over, and the floor it read
\* at its entry is the one this boot enforced.
ServesFloor ==
    IF ses.st = "DOWN" THEN ses.owner = NoOwner
    ELSE /\ phase = "running"
         /\ refusing = ~floorValid
         /\ vfloor = IF ~floorValid \/ Unlocked THEN 0 ELSE floor

\* SessionShape of context s
Shaped(s) == /\ s.owner = NoOwner <=> s.st = "READY"
             /\ s.armed <=> s.st = "STAGED"

\* What FINISH has bound the candidate to lasts until it is armed.
CandidateBound(s, blocks, new) ==
    s.st \in {"CANDIDATE", "STAGED"} =>
      /\ blocks[1] # Blank /\ Version[blocks[1]] = s.cand /\ ~Below(s.cand)
      /\ Contiguous => 1..Size[blocks[1]] \subseteq new

\* What this session wrote is there, and write_high reaches its end.
WrittenOK(s, blocks, new) ==
    s.st = "WRITING" =>
      \A k \in new : blocks[k] # Blank /\ End(k, blocks[k]) <= s.high

\* A port that takes the blocks in order has programmed an initial part of the
\* partition; without a padded block write_high is its end.
InOrder(s, new) ==
    Contiguous /\ s.st = "WRITING" =>
      \E n \in 0..Chunks : new = 1..n /\ (Short = {} => s.high = 2 * n)

\* A context that agrees with the update partition and with what the session has
\* programmed of it
Agrees(s, blocks, new) ==
    /\ Shaped(s)
    /\ CandidateBound(s, blocks, new)
    /\ WrittenOK(s, blocks, new)
    /\ InOrder(s, new)

\* The history's clock is the owner's, until it stops counting.
LeaseClock ==
    ses.owner # NoOwner /\ idle < TickMod => Elapsed = idle

\* Right after the granted reset of an enforcing boot the image that wolfBoot
\* swapped in passes the floor of the store.
InstalledPasses ==
    installed /\ phase = "reset" => Version[image] >= Load.image

(***************************************************************************)
(* The inductive invariant.  StagedBoots speaks of the store's floor,      *)
(* which the service never reads: ServesFloor ties the floor it has to the *)
(* RAM floor of this boot, and RbInv that one to the store.  InstallBoots  *)
(* carries StagedBoots over the reset, through InstalledPasses.            *)
(***************************************************************************)
FwuInv ==
    /\ FwuTypeOK
    /\ RbInv
    /\ ServesFloor
    /\ ses.st # "DOWN" => Agrees(ses, slot, fresh)
    /\ LeaseClock
    /\ InstalledPasses
    /\ InstallBoots

-----------------------------------------------------------------------------
(* Contexts *)

States == {"DOWN", "READY", "WRITING", "CANDIDATE", "STAGED", "FAILED"}

LEMMA ContextFact ==
  ASSUME NEW st \in States, NEW high \in 0..2 * Chunks, NEW cand \in Nat \cup {Undeclared},
         NEW armed \in BOOLEAN, NEW owner \in Clients \cup {NoOwner}, NEW tk \in 0..TickMod - 1,
         NEW s, s = Context(st, high, cand, armed, owner, tk)
  PROVE  /\ s \in Contexts /\ s.st = st /\ s.high = high /\ s.cand = cand /\ s.armed = armed
         /\ s.owner = owner /\ s.tick = tk
<1>1. s = [st |-> st, high |-> high, cand |-> cand, armed |-> armed, owner |-> owner, tick |-> tk]
  BY Zenon DEF Context
<1>2. s \in Contexts
  BY <1>1 DEF Contexts, States
<1> QED BY <1>1, <1>2

LEMMA ConstFact ==
  /\ Chunks \in Nat \ {0} /\ Timeout \in Nat \ {0} /\ TickMod \in Nat /\ TickMod > Timeout
  /\ NoOwner \notin Clients /\ Blank \notin Images /\ 0 \in 0..2 * Chunks /\ 0 \in 0..TickMod - 1
  /\ \A i \in Images : Version[i] \in Nat /\ Size[i] \in 1..Chunks
BY FwuAssumption, ImagesAssumption

LEMMA ReadyFact ==
  /\ Ready \in Contexts /\ Ready.st = "READY" /\ Ready.owner = NoOwner /\ Ready.armed = FALSE
  /\ Down \in Contexts /\ Down.st = "DOWN" /\ Down.owner = NoOwner
  /\ \A blocks, new : Agrees(Ready, blocks, new)
<1>1. /\ Ready \in Contexts /\ Ready.st = "READY" /\ Ready.owner = NoOwner /\ Ready.armed = FALSE
      /\ Down \in Contexts /\ Down.st = "DOWN" /\ Down.owner = NoOwner
  <2>1. 0 \in 0..2 * Chunks /\ 0 \in 0..TickMod - 1
    BY ConstFact, Zenon
  <2> QED BY <2>1, Zenon DEF Ready, Down, Context, Contexts
<1>2. Shaped(Ready)
  BY <1>1, Zenon DEF Shaped
<1> QED BY <1>1, <1>2, Zenon DEF Agrees, CandidateBound, WrittenOK, InOrder

\* The fields of the context as it is
LEMMA SesFact ==
  ASSUME FwuTypeOK
  PROVE  /\ ses.st \in States /\ ses.high \in 0..2 * Chunks /\ ses.cand \in Nat \cup {Undeclared}
         /\ ses.armed \in BOOLEAN /\ ses.owner \in Clients \cup {NoOwner}
         /\ ses.tick \in 0..TickMod - 1 /\ tick \in 0..TickMod - 1
BY Zenon DEF FwuTypeOK, Contexts, States

LEMMA ModFact ==
  ASSUME NEW m \in Nat \ {0}, NEW x \in Nat, x < m + m
  PROVE  x % m = IF x < m THEN x ELSE x - m
<1>1. x % m \in 0..m - 1 /\ x = m * (x \div m) + (x % m) /\ x \div m \in Int
  OBVIOUS
<1> DEFINE q == x \div m
<1>2. q = 0 \/ q = 1
  <2>1. CASE q >= 2
    BY <1>1, <2>1
  <2>2. CASE q <= -1
    BY <1>1, <2>2
  <2> QED BY <1>1, <2>1, <2>2
<1> QED BY <1>1, <1>2

\* The difference of the tick counter and an owner's clock, without the wrap
LEMMA ElapsedFact ==
  ASSUME NEW t \in 0..TickMod - 1, NEW u \in 0..TickMod - 1
  PROVE  (t + TickMod - u) % TickMod = IF t >= u THEN t - u ELSE t + TickMod - u
<1> DEFINE x == t + TickMod - u
<1>1. TickMod \in Nat \ {0} /\ x \in Nat /\ x < TickMod + TickMod
  BY ConstFact
<1>2. x % TickMod = IF x < TickMod THEN x ELSE x - TickMod
  <2> HIDE DEF x
  <2> QED BY <1>1, ModFact, Zenon
<1> QED BY <1>1, <1>2

-----------------------------------------------------------------------------
(* Steps of the service leave the boot alone *)

\* The floors and what this boot decided do not change.
LEMMA BootKept ==
  ASSUME UNCHANGED rbVars
  PROVE  /\ UNCHANGED <<flash, secured, image, phase, handoff, quarantined, verdict,
                        floor, floorValid, peak>>
         /\ Load' = Load /\ Unlocked' = Unlocked
         /\ RbInv => RbInv'
         /\ RbTypeOK => RbTypeOK'
<1>1. UNCHANGED <<flash, secured, image, phase, handoff, quarantined, verdict,
                  floor, floorValid, peak>>
  BY Zenon DEF rbVars, flashVars, bootVars
<1>2. Load' = Load /\ Launched' = Launched /\ Reported' = Reported /\ Unlocked' = Unlocked
  BY <1>1, Zenon DEF Load, Launched, Reported, Unlocked
<1> QED BY <1>1, <1>2 DEF RbInv, RbTypeOK, Covered, StagingFloorCovers, Recorded, NotOlder

\* A step of the service within a boot, of any kind.
LEMMA ServiceStep ==
  ASSUME FwuInv, UNCHANGED <<rbVars, installed>>,
         ses' \in Contexts, refusing' \in BOOLEAN, vfloor' \in Nat, trigger' \in BOOLEAN,
         slot' \in [1..Chunks -> Images \cup {Blank}], fresh' \subseteq 1..Chunks,
         tick' \in 0..TickMod - 1, idle' \in 0..TickMod,
         ServesFloor', ses'.st # "DOWN" => Agrees(ses, slot, fresh)', LeaseClock'
  PROVE  FwuInv'
<1>1. FwuTypeOK'
  BY BootKept, Zenon DEF FwuInv, FwuTypeOK
<1>2. RbInv' /\ InstalledPasses' /\ InstallBoots'
  BY BootKept DEF FwuInv, InstalledPasses, InstallBoots
<1> QED BY <1>1, <1>2, Zenon DEF FwuInv

\* The floor the service has while it runs
LEMMA FloorKept ==
  ASSUME FwuInv, UNCHANGED <<rbVars, refusing, vfloor>>, ses.st # "DOWN", ses'.st # "DOWN"
  PROVE  ServesFloor' /\ \A v : Below(v)' <=> Below(v)
<1>1. \A v : Below(v)' <=> Below(v)
  BY Zenon DEF Below
<1>2. ServesFloor'
  BY BootKept DEF FwuInv, ServesFloor
<1> QED BY <1>1, <1>2, Zenon

\* Setting the owner's clock, or giving the session up in READY, keeps a context
\* in agreement with the partition.
LEMMA SettledFact ==
  ASSUME FwuTypeOK, NEW c, NEW s \in Contexts, Shaped(s), s.owner \in {NoOwner, c},
         NEW z, z = Settled(c, s)
  PROVE  /\ z \in Contexts /\ z.st = s.st
         /\ z.owner = s.owner /\ (z.owner # NoOwner => z.tick = tick)
         /\ \A blocks, new : Agrees(s, blocks, new) => Agrees(z, blocks, new)
<1>1. CASE s.st = "READY"
  <2>1. z = Ready /\ s.owner = NoOwner
    BY <1>1, Zenon DEF Settled, Shaped
  <2> QED BY <1>1, <2>1, ReadyFact, Zenon
<1>2. CASE s.st # "READY"
  <2>1. s.owner = c /\ s.owner # NoOwner
    BY <1>2, Zenon DEF Shaped
  <2>2. z = [st |-> s.st, high |-> s.high, cand |-> s.cand, armed |-> s.armed,
             owner |-> s.owner, tick |-> tick]
    BY <1>2, <2>1, Zenon DEF Settled, Context
  <2>3. tick \in 0..TickMod - 1
    BY SesFact, Zenon
  <2>4. /\ z \in Contexts /\ z.st = s.st /\ z.owner = s.owner /\ z.tick = tick
        /\ z.high = s.high /\ z.cand = s.cand /\ z.armed = s.armed
    BY <2>2, <2>3 DEF Contexts
  <2>5. ASSUME NEW blocks, NEW new, Agrees(s, blocks, new) PROVE Agrees(z, blocks, new)
    <3>1. Shaped(z)
      BY <2>4, Zenon DEF Shaped
    <3> QED BY <2>4, <2>5, <3>1, Zenon DEF Agrees, CandidateBound, WrittenOK, InOrder
  <2> QED BY <2>4, <2>5, Zenon
<1> QED BY <1>1, <1>2, Zenon

\* What an operation that gets past the owner check leaves: the common tail of
\* wt_fwu_service_call.
LEMMA LeavesInv ==
  ASSUME FwuInv, NEW c \in Clients, ses.st # "DOWN",
         NEW s \in Contexts, s.st # "DOWN", s.owner \in {NoOwner, c},
         ses' = Settled(c, s), Clocked(c, s),
         UNCHANGED <<rbVars, refusing, vfloor, tick, installed>>,
         slot' \in [1..Chunks -> Images \cup {Blank}], fresh' \subseteq 1..Chunks,
         trigger' \in BOOLEAN, Agrees(s, slot', fresh')
  PROVE  FwuInv'
<1>1. FwuTypeOK /\ Shaped(s)
  BY Zenon DEF FwuInv, Agrees
<1>2. /\ ses' \in Contexts /\ ses'.st # "DOWN" /\ ses'.st = s.st /\ ses'.owner = s.owner
      /\ ses'.owner # NoOwner => ses'.tick = tick
      /\ Agrees(ses', slot', fresh')
  BY <1>1, SettledFact
<1>3. ServesFloor' /\ \A v : Below(v)' <=> Below(v)
  BY <1>2, FloorKept, Zenon
<1>4. Agrees(ses, slot, fresh)'
  BY <1>2, <1>3, Zenon DEF Agrees, Shaped, CandidateBound, WrittenOK, InOrder, End
<1>5. tick' \in 0..TickMod - 1 /\ tick' = tick /\ tick \in 0..TickMod - 1
  BY <1>1, SesFact, Zenon
<1>6. idle' \in 0..TickMod /\ (s.owner # NoOwner => idle' = 0)
  BY <1>1, ConstFact DEF Clocked, Shaped, FwuTypeOK
<1>7. LeaseClock'
  <2> SUFFICES ASSUME ses'.owner # NoOwner PROVE Elapsed' = 0
    BY <1>2, <1>6, Zenon DEF LeaseClock
  <2>1. Elapsed' = (tick + TickMod - tick) % TickMod
    BY <1>2, <1>5, Zenon DEF Elapsed
  <2> QED BY <1>5, <2>1, ElapsedFact
<1>8. refusing' \in BOOLEAN /\ vfloor' \in Nat
  BY <1>1, Zenon DEF FwuTypeOK
<1> QED BY <1>2, <1>3, <1>4, <1>5, <1>6, <1>7, <1>8, ServiceStep, Zenon

-----------------------------------------------------------------------------
(* The calls *)

\* What a call finds after wt_fwu_owner_expired: the session, or none.
LEMMA HeldFact ==
  ASSUME FwuInv, NEW c \in Clients, ses.st # "DOWN"
  PROVE  /\ Held(c) \in Contexts /\ Held(c).st # "DOWN" /\ Agrees(Held(c), slot, fresh)
         /\ Armed(c) \in BOOLEAN
         /\ Held(c).st # "READY" => Held(c) = ses /\ ~Expired(c)
         /\ Admitted(c) => Held(c).owner \in {NoOwner, c}
         /\ Admitted(c) /\ Held(c).st # "READY" => ses.owner = c
<1>1. /\ ses \in Contexts /\ trigger \in BOOLEAN /\ Agrees(ses, slot, fresh) /\ Shaped(ses)
  BY Zenon DEF FwuInv, FwuTypeOK, Agrees
<1>2. Armed(c) \in BOOLEAN
  BY <1>1, Zenon DEF Armed
<1>3. CASE Expired(c)
  BY <1>2, <1>3, ReadyFact, Zenon DEF Held, Admitted
<1>4. CASE ~Expired(c)
  <2>1. Held(c) = ses
    BY <1>4, Zenon DEF Held
  <2> QED BY <1>1, <1>2, <1>4, <2>1, Zenon DEF Admitted, Shaped
<1> QED BY <1>3, <1>4, Zenon

\* The context an operation builds from the open session's
LEMMA MovedFact ==
  ASSUME FwuInv, ses.st \notin {"DOWN", "READY"}, NEW s,
         s = Context(s.st, s.high, s.cand, s.armed, ses.owner, ses.tick),
         s.st \in {"WRITING", "CANDIDATE", "STAGED", "FAILED"}, s.high \in 0..2 * Chunks,
         s.cand \in Nat \cup {Undeclared}, s.armed = (s.st = "STAGED")
  PROVE  s \in Contexts /\ s.st # "DOWN" /\ s.owner = ses.owner /\ Shaped(s)
<1>1. ses.owner \in Clients \cup {NoOwner} /\ ses.owner # NoOwner /\ ses.tick \in 0..TickMod - 1
  BY SesFact, Zenon DEF FwuInv, Agrees, Shaped
<1>2. PICK armed \in BOOLEAN : armed = s.armed
  BY Zenon
<1>3. s = [st |-> s.st, high |-> s.high, cand |-> s.cand, armed |-> armed, owner |-> ses.owner,
           tick |-> ses.tick]
  BY <1>2, Zenon DEF Context
<1>4. s \in Contexts /\ s.st # "DOWN" /\ s.owner = ses.owner /\ s.st # "READY"
  BY <1>1, <1>3 DEF Contexts
<1>5. Shaped(s)
  <2>1. s.owner = NoOwner <=> s.st = "READY"
    BY <1>1, <1>4, Zenon
  <2>2. s.armed <=> s.st = "STAGED"
    BY Zenon
  <2> QED BY <2>1, <2>2, Zenon DEF Shaped
<1> QED BY <1>4, <1>5, Zenon

\* Calls that leave the session as they found it
LEMMA IdlesInv ==
  ASSUME FwuInv, NEW c \in Clients,
         \/ Idles(c)
         \/ \E left \in BOOLEAN : InstallFails(c, left)
         \/ \E erased \in BOOLEAN : RejectFails(c, erased)
  PROVE  FwuInv'
<1>1. ses.st # "DOWN" /\ Admitted(c)
  BY Zenon DEF Idles, InstallFails, RejectFails, Admitted
<1> DEFINE Same == slot' = slot /\ Leaves(c, Held(c)) /\ trigger' \in BOOLEAN
<1>2. Same
  <2>1. CASE Idles(c)
    BY <1>1, <2>1, HeldFact, Zenon DEF Idles
  <2>2. ASSUME NEW left \in BOOLEAN, InstallFails(c, left) PROVE Same
    BY <1>1, <2>2, HeldFact, Zenon DEF InstallFails
  <2>3. ASSUME NEW erased \in BOOLEAN, RejectFails(c, erased) PROVE Same
    <3>1. (trigger /\ ~erased) \in BOOLEAN
      BY Zenon
    <3> QED BY <1>1, <2>3, <3>1, HeldFact, Zenon DEF RejectFails
  <2> QED BY <2>1, <2>2, <2>3, Zenon
<1>3. /\ ses' = Settled(c, Held(c)) /\ Clocked(c, Held(c)) /\ fresh' = fresh
      /\ UNCHANGED <<rbVars, refusing, vfloor, tick, installed>>
  BY <1>2, Zenon DEF Leaves
<1>4. slot \in [1..Chunks -> Images \cup {Blank}] /\ fresh \subseteq 1..Chunks
  BY Zenon DEF FwuInv, FwuTypeOK
<1> QED BY <1>1, <1>2, <1>3, <1>4, HeldFact, LeavesInv, Zenon

\* Calls that end the session in failure
LEMMA FailsInv ==
  ASSUME FwuInv, NEW c \in Clients,
         \/ \E k \in 1..Chunks, blank \in BOOLEAN : WriteFails(c, k, blank)
         \/ FinishFails(c) \/ Cancel(c) \/ Reject(c)
  PROVE  FwuInv'
<1>1. /\ ses.st # "DOWN" /\ Admitted(c) /\ Held(c).st # "READY"
  BY Zenon DEF WriteFails, FinishFails, Cancel, Reject, Admitted
<1>2. ses.st \notin {"DOWN", "READY"} /\ ses.owner = c /\ Held(c) = ses
  BY <1>1, HeldFact, Zenon
<1>3. /\ ses.high \in 0..2 * Chunks /\ ses.cand \in Nat \cup {Undeclared}
      /\ slot \in [1..Chunks -> Images \cup {Blank}] /\ fresh \subseteq 1..Chunks
      /\ trigger \in BOOLEAN
  BY SesFact, Zenon DEF FwuInv, FwuTypeOK
<1>4. ses.st # "STAGED" => ses.armed = FALSE
  BY <1>1, SesFact, Zenon DEF FwuInv, Agrees, Shaped
<1> DEFINE Fails(cand) ==
             /\ Leaves(c, Context("FAILED", ses.high, cand, FALSE, ses.owner, ses.tick))
             /\ slot' \in [1..Chunks -> Images \cup {Blank}] /\ trigger' \in BOOLEAN
<1>5. \E cand \in Nat \cup {Undeclared} : Fails(cand)
  <2>1. ASSUME NEW k \in 1..Chunks, NEW blank \in BOOLEAN, WriteFails(c, k, blank)
        PROVE  Fails(ses.cand)
    <3>1. ses.armed = FALSE
      BY <1>2, <1>4, <2>1, Zenon DEF WriteFails
    <3>2. slot' \in [1..Chunks -> Images \cup {Blank}] /\ trigger' \in BOOLEAN
      BY <1>3, <2>1, Zenon DEF WriteFails
    <3>3. Leaves(c, Context("FAILED", ses.high, ses.cand, FALSE, ses.owner, ses.tick))
      BY <2>1, <3>1, Zenon DEF WriteFails, Moved
    <3> QED BY <3>2, <3>3, Zenon
  <2>2. CASE FinishFails(c)
    <3>1. ses.armed = FALSE
      BY <1>2, <1>4, <2>2, Zenon DEF FinishFails
    <3> DEFINE cand == IF Verifies /\ ses.cand = Undeclared THEN Version[slot[1]] ELSE ses.cand
    <3>2. cand \in Nat \cup {Undeclared}
      <4>1. Verifies => slot[1] \in Images
        BY <1>3, ConstFact DEF Verifies
      <4> QED BY <1>3, <4>1, ConstFact, Zenon
    <3>3. /\ Leaves(c, Context("FAILED", ses.high, cand, FALSE, ses.owner, ses.tick))
          /\ UNCHANGED <<trigger, slot>>
      BY <2>2, <3>1, Zenon DEF FinishFails
    <3> HIDE DEF cand
    <3> QED BY <1>3, <3>2, <3>3, Zenon
  <2>3. CASE Cancel(c)
    <3>1. ses.armed = FALSE
      BY <1>2, <1>4, <2>3, Zenon DEF Cancel
    <3>2. Leaves(c, Context("FAILED", ses.high, ses.cand, FALSE, ses.owner, ses.tick))
      BY <2>3, <3>1, Zenon DEF Cancel, Moved
    <3>3. Fails(ses.cand)
      BY <1>3, <2>3, <3>2, Zenon DEF Cancel
    <3> QED BY <1>3, <3>3, Zenon
  <2>4. CASE Reject(c)
    <3>1. Fails(ses.cand)
      BY <1>3, <2>4, Zenon DEF Reject
    <3> QED BY <1>3, <3>1, Zenon
  <2> HIDE DEF Fails
  <2> QED BY <1>3, <2>1, <2>2, <2>3, <2>4, Zenon
<1>6. PICK cand \in Nat \cup {Undeclared} : Fails(cand)
  BY <1>5, Zenon
<1> DEFINE s == Context("FAILED", ses.high, cand, FALSE, ses.owner, ses.tick)
<1>7. /\ s \in Contexts /\ s.st = "FAILED" /\ s.owner = ses.owner /\ Shaped(s)
  <2>1. s.st = "FAILED" /\ s.high = ses.high /\ s.cand = cand /\ s.armed = FALSE
    BY Zenon DEF Context
  <2>2. s = Context(s.st, s.high, s.cand, s.armed, ses.owner, ses.tick)
    BY <2>1, Zenon
  <2> HIDE DEF Fails, s
  <2> QED BY <1>2, <1>3, <2>1, <2>2, MovedFact, Zenon
<1> HIDE DEF s
<1>8. Agrees(s, slot', fresh')
  BY <1>7, Zenon DEF Agrees, CandidateBound, WrittenOK, InOrder
<1>9. /\ ses' = Settled(c, s) /\ Clocked(c, s) /\ fresh' = fresh
      /\ UNCHANGED <<rbVars, refusing, vfloor, tick, installed>>
  BY <1>6, Zenon DEF Leaves, s
<1> QED BY <1>1, <1>2, <1>3, <1>6, <1>7, <1>8, <1>9, LeavesInv, Zenon

\* Where a block ends
LEMMA EndFact ==
  ASSUME NEW k \in 1..Chunks, NEW i
  PROVE  End(k, i) \in 0..2 * Chunks /\ End(k, i) >= 2 * k - 1 /\ (Short = {} => End(k, i) = 2 * k)
BY ConstFact DEF End

\* Intervals from 1 are told apart by their ends.
LEMMA EndsApart ==
  ASSUME NEW m \in Nat, NEW n \in Nat, 1..m = 1..n
  PROVE  m = n
<1>1. \A x \in Nat : x \in 1..m <=> x \in 1..n
  BY Zenon
<1>2. CASE m > n
  BY <1>1, <1>2
<1>3. CASE n > m
  BY <1>1, <1>3
<1> QED BY <1>2, <1>3

LEMMA WriteInv ==
  ASSUME FwuInv, NEW c \in Clients, NEW k \in 1..Chunks, NEW i \in Images, Write(c, k, i)
  PROVE  FwuInv'
<1>1. /\ ses.st # "DOWN" /\ Admitted(c) /\ Held(c).st # "READY" /\ Held(c).st = "WRITING"
  BY Zenon DEF Write, Admitted
<1>2. ses.st \notin {"DOWN", "READY"} /\ ses.owner = c /\ ses.st = "WRITING"
  BY <1>1, HeldFact, Zenon
<1>3. /\ ses.high \in 0..2 * Chunks /\ ses.cand \in Nat \cup {Undeclared}
      /\ slot \in [1..Chunks -> Images \cup {Blank}] /\ fresh \subseteq 1..Chunks
      /\ trigger \in BOOLEAN
  BY SesFact, Zenon DEF FwuInv, FwuTypeOK
<1>4. /\ Shaped(ses) /\ \A m \in fresh : slot[m] # Blank /\ End(m, slot[m]) <= ses.high
      /\ Contiguous => \E n \in 0..Chunks : fresh = 1..n /\ (Short = {} => ses.high = 2 * n)
  BY <1>2, Zenon DEF FwuInv, Agrees, WrittenOK, InOrder
<1>5. ses.armed = FALSE
  BY <1>2, <1>4, SesFact, Zenon DEF FwuInv, Shaped
<1> DEFINE hi == High(k, i)
           s == Context("WRITING", hi, ses.cand, FALSE, ses.owner, ses.tick)
<1>6. /\ hi \in 0..2 * Chunks /\ hi >= ses.high /\ hi >= End(k, i)
      /\ hi \in {ses.high, End(k, i)}
  BY <1>3, EndFact, ConstFact DEF High
<1> HIDE DEF hi
<1>7. s.st = "WRITING" /\ s.high = hi /\ s.cand = ses.cand /\ s.armed = FALSE
  BY Zenon DEF Context
<1>8. s = Context(s.st, s.high, s.cand, s.armed, ses.owner, ses.tick)
  BY <1>7, Zenon
<1>9. /\ ses' = Settled(c, s) /\ Clocked(c, ses) /\ slot' = [slot EXCEPT ![k] = i]
      /\ fresh' = fresh \cup {k} /\ trigger' = trigger
      /\ UNCHANGED <<rbVars, refusing, vfloor, tick, installed>>
      /\ Takes(k, i)
  BY <1>5, Zenon DEF Write, hi
<1> HIDE DEF s
<1>10. s \in Contexts /\ s.st # "DOWN" /\ s.owner = ses.owner /\ Shaped(s)
  BY <1>2, <1>3, <1>6, <1>7, <1>8, MovedFact, Zenon
<1>11. Clocked(c, s)
  BY <1>2, <1>7, <1>9, <1>10, Zenon DEF Clocked
<1>12. WrittenOK(s, slot', fresh')
  <2>1. ASSUME NEW m \in fresh' PROVE slot'[m] # Blank /\ End(m, slot'[m]) <= hi
    <3>1. m \in 1..Chunks /\ End(m, slot'[m]) \in Int /\ ses.high \in Int /\ hi \in Int
      BY <1>3, <1>6, <1>9, <2>1, EndFact
    <3>2. CASE m = k
      BY <1>3, <1>6, <1>9, <3>2, ConstFact, Zenon
    <3>3. CASE m # k
      BY <1>3, <1>4, <1>6, <1>9, <2>1, <3>1, <3>3
    <3> QED BY <3>2, <3>3, Zenon
  <2> QED BY <1>7, <2>1, Zenon DEF WrittenOK
<1>13. InOrder(s, fresh')
  <2> SUFFICES ASSUME Contiguous
               PROVE  \E n \in 0..Chunks : fresh' = 1..n /\ (Short = {} => s.high = 2 * n)
    BY Zenon DEF InOrder
  <2>1. PICK n \in 0..Chunks : fresh = 1..n /\ (Short = {} => ses.high = 2 * n)
    BY <1>4, Zenon
  <2>2. n \in Nat /\ k = n + 1
    <3>1. n \in Nat /\ k - 1 \in Nat /\ 1..n = 1..(k - 1)
      BY <1>9, <2>1, ConstFact DEF Takes, Reaches
    <3>2. n = k - 1
      BY <3>1, EndsApart, Zenon
    <3> QED BY <3>1, <3>2
  <2>3. n + 1 \in 0..Chunks /\ fresh' = 1..(n + 1)
    BY <1>9, <2>1, <2>2, ConstFact
  <2>4. Short = {} => s.high = 2 * (n + 1)
    BY <1>6, <1>7, <2>1, <2>2, EndFact
  <2> QED BY <2>3, <2>4, Zenon
<1>14. Agrees(s, slot', fresh')
  BY <1>7, <1>10, <1>12, <1>13, Zenon DEF Agrees, CandidateBound
<1>15. slot' \in [1..Chunks -> Images \cup {Blank}] /\ fresh' \subseteq 1..Chunks
  BY <1>3, <1>9, Zenon
<1> QED BY <1>1, <1>2, <1>3, <1>9, <1>10, <1>11, <1>14, <1>15, LeavesInv, Zenon

\* FINISH accepts a header whose version the floor admits, and on a port that
\* takes blocks in order only what this session wrote.
LEMMA FinishInv ==
  ASSUME FwuInv, NEW c \in Clients, Finish(c)
  PROVE  FwuInv'
<1>1. /\ ses.st # "DOWN" /\ Admitted(c) /\ Held(c).st # "READY" /\ Held(c).st = "WRITING"
  BY Zenon DEF Finish, Admitted
<1>2. ses.st \notin {"DOWN", "READY"} /\ ses.owner = c /\ ses.st = "WRITING"
  BY <1>1, HeldFact, Zenon
<1>3. /\ ses.high \in 0..2 * Chunks /\ ses.cand \in Nat \cup {Undeclared}
      /\ slot \in [1..Chunks -> Images \cup {Blank}] /\ fresh \subseteq 1..Chunks
      /\ trigger \in BOOLEAN
  BY SesFact, Zenon DEF FwuInv, FwuTypeOK
<1>4. ses.armed = FALSE
  BY <1>2, SesFact, Zenon DEF FwuInv, Agrees, Shaped
<1> DEFINE i == slot[1]
           s == Context("CANDIDATE", ses.high, Version[i], FALSE, ses.owner, ses.tick)
<1>5. /\ Leaves(c, s) /\ UNCHANGED <<trigger, slot>> /\ Verifies /\ ~Below(Version[i])
  BY <1>4, Zenon DEF Finish, Bound
<1>6. i # Blank /\ i \in Images /\ Version[i] \in Nat /\ Size[i] \in 1..Chunks
  BY <1>3, <1>5, ConstFact DEF Verifies
<1>7. s.st = "CANDIDATE" /\ s.high = ses.high /\ s.cand = Version[i] /\ s.armed = FALSE
  BY Zenon DEF Context
<1>8. s = Context(s.st, s.high, s.cand, s.armed, ses.owner, ses.tick)
  BY <1>7, Zenon
<1>9. /\ ses' = Settled(c, s) /\ Clocked(c, s) /\ fresh' = fresh
      /\ UNCHANGED <<rbVars, refusing, vfloor, tick, installed>>
  BY <1>5, Zenon DEF Leaves
<1> HIDE DEF s
<1>10. s \in Contexts /\ s.st # "DOWN" /\ s.owner = ses.owner /\ Shaped(s)
  BY <1>2, <1>3, <1>6, <1>7, <1>8, MovedFact, Zenon
<1>11. Contiguous => 1..Size[i] \subseteq fresh
  <2> SUFFICES ASSUME Contiguous PROVE 1..Size[i] \subseteq fresh
    BY Zenon
  <2>1. PICK n \in 0..Chunks : fresh = 1..n /\ ses.high = 2 * n
    BY <1>5, Zenon DEF Verifies
  <2>2. n \in Nat /\ ses.high = 2 * n
    BY <2>1
  <2>3. End(Size[i], i) <= 2 * n /\ End(Size[i], i) >= 2 * Size[i] - 1 /\ End(Size[i], i) \in Int
    BY <1>5, <1>6, <2>2, EndFact DEF Verifies
  <2>4. Size[i] <= n
    BY <1>6, <2>2, <2>3
  <2> QED BY <1>6, <2>1, <2>2, <2>4
<1>12. Agrees(s, slot', fresh')
  BY <1>5, <1>6, <1>7, <1>9, <1>10, <1>11, Zenon DEF Agrees, CandidateBound, WrittenOK, InOrder
<1> QED BY <1>1, <1>2, <1>3, <1>5, <1>9, <1>10, <1>12, LeavesInv, Zenon

LEMMA InstallInv ==
  ASSUME FwuInv, NEW c \in Clients, Install(c)
  PROVE  FwuInv'
<1>1. /\ ses.st # "DOWN" /\ Admitted(c) /\ Held(c).st # "READY" /\ Held(c).st = "CANDIDATE"
  BY Zenon DEF Install, Admitted
<1>2. ses.st \notin {"DOWN", "READY"} /\ ses.owner = c /\ ses.st = "CANDIDATE"
  BY <1>1, HeldFact, Zenon
<1>3. /\ ses.high \in 0..2 * Chunks /\ ses.cand \in Nat \cup {Undeclared}
      /\ slot \in [1..Chunks -> Images \cup {Blank}] /\ fresh \subseteq 1..Chunks
  BY SesFact, Zenon DEF FwuInv, FwuTypeOK
<1> DEFINE s == Context("STAGED", ses.high, ses.cand, TRUE, ses.owner, ses.tick)
<1>4. Leaves(c, s) /\ slot' = slot /\ trigger' = TRUE
  BY Zenon DEF Install
<1>5. s.st = "STAGED" /\ s.high = ses.high /\ s.cand = ses.cand /\ s.armed = TRUE
  BY Zenon DEF Context
<1>6. s = Context(s.st, s.high, s.cand, s.armed, ses.owner, ses.tick)
  BY <1>5, Zenon
<1>7. /\ ses' = Settled(c, s) /\ Clocked(c, s) /\ fresh' = fresh
      /\ UNCHANGED <<rbVars, refusing, vfloor, tick, installed>>
  BY <1>4, Zenon DEF Leaves
<1> HIDE DEF s
<1>8. s \in Contexts /\ s.st # "DOWN" /\ s.owner = ses.owner /\ Shaped(s)
  BY <1>2, <1>3, <1>5, <1>6, MovedFact, Zenon
<1>9. CandidateBound(ses, slot, fresh)
  BY <1>2, Zenon DEF FwuInv, Agrees
<1>10. Agrees(s, slot', fresh')
  BY <1>2, <1>4, <1>5, <1>7, <1>8, <1>9, Zenon DEF Agrees, CandidateBound, WrittenOK, InOrder
<1>11. trigger' \in BOOLEAN
  BY <1>4, Zenon
<1> QED BY <1>1, <1>2, <1>3, <1>4, <1>7, <1>8, <1>10, <1>11, LeavesInv, Zenon

LEMMA CleanInv ==
  ASSUME FwuInv, NEW c \in Clients, Clean(c)
  PROVE  FwuInv'
<1>1. /\ ses.st # "DOWN" /\ Admitted(c) /\ Held(c).st # "READY" /\ Held(c).st = "FAILED"
  BY Zenon DEF Clean, Admitted
<1>2. ses.owner = c
  BY <1>1, HeldFact, Zenon
<1> DEFINE s == Context("READY", 0, 0, FALSE, ses.owner, ses.tick)
<1>3. Leaves(c, s) /\ slot' = slot /\ s.st = "READY"
  BY Zenon DEF Clean, Context
<1>4. /\ ses' = Settled(c, Ready) /\ Clocked(c, Ready) /\ fresh' = fresh
      /\ UNCHANGED <<rbVars, refusing, vfloor, tick, installed>>
  <2> HIDE DEF s
  <2> QED BY <1>3, ReadyFact, Zenon DEF Leaves, Settled, Clocked
<1>5. /\ slot \in [1..Chunks -> Images \cup {Blank}] /\ fresh \subseteq 1..Chunks
      /\ trigger' \in BOOLEAN
  BY Zenon DEF FwuInv, FwuTypeOK, Clean
<1> QED BY <1>1, <1>3, <1>4, <1>5, ReadyFact, LeavesInv, Zenon

LEMMA QueryInv ==
  ASSUME FwuInv, NEW c \in Clients, Query(c)
  PROVE  FwuInv'
<1>1. /\ ses.st # "DOWN" /\ ses' = Held(c) /\ trigger' = Armed(c) /\ slot' = slot /\ fresh' = fresh
      /\ idle' = (IF Expired(c) THEN 0 ELSE idle)
      /\ UNCHANGED <<rbVars, refusing, vfloor, tick, installed>>
  BY Zenon DEF Query
<1>2. /\ FwuTypeOK /\ slot' \in [1..Chunks -> Images \cup {Blank}] /\ fresh' \subseteq 1..Chunks
      /\ tick' \in 0..TickMod - 1 /\ idle' \in 0..TickMod /\ refusing' \in BOOLEAN /\ vfloor' \in Nat
  BY <1>1, ConstFact DEF FwuInv, FwuTypeOK
<1>3. /\ ses' \in Contexts /\ ses'.st # "DOWN" /\ trigger' \in BOOLEAN
      /\ Agrees(ses', slot', fresh')
  BY <1>1, HeldFact, Zenon
<1>4. ServesFloor' /\ \A v : Below(v)' <=> Below(v)
  BY <1>1, <1>3, FloorKept, Zenon
<1>5. Agrees(ses, slot, fresh)'
  BY <1>3, <1>4, Zenon DEF Agrees, Shaped, CandidateBound, WrittenOK, InOrder, End
<1>6. LeaseClock'
  <2>1. CASE Expired(c)
    BY <1>1, <2>1, ReadyFact, Zenon DEF Held, LeaseClock
  <2>2. CASE ~Expired(c)
    <3>1. ses' = ses /\ idle' = idle /\ tick' = tick
      BY <1>1, <2>2, Zenon DEF Held
    <3> QED BY <3>1, Zenon DEF FwuInv, LeaseClock, Elapsed
  <2> QED BY <2>1, <2>2, Zenon
<1> QED BY <1>1, <1>2, <1>3, <1>4, <1>5, <1>6, ServiceStep, Zenon

LEMMA StartInv ==
  ASSUME FwuInv, NEW c \in Clients, NEW v \in Nat \cup {Undeclared}, Start(c, v)
  PROVE  FwuInv'
<1>1. /\ ses.st # "DOWN" /\ trigger' = Armed(c) /\ slot' = slot /\ fresh' = {} /\ idle' = 0
      /\ ses' = Context("WRITING", 0, v, FALSE, c, tick)
      /\ UNCHANGED <<rbVars, refusing, vfloor, tick, installed>>
  BY Zenon DEF Start
<1>2. /\ FwuTypeOK /\ slot' \in [1..Chunks -> Images \cup {Blank}] /\ fresh' \subseteq 1..Chunks
      /\ tick' \in 0..TickMod - 1 /\ idle' \in 0..TickMod /\ refusing' \in BOOLEAN /\ vfloor' \in Nat
      /\ tick \in 0..TickMod - 1
  BY <1>1, ConstFact DEF FwuInv, FwuTypeOK
<1>3. trigger' \in BOOLEAN
  BY <1>1, HeldFact, Zenon
<1>4. /\ ses'.st = "WRITING" /\ ses'.high = 0 /\ ses'.owner = c /\ ses'.tick = tick
      /\ ses'.armed = FALSE /\ ses' \in Contexts /\ c # NoOwner
  <2>1. 0 \in 0..2 * Chunks
    BY ConstFact, Zenon
  <2> QED BY <1>1, <1>2, <2>1, ConstFact, Zenon DEF Context, Contexts
<1>5. ServesFloor'
  BY <1>1, <1>4, FloorKept, Zenon
<1>6. Agrees(ses, slot, fresh)'
  <2>1. Shaped(ses)'
    BY <1>4, Zenon DEF Shaped
  <2>2. WrittenOK(ses, slot, fresh)' /\ CandidateBound(ses, slot, fresh)'
    BY <1>1, <1>4, Zenon DEF WrittenOK, CandidateBound
  <2>3. InOrder(ses, fresh)'
    <3>1. 0 \in 0..Chunks /\ {} = 1..0 /\ 0 = 2 * 0
      BY ConstFact
    <3> QED BY <1>1, <1>4, <3>1, Zenon DEF InOrder
  <2> QED BY <2>1, <2>2, <2>3, Zenon DEF Agrees
<1>7. LeaseClock'
  <2>1. Elapsed' = (tick + TickMod - tick) % TickMod
    BY <1>1, <1>4, Zenon DEF Elapsed
  <2>2. Elapsed' = 0
    BY <1>2, <2>1, ElapsedFact
  <2> QED BY <1>1, <2>2, Zenon DEF LeaseClock
<1> QED BY <1>1, <1>2, <1>3, <1>4, <1>5, <1>6, <1>7, ServiceStep, Zenon

\* Steps that change nothing of the session but the trigger, the clock of the
\* history or the tick
LEMMA TriggerInv ==
  ASSUME FwuInv, ses.st # "DOWN", trigger' \in BOOLEAN,
         UNCHANGED <<rbVars, ses, refusing, vfloor, slot, fresh, tick, idle, installed>>
  PROVE  FwuInv'
<1>1. FwuTypeOK' /\ RbInv' /\ InstalledPasses' /\ InstallBoots'
  BY BootKept DEF FwuInv, FwuTypeOK, InstalledPasses, InstallBoots
<1>2. ServesFloor' /\ \A v : Below(v)' <=> Below(v)
  BY FloorKept, Zenon
<1>3. Agrees(ses, slot, fresh)'
  BY <1>2, Zenon DEF FwuInv, Agrees, Shaped, CandidateBound, WrittenOK, InOrder, End
<1>4. LeaseClock'
  BY Zenon DEF FwuInv, LeaseClock, Elapsed
<1> QED BY <1>1, <1>2, <1>3, <1>4, Zenon DEF FwuInv

LEMMA ServedInv ==
  ASSUME FwuInv, NEW c \in Clients, Served(c)
  PROVE  FwuInv'
<1>1. ASSUME NEW erased \in BOOLEAN, ReclaimFails(c, erased) PROVE FwuInv'
  <2>1. ses.st # "DOWN"
    BY <1>1, ReadyFact, Zenon DEF ReclaimFails, Expired, FwuInv, ServesFloor
  <2>2. trigger' \in BOOLEAN
    BY <1>1, Zenon DEF ReclaimFails
  <2> QED BY <1>1, <2>1, <2>2, TriggerInv, Zenon DEF ReclaimFails
<1>2. ASSUME NEW v \in {Version[i] : i \in Images} \cup {Undeclared}, Start(c, v) PROVE FwuInv'
  <2>1. v \in Nat \cup {Undeclared}
    BY ConstFact, Zenon
  <2> QED BY <1>2, <2>1, StartInv, Zenon
<1>3. ASSUME NEW k \in 1..Chunks, NEW i \in Images, Write(c, k, i) PROVE FwuInv'
  BY <1>3, WriteInv, Zenon
<1> QED
  BY <1>1, <1>2, <1>3, QueryInv, IdlesInv, FailsInv, FinishInv, InstallInv, CleanInv, Zenon
     DEF Served

-----------------------------------------------------------------------------
(* The partition, the timer, resets and the boot *)

LEMMA EntryInv ==
  ASSUME FwuInv, Entry
  PROVE  FwuInv'
<1>1. /\ phase = "running" /\ ses' = Ready /\ refusing' = ~floorValid
      /\ vfloor' = (IF ~floorValid \/ Unlocked THEN 0 ELSE floor)
      /\ UNCHANGED <<rbVars, trigger, slot, fresh, tick, idle, installed>>
  BY Zenon DEF Entry, areaVars
<1>2. /\ FwuTypeOK /\ trigger' \in BOOLEAN /\ slot' \in [1..Chunks -> Images \cup {Blank}]
      /\ fresh' \subseteq 1..Chunks /\ tick' \in 0..TickMod - 1 /\ idle' \in 0..TickMod
      /\ floor \in Nat /\ floorValid \in BOOLEAN
  BY <1>1, Zenon DEF FwuInv, FwuTypeOK, RbTypeOK
<1>3. refusing' \in BOOLEAN /\ vfloor' \in Nat
  BY <1>1, <1>2, Zenon
<1>4. ServesFloor'
  BY <1>1, BootKept, ReadyFact DEF ServesFloor
<1>5. Shaped(ses)' /\ ses'.st = "READY"
  BY <1>1, ReadyFact, Zenon DEF Shaped
<1>6. Agrees(ses, slot, fresh)'
  BY <1>5, Zenon DEF Agrees, CandidateBound, WrittenOK, InOrder
<1>7. LeaseClock'
  BY <1>1, ReadyFact, Zenon DEF LeaseClock
<1> QED BY <1>1, <1>2, <1>3, <1>4, <1>6, <1>7, ReadyFact, ServiceStep, Zenon

LEMMA FaultInv ==
  ASSUME FwuInv, NEW k \in 1..Chunks, NEW i \in Images \cup {Blank}, FaultDuring(k, i)
  PROVE  FwuInv'
<1>1. /\ ses' = Down /\ idle' = 0 /\ UNCHANGED <<rbVars, refusing, vfloor, fresh, tick, installed>>
      /\ trigger' \in {trigger, TRUE, FALSE} /\ slot' \in {slot, [slot EXCEPT ![k] = i]}
  BY Zenon DEF FaultDuring
<1>2. /\ FwuTypeOK /\ fresh' \subseteq 1..Chunks
      /\ tick' \in 0..TickMod - 1 /\ idle' \in 0..TickMod /\ refusing' \in BOOLEAN /\ vfloor' \in Nat
      /\ slot' \in [1..Chunks -> Images \cup {Blank}]
  <2>1. slot \in [1..Chunks -> Images \cup {Blank}]
    BY Zenon DEF FwuInv, FwuTypeOK
  <2>2. slot' \in [1..Chunks -> Images \cup {Blank}]
    BY <1>1, <2>1, Zenon
  <2> QED BY <1>1, <2>2, ConstFact DEF FwuInv, FwuTypeOK
<1>4. trigger' \in BOOLEAN
  BY <1>1, Zenon DEF FwuInv, FwuTypeOK
<1>3. ServesFloor' /\ LeaseClock'
  BY <1>1, ReadyFact, Zenon DEF ServesFloor, LeaseClock
<1> QED BY <1>1, <1>2, <1>4, <1>3, ReadyFact, ServiceStep, Zenon

LEMMA TickInv ==
  ASSUME FwuInv, Tick
  PROVE  FwuInv'
<1>1. /\ tick' = (tick + 1) % TickMod
      /\ idle' = (IF ses.owner = NoOwner \/ idle = TickMod THEN idle ELSE idle + 1)
      /\ UNCHANGED <<rbVars, ses, refusing, vfloor, trigger, slot, fresh, installed>>
  BY Zenon DEF Tick, areaVars
<1>2. /\ FwuTypeOK /\ tick \in 0..TickMod - 1 /\ idle \in 0..TickMod /\ TickMod \in Nat \ {0}
      /\ ses.tick \in 0..TickMod - 1
  BY SesFact, ConstFact DEF FwuInv, FwuTypeOK
<1>3. tick' = IF tick + 1 < TickMod THEN tick + 1 ELSE 0
  <2> DEFINE x == tick + 1
  <2>1. x \in Nat /\ x < TickMod + TickMod
    BY <1>2
  <2>2. x % TickMod = IF x < TickMod THEN x ELSE x - TickMod
    <3> HIDE DEF x
    <3> QED BY <1>2, <2>1, ModFact, Zenon
  <2> QED BY <1>1, <1>2, <2>1, <2>2
<1>4. tick' \in 0..TickMod - 1 /\ idle' \in 0..TickMod
  BY <1>1, <1>2, <1>3
<1>5. LeaseClock'
  <2> SUFFICES ASSUME ses'.owner # NoOwner, idle' < TickMod PROVE Elapsed' = idle'
    BY Zenon DEF LeaseClock
  <2>1. ses.owner # NoOwner /\ idle < TickMod /\ idle' = idle + 1
    BY <1>1, <1>2
  <2>2. Elapsed = idle
    BY <2>1, Zenon DEF FwuInv, LeaseClock
  <2>3. Elapsed = IF tick >= ses.tick THEN tick - ses.tick ELSE tick + TickMod - ses.tick
    BY <1>2, ElapsedFact, Zenon DEF Elapsed
  <2>4. Elapsed' = IF tick' >= ses.tick THEN tick' - ses.tick ELSE tick' + TickMod - ses.tick
    BY <1>1, <1>2, <1>4, ElapsedFact, Zenon DEF Elapsed
  <2> QED BY <1>2, <1>3, <2>1, <2>2, <2>3, <2>4
<1>6. ServesFloor' /\ (ses'.st # "DOWN" => Agrees(ses, slot, fresh)')
  BY <1>1, BootKept DEF FwuInv, ServesFloor, Agrees, Shaped, CandidateBound, WrittenOK, InOrder,
                        End, Below
<1>7. /\ refusing' \in BOOLEAN /\ vfloor' \in Nat /\ trigger' \in BOOLEAN /\ ses' \in Contexts
      /\ slot' \in [1..Chunks -> Images \cup {Blank}] /\ fresh' \subseteq 1..Chunks
  BY <1>1, <1>2, Zenon DEF FwuTypeOK
<1> QED BY <1>1, <1>4, <1>5, <1>6, <1>7, ServiceStep, Zenon

\* On an enforcing boot what is STAGED is not below the floor in the store.
LEMMA StagedFact ==
  ASSUME FwuInv
  PROVE  StagedBoots
<1> SUFFICES ASSUME ses.st = "STAGED"
             PROVE  /\ slot[1] # Blank /\ Version[slot[1]] = ses.cand
                    /\ ~Unlocked => ses.cand >= Load.image
  BY Zenon DEF StagedBoots
<1>1. slot[1] # Blank /\ Version[slot[1]] = ses.cand /\ ~Below(ses.cand)
  BY Zenon DEF FwuInv, Agrees, CandidateBound
<1>2. slot[1] \in Images /\ ses.cand \in Nat
  BY <1>1, ConstFact DEF FwuInv, FwuTypeOK
<1>3. /\ refusing = ~floorValid /\ vfloor = (IF ~floorValid \/ Unlocked THEN 0 ELSE floor)
      /\ floor \in Nat /\ floorValid \in BOOLEAN /\ Load.image \in Nat
      /\ floorValid => floor >= Load.image
  BY LoadType, Zenon DEF FwuInv, ServesFloor, RbInv, RbTypeOK, StagingFloorCovers
<1>4. ~refusing /\ ~(ses.cand < vfloor)
  BY <1>1, Zenon DEF Below
<1>5. ~Unlocked => ses.cand >= Load.image
  <2>1. floorValid
    BY <1>3, <1>4, Zenon
  <2>2. ~Unlocked => vfloor = floor
    BY <1>3, <2>1, Zenon
  <2>3. vfloor \in Nat
    BY Zenon DEF FwuInv, FwuTypeOK
  <2> QED BY <1>2, <1>3, <1>4, <2>1, <2>2, <2>3
<1> QED BY <1>1, <1>5, Zenon

\* A reset: RAM is lost; the image in the boot partition is then i.
LEMMA ResetInv ==
  ASSUME FwuInv, NEW i \in Images, NEW lock \in BOOLEAN, Reset(i, lock), Lost,
         trigger' \in BOOLEAN, installed' \in BOOLEAN,
         slot' \in [1..Chunks -> Images \cup {Blank}],
         installed' => Version[i] >= Load.image
  PROVE  FwuInv'
<1>1. RbInv'
  <2>1. RbNext
    BY Zenon DEF RbNext
  <2> QED BY <2>1, RbStep, Zenon DEF FwuInv
<1>2. /\ ses' = Down /\ refusing' = FALSE /\ vfloor' = 0 /\ fresh' = {} /\ tick' = 0 /\ idle' = 0
  BY Zenon DEF Lost
<1>3. FwuTypeOK'
  <2>1. RbTypeOK'
    BY <1>1, Zenon DEF RbInv
  <2>2. refusing' \in BOOLEAN
    BY <1>2, Zenon
  <2> QED BY <1>2, <2>1, <2>2, ReadyFact, ConstFact DEF FwuTypeOK
<1>4. ServesFloor' /\ LeaseClock' /\ ses'.st = "DOWN"
  BY <1>2, ReadyFact, Zenon DEF ServesFloor, LeaseClock
<1>5. InstalledPasses' /\ InstallBoots'
  <2>1. image' = i /\ flash' = flash /\ phase' = "reset"
    BY Zenon DEF Reset
  <2>2. Load' = Load
    BY <2>1, Zenon DEF Load
  <2> QED BY <2>1, <2>2, Zenon DEF InstalledPasses, InstallBoots
<1> QED BY <1>1, <1>3, <1>4, <1>5, Zenon DEF FwuInv

LEMMA NoSwapInv ==
  ASSUME FwuInv, NEW lock \in BOOLEAN, NEW clears \in BOOLEAN, NoSwap(lock, clears)
  PROVE  FwuInv'
<1>1. image \in Images /\ slot \in [1..Chunks -> Images \cup {Blank}] /\ trigger \in BOOLEAN
  BY Zenon DEF FwuInv, FwuTypeOK, RbTypeOK
<1>2. /\ Reset(image, lock) /\ Lost /\ slot' = slot /\ installed' = FALSE
      /\ trigger' = (trigger /\ ~clears)
  BY Zenon DEF NoSwap
<1>3. trigger' \in BOOLEAN /\ installed' \in BOOLEAN
  BY <1>2, Zenon
<1> QED BY <1>1, <1>2, <1>3, ResetInv, Zenon

\* The granted reset brings up what was staged, at a version the store admits.
LEMMA SwapInv ==
  ASSUME FwuInv, NEW i \in Images, NEW lock \in BOOLEAN, NEW granted \in BOOLEAN,
         Swap(i, lock, granted), granted => ses.st = "STAGED"
  PROVE  FwuInv'
<1>1. /\ Reset(i, lock) /\ Lost /\ Authentic(i) /\ trigger' = FALSE
      /\ slot' = [k \in 1..Chunks |-> IF k <= Size[image] THEN image ELSE Blank]
      /\ installed' = (granted /\ ~Unlocked)
  BY Zenon DEF Swap
<1>2. image \in Images
  BY Zenon DEF FwuInv, FwuTypeOK, RbTypeOK
<1>3. trigger' \in BOOLEAN /\ installed' \in BOOLEAN
  BY <1>1, Zenon
<1>4. slot' \in [1..Chunks -> Images \cup {Blank}]
  BY <1>1, <1>2, Zenon
<1>5. slot[1] = i
  BY <1>1, ConstFact DEF Authentic
<1>6. installed' => Version[i] >= Load.image
  BY <1>1, <1>5, StagedFact, Zenon DEF StagedBoots
<1> QED BY <1>1, <1>3, <1>4, <1>6, ResetInv, Zenon

LEMMA BootInv ==
  ASSUME FwuInv, Boot, UNCHANGED fwuVars
  PROVE  FwuInv'
<1>1. RbInv'
  BY RbStep, Zenon DEF FwuInv, RbNext
<1>2. UNCHANGED <<ses, refusing, vfloor, trigger, slot, fresh, tick, idle, installed>>
  BY Zenon DEF fwuVars, areaVars
<1>3. phase # "running" /\ phase' # "reset"
  BY Zenon DEF Boot, EnforceUnreadable, EnforceImage, EnforceGuests, Reformat, Provision,
         MonitorStart, Panic
<1>4. ses.st = "DOWN" /\ ses.owner = NoOwner
  BY <1>3, Zenon DEF FwuInv, ServesFloor
<1>5. FwuTypeOK'
  BY <1>1, <1>2, Zenon DEF FwuInv, FwuTypeOK, RbInv
<1>6. ServesFloor' /\ LeaseClock' /\ InstalledPasses'
  BY <1>2, <1>3, <1>4, Zenon DEF ServesFloor, LeaseClock, InstalledPasses
<1>7. InstallBoots'
  <2>1. ASSUME NEW ho \in BOOLEAN, EnforceUnreadable(ho) PROVE InstallBoots'
    BY <2>1, Zenon DEF EnforceUnreadable, Refuse, InstallBoots
  <2>2. ASSUME NEW ho \in BOOLEAN, EnforceImage(ho) PROVE InstallBoots'
    <3>1. phase = "reset" /\ handoff' = ho
          /\ ~Passes(ho /\ ~secured, ReportedAs(image, ho), Load.image)
      BY <2>2, Zenon DEF EnforceImage
    <3>2. ho => ~(Version[image] >= Load.image)
      BY <3>1, Zenon DEF Passes, ReportedAs
    <3> QED BY <1>2, <3>1, <3>2, Zenon DEF InstallBoots, FwuInv, InstalledPasses
  <2>3. ASSUME NEW ho \in BOOLEAN, NEW stores \in BOOLEAN, EnforceGuests(ho, stores)
        PROVE  InstallBoots'
    BY <2>3, Zenon DEF EnforceGuests, Refuse, InstallBoots
  <2>4. CASE Reformat \/ Provision \/ MonitorStart \/ Panic
    BY <1>2, <2>4, Zenon DEF Reformat, Provision, MonitorStart, Panic, InstallBoots, FwuInv
  <2> QED BY <2>1, <2>2, <2>3, <2>4, Zenon DEF Boot
<1> QED BY <1>1, <1>2, <1>4, <1>5, <1>6, <1>7, Zenon DEF FwuInv

-----------------------------------------------------------------------------
(* The theorems about the update service *)

LEMMA FwuInitInv == FwuInit => FwuInv
<1> SUFFICES ASSUME FwuInit PROVE FwuInv
  BY Zenon
<1>1. RbInv /\ RbTypeOK
  BY InitRb, Zenon DEF FwuInit, RbInv
<1>2. slot \in [1..Chunks -> Images \cup {Blank}]
  BY Zenon DEF FwuInit
<1>3. refusing \in BOOLEAN /\ trigger \in BOOLEAN /\ installed \in BOOLEAN
  BY Zenon DEF FwuInit
<1>4. FwuTypeOK
  BY <1>1, <1>2, <1>3, ReadyFact, ConstFact DEF FwuInit, FwuTypeOK
<1>5. ses.st = "DOWN" /\ ses.owner = NoOwner /\ ~installed
  BY ReadyFact, Zenon DEF FwuInit
<1> QED BY <1>1, <1>4, <1>5, Zenon DEF FwuInv, ServesFloor, LeaseClock, InstalledPasses, InstallBoots

LEMMA FwuStepInv ==
  ASSUME FwuInv, [FwuNext]_vars
  PROVE  FwuInv'
<1>1. ASSUME NEW c \in Clients, NEW lock \in BOOLEAN, Reboot(c, lock) PROVE FwuInv'
  <2>1. ses.st # "DOWN" /\ Held(c).st = "STAGED"
    BY <1>1, Zenon DEF Reboot, Admitted
  <2>2. ses.st = "STAGED"
    BY <2>1, HeldFact, Zenon
  <2>3. CASE \E i \in Images : Swap(i, lock, TRUE)
    <3>1. TRUE \in BOOLEAN
      BY Zenon
    <3> QED BY <2>2, <2>3, <3>1, SwapInv, Zenon
  <2>4. CASE \E clears \in BOOLEAN : NoSwap(lock, clears)
    BY <2>4, NoSwapInv, Zenon
  <2> QED BY <1>1, <2>3, <2>4, Zenon DEF Reboot
<1>2. ASSUME NEW lock \in BOOLEAN, PowerCycle(lock) PROVE FwuInv'
  <2>1. CASE \E i \in Images : Swap(i, lock, FALSE)
    <3>1. FALSE \in BOOLEAN
      BY Zenon
    <3> QED BY <2>1, <3>1, SwapInv, Zenon
  <2>2. CASE \E clears \in BOOLEAN : NoSwap(lock, clears)
    BY <2>2, NoSwapInv, Zenon
  <2> QED BY <1>2, <2>1, <2>2, Zenon DEF PowerCycle
<1>3. CASE UNCHANGED vars
  <2>1. UNCHANGED <<rbVars, ses, refusing, vfloor, trigger, slot, fresh, tick, idle, installed>>
    BY <1>3, Zenon DEF vars, fwuVars, areaVars
  <2>2. FwuTypeOK' /\ RbInv' /\ InstalledPasses' /\ InstallBoots'
    BY <2>1, BootKept DEF FwuInv, FwuTypeOK, InstalledPasses, InstallBoots
  <2>3. ServesFloor' /\ LeaseClock'
    BY <2>1, BootKept DEF FwuInv, ServesFloor, LeaseClock, Elapsed
  <2>4. ses'.st # "DOWN" => Agrees(ses, slot, fresh)'
    BY <2>1, Zenon DEF FwuInv, Agrees, Shaped, CandidateBound, WrittenOK, InOrder, End, Below
  <2> QED BY <2>2, <2>3, <2>4, Zenon DEF FwuInv
<1>4. CASE FwuNext
  BY <1>1, <1>2, <1>4, ServedInv, EntryInv, FaultInv, TickInv, BootInv, Zenon DEF FwuNext
<1> QED BY <1>3, <1>4, Zenon

LEMMA FwuInvariance == FwuSpec => []FwuInv
<1>1. FwuInv /\ [FwuNext]_vars => FwuInv'
  BY FwuStepInv, Zenon
<1> QED BY <1>1, FwuInitInv, PTL DEF FwuSpec

\* Nothing the update service, its partition or wolfBoot's swap does changes the
\* floors or the boot state: to them every step is one of wt_boot_run's or a reset.
LEMMA RefinesStep ==
  ASSUME FwuInv, [FwuNext]_vars
  PROVE  [RbNext]_rbVars
<1>1. image \in Images
  BY Zenon DEF FwuInv, FwuTypeOK, RbTypeOK
<1>2. ASSUME NEW i \in Images, NEW lock \in BOOLEAN, Reset(i, lock) PROVE RbNext
  BY <1>2, Zenon DEF RbNext
<1>3. ASSUME NEW lock \in BOOLEAN, PowerCycle(lock) \/ \E c \in Clients : Reboot(c, lock)
      PROVE  RbNext
  <2>1. \E i \in Images : Reset(i, lock)
    BY <1>1, <1>3, Zenon DEF PowerCycle, Reboot, Swap, NoSwap
  <2> QED BY <1>2, <2>1, Zenon
<1>4. CASE Boot
  BY <1>4, Zenon DEF RbNext
<1>5. ASSUME NEW c \in Clients, Served(c) PROVE UNCHANGED rbVars
  BY <1>5, Zenon DEF Served, ReclaimFails, RejectFails, Query, Start, Idles, Write, WriteFails,
     Finish, FinishFails, Install, InstallFails, Cancel, Clean, Reject, Leaves
<1>6. CASE Entry \/ Tick
  BY <1>6, Zenon DEF Entry, Tick
<1>7. ASSUME NEW k \in 1..Chunks, NEW i \in Images \cup {Blank}, FaultDuring(k, i)
      PROVE  UNCHANGED rbVars
  BY <1>7, Zenon DEF FaultDuring
<1>8. CASE UNCHANGED vars
  BY <1>8, Zenon DEF vars
<1> QED BY <1>3, <1>4, <1>5, <1>6, <1>7, <1>8, Zenon DEF FwuNext

\* The device with the update service does to the floors only what wt_boot_run
\* and resets do (the composition of fwu_service.c with boot.c).
THEOREM ServiceRefinesRollback == FwuSpec => RbSpec
<1>1. FwuInit => RbInit
  BY Zenon DEF FwuInit
<1>2. FwuInv /\ [FwuNext]_vars => [RbNext]_rbVars
  BY RefinesStep, Zenon
<1> QED BY <1>1, <1>2, FwuInvariance, PTL DEF FwuSpec, RbSpec

\* So no sequence of updates, whatever is staged, armed, swapped or lost, takes
\* the device back (wt_hsm_rollback_enforce under SERVICE_FWU).
THEOREM UpdatesNeverGoBack == FwuSpec => NeverBack
BY ServiceRefinesRollback, NeverGoesBack, PTL

\* On either port: what is STAGED is what FINISH bound and is not below the
\* stored floor of an enforcing boot, the reset the service grants is never
\* refused as a downgrade, and what then runs is recorded in the store
\* (wt_fwu_finish, wt_fwu_install, wt_hsm_rollback_enforce).
THEOREM StagedUpdatesBoot ==
  FwuSpec => [](FwuTypeOK /\ StagedBoots /\ InstallBoots /\ LaunchRecorded)
<1>1. FwuInv => FwuTypeOK /\ StagedBoots /\ InstallBoots /\ LaunchRecorded
  BY StagedFact, Zenon DEF FwuInv, RbInv, LaunchRecorded
<1> QED BY <1>1, FwuInvariance, PTL

\* On a port that takes the blocks in order (MIMXRT700) a candidate is moreover
\* made of blocks of its session only (wt_fwu_backend_verify).
THEOREM UpdatesBoot ==
  ASSUME Contiguous
  PROVE  FwuSpec => []UpdateBoots
<1>1. FwuInv => UpdateBoots
  <2> SUFFICES ASSUME FwuInv PROVE UpdateBoots
    BY Zenon
  <2>1. CandidateFresh
    BY Zenon DEF FwuInv, Agrees, CandidateBound, CandidateFresh
  <2> QED BY <2>1, StagedFact, Zenon DEF FwuInv, RbInv, LaunchRecorded, UpdateBoots
<1> QED BY <1>1, FwuInvariance, PTL

\* An image that is there completely, by writes of this session, passes the
\* verification, unless the port compares write_high with what it programmed and
\* the image needed padding.
LEMMA CompleteFact ==
  ASSUME FwuInv, ~Contiguous \/ Short = {}
  PROVE  CompleteVerifies
<1> SUFFICES ASSUME NEW i \in Images, ses.st = "WRITING", fresh = 1..Size[i], Authentic(i)
             PROVE  Verifies
  BY Zenon DEF CompleteVerifies
<1> DEFINE n == Size[i]
<1>1. n \in 1..Chunks /\ n \in Nat /\ n \in fresh /\ 1 \in fresh
  BY ConstFact
<1>2. slot[1] = i /\ slot[n] = i /\ i # Blank
  BY <1>1, ConstFact, Zenon DEF Authentic
<1>3. End(n, i) <= ses.high
  BY <1>1, <1>2, Zenon DEF FwuInv, Agrees, WrittenOK
<1>4. Contiguous => \E m \in 0..Chunks : fresh = 1..m /\ ses.high = 2 * m
  BY Zenon DEF FwuInv, Agrees, InOrder
<1> QED BY <1>2, <1>3, <1>4, Zenon DEF Verifies

\* The session's state, owner and trigger agree, and what was staged completely
\* can be finished (wt_fwu_service_call, wt_fwu_finish).  The hypothesis is the
\* boundary of the finding about padded images: a port that takes the blocks in
\* order, and an image whose length is no multiple of its alignment.
THEOREM SessionsAgree ==
  ASSUME ~Contiguous \/ Short = {}
  PROVE  FwuSpec => []SessionOK
<1>1. FwuInv => SessionOK
  <2> SUFFICES ASSUME FwuInv PROVE SessionOK
    BY Zenon
  <2>1. SessionShape
    BY Zenon DEF FwuInv, Agrees, Shaped, SessionShape
  <2> QED BY <2>1, CompleteFact, Zenon DEF SessionOK
<1> QED BY <1>1, FwuInvariance, PTL

\* Until its owner has been idle for the timeout no other client's call changes
\* the open update or the update partition, for every timeout below the wrap of
\* the tick counter (wt_fwu_owner_expired, the owner check).
THEOREM OwnersUndisturbed == FwuSpec => Undisturbed
<1> DEFINE Quiet == \A c \in Clients :
                      ses.owner \notin {NoOwner, c} /\ idle < Timeout /\ Served(c)
                        => UNCHANGED <<ses, areaVars>>
<1>1. FwuInv /\ [FwuNext]_vars => [Quiet]_vars
  <2> SUFFICES ASSUME FwuInv, NEW c \in Clients, ses.owner \notin {NoOwner, c}, idle < Timeout,
                      Served(c)
               PROVE  UNCHANGED <<ses, areaVars>>
    BY Zenon
  <2>1. Elapsed = idle /\ idle \in Nat
    BY ConstFact DEF FwuInv, LeaseClock, FwuTypeOK
  <2>2. ~Expired(c)
    BY <2>1, ConstFact DEF Expired
  <2>3. Held(c) = ses /\ Armed(c) = trigger /\ ~Admitted(c)
    BY <2>2, Zenon DEF Held, Armed, Admitted
  <2>4. ses.st # "DOWN" /\ ses.st # "READY"
    BY Zenon DEF FwuInv, ServesFloor, Agrees, Shaped
  <2>5. Query(c)
    BY <2>2, <2>3, <2>4, Zenon DEF Served, ReclaimFails, RejectFails, Start, Idles, Write,
       WriteFails, Finish, FinishFails, Install, InstallFails, Cancel, Clean, Reject
  <2> QED BY <2>3, <2>5, Zenon DEF Query, areaVars
<1> QED BY <1>1, FwuInvariance, PTL DEF FwuSpec, Undisturbed
=============================================================================
