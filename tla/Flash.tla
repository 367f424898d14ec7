-------------------------------- MODULE Flash --------------------------------
(***************************************************************************)
(* The flash drivers of the two ports, port/stm32h563/hsm_flash.c (on-chip *)
(* flash with error correction, behind an instruction cache) and           *)
(* port/mimxrt700/hsm_flash.c with xspi_nor.c (a NOR device behind the     *)
(* XSPI controller and a read cache), under the two users they have: the   *)
(* vault's store and the staging of a firmware update.                     *)
(*                                                                         *)
(* Nothing else runs while a driver call is in flight, so a call is one    *)
(* step; where it stops is not: a device error or a loss of power may end  *)
(* it at any sector or program unit.  Addresses count program units.       *)
(***************************************************************************)
EXTENDS Integers, FiniteSets, FiniteSetsExt

CONSTANTS Ports,        \* ports checked, of {"h5", "rt"}
          SectorUnits,  \* program units in a sector
          PageUnits,    \* program units in a NOR page
          NvmSectors,   \* sectors of the vault's store
          FwuSectors,   \* sectors of the update partition, the trailer last
          Values,       \* what a unit may be programmed with
          MaxTrouble    \* bound: device errors and losses of power

ASSUME FlashAssumption ==
  /\ Ports \subseteq {"h5", "rt"}
  /\ {SectorUnits, PageUnits, NvmSectors, FwuSectors} \subseteq Nat \ {0}
  /\ SectorUnits % PageUnits = 0 /\ FwuSectors > 1

VARIABLES port,    \* the port built
          dev,     \* the device: cells, the cached line, whether it was flushed
          sess,    \* the update backend's session
          hung,    \* what NMI_Handler stopped the processor in, or "no"
          faults,
          cuts

vars == <<port, dev, sess, hung, faults, cuts>>

Blank == "blank"
Torn == "torn"
Trigger == "trigger"
NoLine == [unit |-> -1, value |-> Blank]

\* g_hsm_flash_cfg and g_fwu_flash_cfg, in units.
NvmSize == NvmSectors * SectorUnits
FwuSize == FwuSectors * SectorUnits
Units == 0..(NvmSize + FwuSize - 1)

\* wt_flash_geometry: fixed by the context's identity.  A context of a
\* partition's own is none of them.
Geometry(ctx) ==
  CASE ctx = "nvm" -> [base |-> 0, size |-> NvmSize]
    [] ctx = "fwu" -> [base |-> NvmSize, size |-> FwuSize]

\* wt_flash_range_ok
RangeOk(ctx, off, n) ==
  /\ ctx \in {"nvm", "fwu"}
  /\ off <= Geometry(ctx).size
  /\ n <= Geometry(ctx).size - off

\* The checks of wt_hsm_flash_program and of wt_hsm_flash_erase.  The write
\* lock is left out: nothing here takes it.
ProgramOk(ctx, off, n) == RangeOk(ctx, off, n)
EraseOk(ctx, off, n) ==
  /\ RangeOk(ctx, off, n)
  /\ off % SectorUnits = 0 /\ n % SectorUnits = 0

\* wt_hsm_flash_device_address, and the address the on-chip driver writes
At(ctx, off, n) == LET b == Geometry(ctx).base + off IN b..(b + n - 1)

Sector == [u \in Units |-> u \div SectorUnits]

-----------------------------------------------------------------------------
(* The device.  An operation works through its units in groups: one unit,  *)
(* one NOR page or one sector at a time, and stops at the first group that *)
(* fails.                                                                  *)

\* wt_xspi_nor_program bounds a transfer by the page; the on-chip flash
\* takes one unit.
Chunk == [u \in Units |-> IF port = "rt" THEN u \div PageUnits ELSE u]

\* What is left in a unit that may or may not have been reached.
Broken(old, new) == {old, new, Torn}

\* A unit programmed twice does not hold what was written the second time.
Programmed(old, new) == IF old \in {Blank, new} THEN new ELSE Torn

\* MUTANT: the caches are left alone when the device reports an error.
FlushedLineOnOk(d, rc) == IF rc = "error" THEN d.line ELSE NoLine

\* wt_flash_icache_invalidate, wt_xspi_read_path_flush: on every way out.
\* (A loss of power empties the caches.)
FlushedLine(d, rc) == NoLine

\* The whole operation done.
Done(d, us, new) ==
  [d EXCEPT !.cell = [u \in Units |-> IF u \in us THEN new[u] ELSE @[u]],
            !.line = FlushedLine(d, "ok"), !.clean = TRUE]

\* wt_flash_check_errors, wt_nor_check_fail: stopped in group f, whose units
\* are in any state.  The NOR driver may give up with the flush not done, or
\* with the NOR still at it; the caches are then not known to be clean.
Stopped(d, us, group, new, f, rc) ==
  LET here == {u \in us : group[u] = f}
      left == {g \in [here -> {Blank, Torn, Trigger} \cup Values] :
                 \A u \in here : g[u] \in Broken(d.cell[u], new[u])}
      cleans == IF port = "rt" /\ rc = "error" THEN BOOLEAN ELSE {TRUE}
      cell(g) == [u \in Units |-> IF u \notin us \/ group[u] > f THEN d.cell[u]
                                  ELSE IF group[u] < f THEN new[u] ELSE g[u]]
      line(clean) == IF clean THEN FlushedLine(d, rc) ELSE d.line
  IN UNION {{[d EXCEPT !.cell = cell(g), !.line = line(clean), !.clean = clean] : g \in left} :
              clean \in cleans}

Out(d, rc) ==
  [dev |-> d, rc |-> rc, errs |-> IF rc = "error" THEN 1 ELSE 0]

\* Everything an operation on units us may come to: nothing if there are none.
Outcomes(d, us, group, new) ==
  LET groups == {group[u] : u \in us}
      fail(rc) == UNION {{Out(e, rc) : e \in Stopped(d, us, group, new, f, rc)} : f \in groups}
  IN IF us = {} THEN {Out(d, "ok")}
     ELSE {Out(Done(d, us, new), "ok")}
          \cup (IF faults + cuts < MaxTrouble THEN fail("error") \cup fail("cut") ELSE {})

-----------------------------------------------------------------------------
(* Reading                                                                 *)

\* The processor's view of a unit, through the cache.
Mapped(d, u) == IF d.line.unit = u THEN d.line.value ELSE d.cell[u]

\* MUTANT: the last unit of a read that ends inside it is not covered.
EccWindowShort(h, n) == (h \div 2)..((h + n) \div 2 - 1)

\* wt_flash_read_checked: the units whose error the NMI handler forgives,
\* for a read of n half units from half unit h.
EccWindow(h, n) == (h \div 2)..((h + n + 1) \div 2 - 1)

HalvesOf(h, n) == {i \div 2 : i \in h..(h + n - 1)}

\* NMI_Handler: an error outside of the window stops the processor.
Hangs(d, us, window) ==
  port = "h5" /\ \E u \in us : d.cell[u] = Torn /\ u \notin window
Reading(d, us, window, by) ==
  hung' = IF Hangs(d, us, window) THEN by ELSE hung

-----------------------------------------------------------------------------
(* The store's calls.  From the unprivileged vault they come through       *)
(* wt_hsm_flash_gate, which passes no context but the store's.             *)

Running == hung = "no"

\* wt_hsm_flash_gate
Gated == {"nvm"}

\* RAM is lost with the power, and the caches with it.
NoSession == [state |-> "ready", erased |-> 0, sectors |-> {}, wend |-> 0,
              written |-> [u \in Units |-> Blank], armed |-> FALSE]

\* PSA_FWU_FAILED: what the session recorded is not read again.
Failed == [NoSession EXCEPT !.state = "failed"]

\* A call that came to out, and what it leaves in RAM while the power stays
\* on; a successful one goes on to read units us straight from flash.
EndsReading(out, s, us) ==
  /\ dev' = out.dev
  /\ IF out.rc = "cut"
     THEN sess' = NoSession /\ cuts' = cuts + 1
     ELSE sess' = s /\ UNCHANGED cuts
  /\ faults' = faults + out.errs
  /\ IF out.rc = "ok" THEN Reading(out.dev, us, {}, "direct") ELSE UNCHANGED hung
  /\ UNCHANGED port
Ends(out, s) == EndsReading(out, s, {})

\* wt_hsm_flash_program
Program(ctx, off, n, v) ==
  LET us == At(ctx, off, n)
      new == [u \in us |-> Programmed(dev.cell[u], v)]
  IN /\ Running /\ ProgramOk(ctx, off, n) /\ n # 0
     /\ \E out \in Outcomes(dev, us, Chunk, new) : Ends(out, sess)

\* wt_hsm_flash_erase; wt_hsm_flash_format erases all of the store.
Erase(ctx, off, n) ==
  LET us == At(ctx, off, n)
      new == [u \in us |-> Blank]
  IN /\ Running /\ EraseOk(ctx, off, n) /\ n # 0
     /\ \E out \in Outcomes(dev, us, Sector, new) : Ends(out, sess)

\* wt_hsm_flash_read, of half units; a read of intact ones changes nothing.
Read(h, n) ==
  /\ Running /\ \E u \in HalvesOf(h, n) : dev.cell[u] = Torn
  /\ Reading(dev, HalvesOf(h, n), EccWindow(h, n), "read")
  /\ UNCHANGED <<port, dev, sess, faults, cuts>>

\* wt_hsm_flash_verify and wt_hsm_flash_blank_check read unit by unit.
Compare(u) ==
  /\ Running /\ dev.cell[u] = Torn
  /\ Reading(dev, {u}, EccWindow(2 * u, 2), "read")
  /\ UNCHANGED <<port, dev, sess, faults, cuts>>

\* A read of the processor's fills the cache; the line stands for any one of
\* the cache's, kept until the next flush.
Fill(u) ==
  /\ Running /\ dev.line = NoLine
  /\ dev' = [dev EXCEPT !.line = [unit |-> u, value |-> Mapped(dev, u)]]
  /\ UNCHANGED <<port, sess, hung, faults, cuts>>

-----------------------------------------------------------------------------
(* Staging an update, called by the update service in the order its states *)
(* allow: ready, writing, candidate, staged, failed.                       *)

TrailerUnit == NvmSize + FwuSize - 1
TrailerSector == Sector[TrailerUnit]
Trailer == {u \in Units : Sector[u] = TrailerSector}

\* wt_fwu_backend_begin
Begin ==
  /\ Running /\ sess.state = "ready"
  /\ sess' = [NoSession EXCEPT !.state = "writing"]
  /\ UNCHANGED <<port, dev, hung, faults, cuts>>

\* MUTANT: every sector a write touches is erased again.
ToEraseAlways(us) == {Sector[u] : u \in us}

\* wt_fwu_ensure_erased: the on-chip port remembers sectors (its word of 32
\* bits has one for each of the 32 sectors of WT_FWU_UPDATE_FLASH_SIZE), the
\* other one how far it has erased.
ToErase(us) ==
  IF port = "h5" THEN {Sector[u] : u \in us} \ sess.sectors
  ELSE (Sector[NvmSize] + sess.erased)..Max({Sector[u] : u \in us})

\* What ensure_erased has recorded of sectors ss.
Erased(ss) ==
  [sess EXCEPT !.sectors = @ \cup ss,
               !.erased = IF ss = {} THEN @ ELSE Max(ss) + 1 - Sector[NvmSize]]

\* Capacity excludes the trailer; one port takes blocks in order only.
WriteOk(off, n) ==
  /\ off < FwuSize - SectorUnits /\ n <= FwuSize - SectorUnits - off
  /\ port = "rt" => off = sess.wend

\* wt_fwu_backend_write: erase what is not, program, compare.
Write(off, n, v) ==
  LET us == At("fwu", off, n)
      ss == ToErase(us)
      blank == [u \in Units |-> Blank]
  IN /\ Running /\ sess.state = "writing" /\ off + n <= FwuSize - SectorUnits
     /\ IF ~WriteOk(off, n)
        THEN Ends(Out(dev, "refused"), Failed)
        ELSE \E e \in Outcomes(dev, {u \in Units : Sector[u] \in ss}, Sector, blank) :
               IF e.rc # "ok" THEN Ends(e, Failed)
               ELSE LET new == [u \in us |-> Programmed(e.dev.cell[u], v)]
                        s == Erased(ss)
                    IN \E p \in Outcomes(e.dev, us, Chunk, new) :
                         EndsReading(p, IF p.rc # "ok" \/ \E u \in us : Mapped(p.dev, u) # v
                                        THEN Failed
                                        ELSE [s EXCEPT !.wend = off + n,
                                                !.written = [u \in Units |-> IF u \in us THEN v ELSE @[u]]],
                                     us)

\* wt_fwu_backend_verify reads the header straight from flash. It may refuse
\* for the size or the version too, which module Fwu models.
Finish ==
  /\ Running /\ sess.state = "writing" /\ sess.written # NoSession.written
  /\ Reading(dev, {NvmSize}, {}, "direct")
  /\ \/ Mapped(dev, NvmSize) \in Values /\ sess' = [sess EXCEPT !.state = "candidate"]
     \/ sess' = Failed
  /\ UNCHANGED <<port, dev, faults, cuts>>

\* wt_fwu_backend_disarm
Disarmed(d) == Outcomes(d, Trailer, Sector, [u \in Trailer |-> Blank])

\* The trailer is erased before it is programmed; the on-chip port skips
\* what it has erased since begin.
ArmErased ==
  IF port = "h5" /\ TrailerSector \in sess.sectors THEN {Out(dev, "ok")}
  ELSE Disarmed(dev)

\* A partially programmed trigger must not survive a failed arm.
AfterFailedArm(p) ==
  {[o EXCEPT !.rc = IF @ = "cut" THEN "cut" ELSE "error", !.errs = p.errs + @] :
     o \in Disarmed(p.dev)}

\* wt_fwu_backend_arm
Arm ==
  LET s == [sess EXCEPT !.sectors = @ \cup {TrailerSector}]
  IN /\ Running /\ sess.state = "candidate"
     /\ \E e \in ArmErased :
          IF e.rc # "ok" THEN Ends(e, sess)
          ELSE LET new == [u \in {TrailerUnit} |-> Programmed(e.dev.cell[u], Trigger)]
               IN \E p \in Outcomes(e.dev, {TrailerUnit}, Chunk, new) :
                    IF p.rc = "error" \/ (p.rc = "ok" /\ Mapped(p.dev, TrailerUnit) # Trigger)
                    THEN \E o \in AfterFailedArm(p) : Ends(o, s)
                    ELSE EndsReading(p, [s EXCEPT !.state = "staged", !.armed = TRUE], {TrailerUnit})

\* wt_fwu_cancel
Cancel ==
  /\ Running /\ sess.state \in {"writing", "candidate"}
  /\ Ends(Out(dev, "ok"), Failed)

\* wt_fwu_reject
Reject ==
  /\ Running /\ sess.state = "staged"
  /\ \E o \in Disarmed(dev) :
       Ends(o, IF o.rc = "ok" THEN Failed ELSE sess)

\* wt_fwu_clean; nothing that fails a session leaves it armed.
Clean ==
  /\ Running /\ sess.state = "failed"
  /\ Ends(Out(dev, "ok"), NoSession)

Init ==
  /\ port \in Ports
  /\ dev = [cell |-> [u \in Units |-> Blank], line |-> NoLine, clean |-> TRUE]
  /\ sess = NoSession
  /\ hung = "no"
  /\ faults = 0 /\ cuts = 0

Next ==
  \/ \E ctx \in Gated, off \in 0..NvmSize, n \in 1..NvmSize, v \in Values : Program(ctx, off, n, v)
  \/ \E ctx \in Gated, off \in 0..NvmSize, n \in 1..NvmSize : Erase(ctx, off, n)
  \/ \E h \in 0..(2 * NvmSize - 1) : \E n \in 1..(2 * NvmSize - h) : Read(h, n)
  \/ \E u \in 0..(NvmSize - 1) : Compare(u)
  \/ \E u \in Units : Fill(u)
  \/ \E off \in 0..(FwuSize - 1), n \in 1..SectorUnits, v \in Values : Write(off, n, v)
  \/ Begin \/ Finish \/ Arm \/ Cancel \/ Reject \/ Clean

Spec == Init /\ [][Next]_vars

-----------------------------------------------------------------------------
(* Properties                                                              *)

\* The cached line shows what the flash holds whenever a driver call has
\* returned, on its error paths too, unless the flush itself timed out: a
\* read-back never sees the contents from before the program or the erase.
CacheCoherent ==
  dev.clean /\ dev.line # NoLine => dev.line.value = dev.cell[dev.line.unit]

\* While a session lasts every unit it reported as written holds what was
\* written, and the sectors it has on record as erased are blank elsewhere:
\* "every sector below it is blank or holds staged data and is never erased
\* again" (mimxrt700/hsm_flash.c:371).  This is what the update service's
\* model takes for granted of a block written since begin.
StagedIntact ==
  sess.state \in {"writing", "candidate", "staged"} =>
    \A u \in Units \ Trailer :
      /\ sess.written[u] # Blank => dev.cell[u] = sess.written[u]
      /\ /\ Sector[u] \in sess.sectors
         /\ sess.written[u] = Blank
         => dev.cell[u] = Blank

\* A unit damaged by a loss of power while it was programmed is reported by
\* the driver's reads and never stops the processor, whichever part of the
\* unit the caller asked for (wt_flash_read_checked, NMI_Handler).
ReadsSurvive == hung # "read"

\* "A partially programmed trigger must not survive a failed arm"
\* (stm32h563/hsm_flash.c:801): with one device error at most, and the power
\* on, a candidate that is not armed does not read as armed at the next boot.
ArmClean ==
  sess.state = "candidate" /\ cuts = 0 /\ faults < 2 =>
    dev.cell[TrailerUnit] # Trigger

\* The update partition is what the session believes it to be: what it staged
\* is there, and no trigger it did not arm (wt_fwu_backend_write and _arm).
UpdateAreaOK == StagedIntact /\ ArmClean
=============================================================================
