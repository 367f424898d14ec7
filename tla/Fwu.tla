-------------------------------- MODULE Fwu --------------------------------
(***************************************************************************)
(* SERVICE_FWU (src/services/fwu_service.c): the PSA Firmware Update state *)
(* machine that stages an image in the wolfBoot update partition and arms  *)
(* the swap, composed with the boot that enforces the rollback floors      *)
(* (Rollback) and with wolfBoot's swap at a reset.                         *)
(*                                                                         *)
(* The service's context lives on its partition's stack: a fault restarts  *)
(* the partition and loses it, at any point of an operation, while the     *)
(* update partition and its trailer keep what was programmed.  Each client *)
(* call is one action: the partition serves one message at a time.  The    *)
(* FAILED detail and the query's answer are data no transition reads and   *)
(* are left out.                                                           *)
(***************************************************************************)
EXTENDS Rollback

CONSTANTS
    Clients,         \* client ids
    NoOwner,         \* owner 0: no transaction is open
    Chunks,          \* an image is staged in blocks 1..Chunks, in flash sectors
                     \* of their own; block 1 holds its header
    Size,            \* Size[i]: blocks of image i, as its header declares it
    Short,           \* images whose last block is no multiple of the backend's
                     \* write alignment
    Blank,           \* what an erased or half-programmed block holds
    Undeclared,      \* WT_FWU_VERSION_UNDECLARED
    Contiguous,      \* the port's backend takes blocks in order only (MIMXRT700)
    Timeout,         \* WT_FWU_OWNER_IDLE_TIMEOUT_TICKS
    TickMod          \* the tick counter wraps (2^32)

ASSUME FwuAssumption ==
    /\ Chunks \in Nat \ {0}
    /\ \A i \in Images : Size[i] \in 1..Chunks
    /\ Short \subseteq Images
    /\ Contiguous \in BOOLEAN
    /\ Timeout \in Nat \ {0}
    /\ TickMod \in Nat /\ TickMod > Timeout
    /\ NoOwner \notin Clients
    /\ Blank \notin Images
    /\ Undeclared \notin Nat

VARIABLES
    ses,             \* wt_fwu_service_ctx_t: st, high, cand, armed, owner, tick
    refusing,        \* version_floor is 0xFFFFFFFF: the gate had no valid floor
    vfloor,          \* version_floor otherwise
    trigger,         \* the trailer holds wolfBoot's update trigger
    slot,            \* the blocks of the update partition
    fresh,           \* blocks programmed since begin(): g_fwu_erased_sectors,
                     \* g_fwu_written_end
    tick,            \* monotonic_ticks of the scheduler
    idle,            \* history: ticks since the owner's clock was last set
    installed        \* history: this boot began with the granted reset of a
                     \* locked device, and wolfBoot swapped

areaVars == <<trigger, slot, fresh>>
fwuVars  == <<ses, refusing, vfloor, areaVars, tick, idle, installed>>
vars     == <<rbVars, fwuVars>>

Context(st, high, cand, armed, owner, tk) ==
    [st |-> st, high |-> high, cand |-> cand, armed |-> armed,
     owner |-> owner, tick |-> tk]

\* The context in another state, as most transitions leave it.
Moved(st) == Context(st, ses.high, ses.cand, ses.armed, ses.owner, ses.tick)

\* The context as wt_spm_fwu_entry, clean and reclaim leave it (an owner_tick
\* without an owner is never read); Down while no instance runs.
Ready == Context("READY", 0, 0, FALSE, NoOwner, 0)
Down  == Context("DOWN", 0, 0, FALSE, NoOwner, 0)

\* version < ctx->version_floor
Below(v) == refusing \/ v < vfloor

FwuInit ==
    /\ RbInit
    /\ ses = Down
    /\ refusing = FALSE
    /\ vfloor = 0
    /\ trigger = FALSE
    /\ slot = [k \in 1..Chunks |-> Blank]
    /\ fresh = {}
    /\ tick = 0
    /\ idle = 0
    /\ installed = FALSE

-----------------------------------------------------------------------------
(***************************************************************************)
(* The head and the tail of wt_fwu_service_call.  An owner that has been   *)
(* idle past the timeout loses the session to another client's call, of    *)
(* any kind, which first disarms a pending swap.                           *)
(***************************************************************************)
\* MUTANT: the subtraction the other way round.
ElapsedSwapped == (ses.tick + TickMod - tick) % TickMod

\* (uint32_t)(now_tick - owner_tick)
Elapsed == (tick + TickMod - ses.tick) % TickMod

\* wt_fwu_owner_expired
Expired(c) == ses.owner \notin {NoOwner, c} /\ Elapsed >= Timeout

\* wt_fwu_force_reset, when it succeeds: the context and the trigger that the
\* rest of the call finds.
Held(c)  == IF Expired(c) THEN Ready ELSE ses
Armed(c) == IF Expired(c) /\ ses.armed THEN FALSE ELSE trigger

\* The disarm of wt_fwu_force_reset fails, with the trailer erased or not: the
\* call ends there.
ReclaimFails(c, erased) ==
    /\ Expired(c) /\ ses.armed
    /\ trigger' = (trigger /\ ~erased)
    /\ UNCHANGED <<rbVars, ses, refusing, vfloor, slot, fresh, tick, idle, installed>>

\* MUTANT: a transaction that ends keeps its owner.
SettledOwned(c, s) ==
    Context(s.st, s.high, s.cand, s.armed, s.owner,
            IF s.st # "READY" /\ s.owner = c THEN tick ELSE s.tick)

\* Context s as the tail leaves it: no owner in READY, else the owner's clock is
\* set (every operation but QUERY and START).
Settled(c, s) ==
    IF s.st = "READY" THEN Ready
    ELSE Context(s.st, s.high, s.cand, s.armed, s.owner,
                 IF s.owner = c THEN tick ELSE s.tick)

\* The clock of the history follows the owner's.
Clocked(c, s) ==
    idle' = IF s.st = "READY" \/ s.owner = c THEN 0 ELSE idle

\* An operation of c other than QUERY and START gets past the owner check.
Admitted(c) == ses.st # "DOWN" /\ Held(c).owner \in {NoOwner, c}

\* It leaves context s, and the update partition but for the trigger.
Leaves(c, s) ==
    /\ ses' = Settled(c, s)
    /\ Clocked(c, s)
    /\ UNCHANGED <<rbVars, refusing, vfloor, fresh, tick, installed>>

-----------------------------------------------------------------------------
\* wt_fwu_query, and a START refused for its state or version or because begin
\* failed: nothing but the reclaim happens.
Query(c) ==
    /\ ses.st # "DOWN"
    /\ ses' = Held(c)
    /\ trigger' = Armed(c)
    /\ idle' = IF Expired(c) THEN 0 ELSE idle
    /\ UNCHANGED <<rbVars, refusing, vfloor, slot, fresh, tick, installed>>

\* wt_fwu_start; begin() of the ports erases nothing, it forgets which blocks
\* have been erased.
Start(c, v) ==
    /\ ses.st # "DOWN"
    /\ Held(c).st = "READY"
    /\ v # Undeclared => ~Below(v)
    /\ ses' = Context("WRITING", 0, v, FALSE, c, tick)
    /\ trigger' = Armed(c)
    /\ fresh' = {}
    /\ idle' = 0
    /\ UNCHANGED <<rbVars, refusing, vfloor, slot, tick, installed>>

\* An operation of the owner that is refused, unsupported or fails without a
\* transition: it still sets the clock.  Any client's while no session is open.
Idles(c) ==
    /\ Admitted(c)
    /\ Leaves(c, Held(c))
    /\ trigger' = Armed(c)
    /\ slot' = slot

\* The backend gets as far as the flash with block k: one port takes the blocks
\* in order only.
Reaches(k) == Contiguous => fresh = 1..(k - 1)

\* Block k of image i verifies after programming: a block already programmed
\* since begin() is not erased again.
Takes(k, i) == Reaches(k) /\ (k \in fresh => slot[k] = i)

\* Where block k of image i ends, in half blocks: what is missing of a short
\* last block is padded in flash, and not counted.
End(k, i) == IF i \in Short /\ k = Size[i] THEN 2 * k - 1 ELSE 2 * k

\* write_high after block k of image i
High(k, i) == IF End(k, i) > ses.high THEN End(k, i) ELSE ses.high

\* wt_fwu_write, of block k of image i
Write(c, k, i) ==
    /\ Admitted(c) /\ Held(c).st = "WRITING"
    /\ Takes(k, i)
    /\ ses' = Settled(c, Context("WRITING", High(k, i), ses.cand, ses.armed,
                                   ses.owner, ses.tick))
    /\ Clocked(c, ses)
    /\ slot' = [slot EXCEPT ![k] = i]
    /\ fresh' = fresh \cup {k}
    /\ UNCHANGED <<rbVars, refusing, vfloor, trigger, tick, installed>>

\* A block the backend refuses, or that fails to erase, program or verify.
WriteFails(c, k, blank) ==
    /\ Admitted(c) /\ Held(c).st = "WRITING"
    /\ blank => Reaches(k)
    /\ Leaves(c, Moved("FAILED"))
    /\ slot' = IF blank THEN [slot EXCEPT ![k] = Blank] ELSE slot
    /\ trigger' = trigger

\* wt_fwu_backend_verify: a header is there, and what was written reaches as far
\* as the header says the image does; one port also compares it with the end of
\* what it programmed, padding included.
Verifies ==
    /\ slot[1] # Blank
    /\ End(Size[slot[1]], slot[1]) <= ses.high
    /\ Contiguous => \E n \in 0..Chunks : fresh = 1..n /\ ses.high = 2 * n

\* The declared version, if any, is the header's, and it is not below the floor.
Bound ==
    /\ ses.cand \in {Undeclared, Version[slot[1]]}
    /\ ~Below(Version[slot[1]])

\* wt_fwu_finish
Finish(c) ==
    /\ Admitted(c) /\ Held(c).st = "WRITING"
    /\ ses.high # 0
    /\ Verifies /\ Bound
    /\ Leaves(c, Context("CANDIDATE", ses.high, Version[slot[1]], ses.armed,
                         ses.owner, ses.tick))
    /\ UNCHANGED <<trigger, slot>>

\* The candidate version is bound before the floor refuses it.
FinishFails(c) ==
    /\ Admitted(c) /\ Held(c).st = "WRITING"
    /\ ses.high # 0
    /\ ~(Verifies /\ Bound)
    /\ Leaves(c, Context("FAILED", ses.high,
                         IF Verifies /\ ses.cand = Undeclared
                         THEN Version[slot[1]] ELSE ses.cand,
                         ses.armed, ses.owner, ses.tick))
    /\ UNCHANGED <<trigger, slot>>

\* MUTANT: the floor is raised to the staged version already.
InstallRaising(c) ==
    /\ Admitted(c) /\ Held(c).st = "CANDIDATE"
    /\ ses' = Settled(c, Context("STAGED", ses.high, ses.cand, TRUE, ses.owner, ses.tick))
    /\ Clocked(c, ses)
    /\ floor' = Advance(ses.cand, floor)
    /\ trigger' = TRUE
    /\ UNCHANGED <<flashVars, phase, handoff, quarantined, verdict, floorValid, peak,
                   refusing, vfloor, slot, fresh, tick, installed>>

\* wt_fwu_install: the floor is checked again, then the trigger programmed. The
\* check never fails, and so never moves to FAILED: FINISH has refused what is
\* below the floor, which only rises at a boot.
Install(c) ==
    /\ Admitted(c) /\ Held(c).st = "CANDIDATE"
    /\ ~Below(ses.cand)
    /\ Leaves(c, Context("STAGED", ses.high, ses.cand, TRUE, ses.owner, ses.tick))
    /\ trigger' = TRUE
    /\ slot' = slot

\* arm() fails: its erase of the trailer did nothing or was all it did, or the
\* trigger is there but neither reported as programmed nor erased again.
InstallFails(c, left) ==
    /\ Admitted(c) /\ Held(c).st = "CANDIDATE"
    /\ Leaves(c, ses)
    /\ trigger' = left
    /\ slot' = slot

\* wt_fwu_cancel
Cancel(c) ==
    /\ Admitted(c) /\ Held(c).st \in {"WRITING", "CANDIDATE"}
    /\ Leaves(c, Moved("FAILED"))
    /\ UNCHANGED <<trigger, slot>>

\* wt_fwu_clean
Clean(c) ==
    /\ Admitted(c) /\ Held(c).st = "FAILED"
    /\ Leaves(c, Context("READY", 0, 0, FALSE, ses.owner, ses.tick))
    /\ trigger' = IF ses.armed THEN FALSE ELSE trigger
    /\ slot' = slot

\* wt_fwu_reject
Reject(c) ==
    /\ Admitted(c) /\ Held(c).st = "STAGED"
    /\ Leaves(c, Context("FAILED", ses.high, ses.cand, FALSE, ses.owner, ses.tick))
    /\ trigger' = IF ses.armed THEN FALSE ELSE trigger
    /\ slot' = slot

\* Its disarm fails, with the trailer erased or not.
RejectFails(c, erased) ==
    /\ Admitted(c) /\ Held(c).st = "STAGED" /\ ses.armed
    /\ Leaves(c, ses)
    /\ trigger' = (trigger /\ ~erased)
    /\ slot' = slot

-----------------------------------------------------------------------------
(***************************************************************************)
(* A reset: RAM is lost, and wolfBoot (external) swaps the two partitions  *)
(* when the trigger is armed and the update partition holds an image it    *)
(* can authenticate.  It may also decline, and then may clear the trigger. *)
(***************************************************************************)
\* The update partition holds the whole of image i.
Authentic(i) == \A k \in 1..Size[i] : slot[k] = i

Lost ==
    /\ ses' = Down
    /\ refusing' = FALSE
    /\ vfloor' = 0
    /\ fresh' = {}
    /\ tick' = 0
    /\ idle' = 0

Swap(i, lock, granted) ==
    /\ trigger /\ Authentic(i)
    /\ Reset(i, lock)
    /\ slot' = [k \in 1..Chunks |-> IF k <= Size[image] THEN image ELSE Blank]
    /\ trigger' = FALSE
    /\ installed' = (granted /\ ~Unlocked)
    /\ Lost

NoSwap(lock, clears) ==
    /\ Reset(image, lock)
    /\ slot' = slot
    /\ trigger' = (trigger /\ ~clears)
    /\ installed' = FALSE
    /\ Lost

\* Any reset but the one the service grants: power, watchdog, debugger, panic.
PowerCycle(lock) ==
    \/ \E i \in Images : Swap(i, lock, FALSE)
    \/ \E clears \in BOOLEAN : NoSwap(lock, clears)

\* wt_fwu_request_reboot and the gate's wt_platform_system_reset
Reboot(c, lock) ==
    /\ Admitted(c) /\ Held(c).st = "STAGED" /\ ses.armed
    /\ \/ \E i \in Images : Swap(i, lock, TRUE)
       \/ \E clears \in BOOLEAN : NoSwap(lock, clears)

(***************************************************************************)
(* The partition: its entry reads the floor once; a fault ends the         *)
(* instance, between two calls or inside one, after the gate has served    *)
(* its flash operation; recovery then runs the entry again.                *)
(***************************************************************************)
\* MUTANT: no valid floor is taken for no floor.
EntryOpen ==
    /\ phase = "running" /\ ses.st = "DOWN"
    /\ ses' = Ready
    /\ refusing' = FALSE
    /\ vfloor' = IF ~floorValid \/ Unlocked THEN 0 ELSE floor
    /\ UNCHANGED <<rbVars, areaVars, tick, idle, installed>>

\* wt_spm_fwu_entry, with wt_hsm_rollback_image_floor behind the gate
Entry ==
    /\ phase = "running" /\ ses.st = "DOWN"
    /\ ses' = Ready
    /\ refusing' = ~floorValid
    /\ vfloor' = IF ~floorValid \/ Unlocked THEN 0 ELSE floor
    /\ UNCHANGED <<rbVars, areaVars, tick, idle, installed>>

FaultDuring(k, i) ==
    /\ ses.st # "DOWN"
    /\ ses' = Down
    /\ \/ UNCHANGED <<trigger, slot>>
       \/ ses.st = "CANDIDATE" /\ trigger' = TRUE /\ slot' = slot
       \/ ses.armed /\ trigger' = FALSE /\ slot' = slot
       \/ ses.st = "WRITING" /\ trigger' = trigger
          /\ Reaches(k) /\ (i = Blank \/ Takes(k, i))
          /\ slot' = [slot EXCEPT ![k] = i]
    /\ idle' = 0
    /\ UNCHANGED <<rbVars, refusing, vfloor, fresh, tick, installed>>

\* wt_monitor_on_secure_timer; the history stops counting at TickMod
Tick ==
    /\ phase = "running"
    /\ tick' = (tick + 1) % TickMod
    /\ idle' = IF ses.owner = NoOwner \/ idle = TickMod THEN idle ELSE idle + 1
    /\ UNCHANGED <<rbVars, ses, refusing, vfloor, areaVars, installed>>

\* One message of client c.
Served(c) ==
    \/ \E erased \in BOOLEAN : ReclaimFails(c, erased) \/ RejectFails(c, erased)
    \/ Query(c)
    \/ \E v \in {Version[i] : i \in Images} \cup {Undeclared} : Start(c, v)
    \/ Idles(c)
    \/ \E k \in 1..Chunks, i \in Images : Write(c, k, i)
    \/ \E k \in 1..Chunks, blank \in BOOLEAN : WriteFails(c, k, blank)
    \/ Finish(c)
    \/ FinishFails(c)
    \/ Install(c)
    \/ \E left \in BOOLEAN : InstallFails(c, left)
    \/ Cancel(c)
    \/ Clean(c)
    \/ Reject(c)

FwuNext ==
    \/ \E c \in Clients : Served(c)
    \/ \E c \in Clients, lock \in BOOLEAN : Reboot(c, lock)
    \/ Entry
    \/ \E k \in 1..Chunks, i \in Images \cup {Blank} : FaultDuring(k, i)
    \/ Tick
    \/ \E lock \in BOOLEAN : PowerCycle(lock)
    \/ Boot /\ UNCHANGED fwuVars

FwuSpec == FwuInit /\ [][FwuNext]_vars

-----------------------------------------------------------------------------
Contexts ==
    [st : {"DOWN", "READY", "WRITING", "CANDIDATE", "STAGED", "FAILED"},
     high : 0..2 * Chunks, cand : Nat \cup {Undeclared}, armed : BOOLEAN,
     owner : Clients \cup {NoOwner}, tick : 0..TickMod - 1]

(***************************************************************************)
(* The context keeps its types; write_high never passes the partition's    *)
(* end (wt_fwu_write).                                                     *)
(***************************************************************************)
FwuTypeOK ==
    /\ RbTypeOK
    /\ ses \in Contexts
    /\ refusing \in BOOLEAN
    /\ vfloor \in Nat
    /\ trigger \in BOOLEAN
    /\ slot \in [1..Chunks -> Images \cup {Blank}]
    /\ fresh \subseteq 1..Chunks
    /\ tick \in 0..TickMod - 1
    /\ idle \in 0..TickMod
    /\ installed \in BOOLEAN

(***************************************************************************)
(* A transaction is open exactly while it has an owner, and the context    *)
(* remembers an armed trigger exactly in STAGED: the owner check of        *)
(* wt_fwu_service_call leaves no state of an open update that any client   *)
(* may drive, and no reclaim, clean or reject, however it fails, leaves a  *)
(* session that skips its disarm or owes one for nothing.                  *)
(***************************************************************************)
SessionShape ==
    ses.st # "DOWN" =>
      /\ ses.owner = NoOwner <=> ses.st = "READY"
      /\ ses.armed <=> ses.st = "STAGED"

(***************************************************************************)
(* What is STAGED has the version the context says, and on an              *)
(* enforcing boot is not below the floor in the store, which the service   *)
(* never reads: the floor served at its entry stays good for the whole     *)
(* boot, over restarts of the partition and failed stores (wt_fwu_install, *)
(* wt_hsm_rollback_image_floor).                                           *)
(***************************************************************************)
StagedBoots ==
    ses.st = "STAGED" =>
      /\ slot[1] # Blank /\ Version[slot[1]] = ses.cand
      /\ ~Unlocked => ses.cand >= Load.image

(***************************************************************************)
(* The reset the service grants on an enforcing boot never brings up an    *)
(* image that boot then refuses for its version, which would quarantine    *)
(* every guest until another update (wt_fwu_request_reboot against         *)
(* wt_hsm_rollback_enforce).                                               *)
(***************************************************************************)
InstallBoots ==
    installed /\ handoff /\ phase \in {"enforced", "bootstrapped", "running"}
      => verdict # "image"

(***************************************************************************)
(* Until its owner has been idle for the timeout, no call of another       *)
(* client changes the open update or the update partition, however the     *)
(* tick counter wraps (wt_fwu_owner_expired, the owner check).             *)
(***************************************************************************)
Undisturbed ==
    [][ \A c \in Clients :
          ses.owner \notin {NoOwner, c} /\ idle < Timeout /\ Served(c)
            => UNCHANGED <<ses, areaVars>> ]_vars

(***************************************************************************)
(* No block of a candidate is left over from before its session: FINISH    *)
(* accepts only what this session programmed (wt_fwu_backend_verify).      *)
(***************************************************************************)
CandidateFresh ==
    ses.st \in {"CANDIDATE", "STAGED"} => 1..Size[slot[1]] \subseteq fresh

(***************************************************************************)
(* An image staged completely, by writes that all succeeded, passes        *)
(* FINISH's verification, whatever its length: tests/host/fwu_service      *)
(* main.c:341-344 stages 17 bytes over an alignment of 16 and expects      *)
(* "candidate excludes physical padding".                                  *)
(***************************************************************************)
CompleteVerifies ==
    \A i \in Images :
      ses.st = "WRITING" /\ fresh = 1..Size[i] /\ Authentic(i)
        => Verifies

(***************************************************************************)
(* What the service stages is what the next boot accepts: only blocks of   *)
(* the session, of a version the stored floor admits, through faults of    *)
(* the partition and of the flash; and what then runs is recorded in the   *)
(* store (wt_fwu_finish, wt_fwu_install, wt_hsm_rollback_enforce).         *)
(***************************************************************************)
UpdateBoots ==
    /\ FwuTypeOK
    /\ StagedBoots
    /\ CandidateFresh
    /\ InstallBoots
    /\ LaunchRecorded

(***************************************************************************)
(* The session's state, owner and trigger agree, and what it has staged    *)
(* completely can be finished (wt_fwu_service_call, wt_fwu_finish).        *)
(***************************************************************************)
SessionOK == SessionShape /\ CompleteVerifies
=============================================================================
