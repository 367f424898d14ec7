----------------------------- MODULE Isolation -----------------------------
(***************************************************************************)
(* From a manifest to the hardware that enforces it: the SPM's boot checks *)
(* (spm.c, partitions.c, ffm_domain.c, the wt_spm_sched_* functions of     *)
(* spm_gate_core.c), the Secure MPU and the guest-RAM fabric as a dispatch *)
(* programs them, the interrupt lines, and what a restart wipes.           *)
(*                                                                         *)
(* A Secure Partition writes all it can each time it runs.  A programmer   *)
(* error of a partition (an EOI of a signal that is not asserted, a clear  *)
(* without a doorbell) lands it in the fault path and is a SpFault.        *)
(*                                                                         *)
(* Interrupts of partitions exist in the conformance builds only: the      *)
(* handler (wt_spm_conf_irq) is compiled with WT_CONFORMANCE and no        *)
(* production manifest gives a partition a line.  The tables are those of  *)
(* a production build, without the windows a conformance build adds.       *)
(***************************************************************************)
EXTENDS Generator

CONSTANTS
    Manifests,          \* the manifests a device may be built with
    Supported,          \* the feature mask wt_monitor_init passes
    Platform,           \* g_profile_capabilities
    PortCaps,           \* config->port.provided_capabilities
    Guests,             \* guest ids
    Vector,             \* [g |-> [base, pc]]: vector_table and vector[1]
    WindowCount,        \* config->memory_window_count
    Usart,              \* the pinned console device
    TextEnd, FlashEnd,  \* _e_secure_text, WT_FLASH_S_BASE + WT_FLASH_S_SIZE
    SpmRam,             \* wt_platform_spm_private_regions
    Handoff, EStack,    \* boot-handoff scratch and main stack top
    ExtentBase, ExtentEnd,  \* the guest RAM extent
    Block, WordBlocks,  \* GTZC block, blocks of one SECCFGR word
    SauDyn,             \* dynamic SAU regions
    DRegions,           \* Secure MPU regions of the silicon
    StartIds            \* the order of wt_ffm_boot_start_sched

VARIABLES
    manifest, port,
    stage,          \* "reset", "validated", "bound", "started", "running", or why it stopped
    slots,          \* g_spm_sp: a sequence of slots
    cpu,            \* who the processor is set up for: "spm", or an id
    mpu,            \* the enabled Secure MPU regions that grant unprivileged access
    open,           \* the addresses of the guest extent open to Non-secure
    lines,          \* [irq |-> [en, pend, ns]]
    asserted,       \* [partition |-> its asserted signals]
    queued,         \* the services (by sid) whose request queue is not empty
    update,         \* an asserted_signals word loaded by thread code, not yet stored
    opened,         \* the lines enabled by psa_irq_enable since the last restart
    torn,           \* history: the lines taken inside such an update of their signals
    faulted,        \* the partitions with fault_pending set
    wrote, held,    \* [partition |-> addresses this instance / an earlier one wrote]
    recovering      \* [id, step] of wt_sp_recovery_run, or None

vars == <<manifest, port, stage, slots, cpu, mpu, open, lines, asserted, queued, update,
          opened, torn, faulted, wrote, held, recovering>>

None == [id |-> Invalid, step |-> "none"]
NoUpdate == [id |-> Invalid, value |-> {}]
Spm == -2           \* cpu: the SPM's own domain
GuestOf(g) == -10 - g

Span(r) == r.base .. r.base + r.size - 1

Ids == {p.domain : p \in ToSet(manifest.partitions)}
PartitionOf(id) == CHOOSE p \in ToSet(manifest.partitions) : p.domain = id

(***************************************************************************)
(* Guests: wt_partitions_bind_manifest and wt_partition_reset_runtime.     *)
(***************************************************************************)
PortBindingOk(d) ==
    /\ "nsdomain" \in PortCaps
    /\ (\E r \in ToSet(d.mem) : "W" \in r.attr) => "tzfilter" \in PortCaps

ProfileOk ==
    /\ "memory" \in Platform.capabilities => PortCaps \cap {"nsdomain", "tzfilter"} # {}
    /\ "domains" \in Platform.capabilities => "tzfilter" \in PortCaps

Windows(d) == SelectSeq(d.mem, LAMBDA r : "D" \notin r.attr)

(* Only the base is on a block boundary. *)
WholeBlocksBase(r) == r.base % Block = 0

WholeBlocks(r) == r.base % Block = 0 /\ End(r) % Block = 0

GuestDomain(m, g) == DomainOf(m, g + 1)

(* The bind is written once per port; the two differ in the GTZC blocks. *)
BindGuestRt(m, g) ==
    /\ HasDomain(m, g + 1)
    /\ LET d == GuestDomain(m, g) IN
       /\ d.class = "ns" /\ d.sec = "ns" /\ d.priv /\ d.restart.action = "domain"
       /\ PortBindingOk(d)
       /\ Len(d.mem) <= MaxRegions - 1
       /\ \A r \in ToSet(d.mem) :
             "D" \in r.attr => r.base = Usart.base /\ r.size = Usart.size
       /\ Len(Windows(d)) = WindowCount
       /\ d.entry # 0
       /\ \A q \in ToSet(d.irqs) : q.irq < VectorIrqs
       /\ \E r \in ToSet(d.mem) : "X" \in r.attr
       /\ d.stack.base <= MaxAddr - d.stack.size

BindGuestH5(m, g) ==
    /\ BindGuestRt(m, g)
    /\ \A r \in ToSet(Windows(GuestDomain(m, g))) : "W" \in r.attr => WholeBlocks(r)

BindGuestOk(m, g) == IF port = "h5" THEN BindGuestH5(m, g) ELSE BindGuestRt(m, g)

(* The reset PC is in the first window counted from the vector table, and  *)
(* in the executable resource the manifest binds.                          *)
ResetHandlerOk(d, g) ==
    Vector[g].pc \in Vector[g].base .. Vector[g].base + Windows(d)[1].size - 1

GuestReady(m, g) ==
    LET d == GuestDomain(m, g)
        exec == SelectSeq(d.mem, LAMBDA r : "X" \in r.attr)[1]
    IN  ResetHandlerOk(d, g) /\ Vector[g].pc \in Span(exec)

(***************************************************************************)
(* Secure Partitions: wt_spm_sched_add_common and wt_spm_sched_validate.   *)
(***************************************************************************)
Resolves(m, id) ==
    /\ HasDomain(m, id)
    /\ DomainOf(m, id).class = "sp" /\ DomainOf(m, id).sec = "s"
    /\ Len(DomainOf(m, id).mem) <= MaxRegions

PrivateWritable(r) == "W" \in r.attr /\ r.attr \cap {"D", "S"} = {}

(* The last private writable resource that holds the declared stack. *)
StackIndexes(d) ==
    {i \in DOMAIN d.mem :
        /\ PrivateWritable(d.mem[i])
        /\ d.stack.size # 0 =>
              d.mem[i].base <= d.stack.base /\ End(d.stack) <= End(d.mem[i])}

StackIndex(d) == CHOOSE i \in StackIndexes(d) : \A j \in StackIndexes(d) : j <= i

(* No port lets a partition own a peripheral: a device resource and an     *)
(* ordinary one over MMIO are both refused.                                *)
PeriphOk(d) == \A r \in ToSet(d.mem) : "D" \notin r.attr /\ ~ RangeIsMmio(r)

ImageRegions ==
    << [base |-> 0, size |-> TextEnd, attr |-> {"R", "X"}],
       [base |-> TextEnd, size |-> FlashEnd - TextEnd, attr |-> {"R"}] >>

Table(d) ==
    LET data == SelectSeq(d.mem, LAMBDA r : "X" \notin r.attr)
        room == MaxRegions - Len(ImageRegions)
        all  == ImageRegions \o SubSeq(data, 1, IF Len(data) < room THEN Len(data) ELSE room)
    IN  [i \in DOMAIN all |-> [base |-> all[i].base, size |-> all[i].size,
                               attr |-> all[i].attr]]

(* The private non-stack RESTART_CLEAR bands; a slot has room for one. *)
ClearBands(d) ==
    {i \in DOMAIN d.mem : i # StackIndex(d) /\ PrivateWritable(d.mem[i]) /\ "C" \in d.mem[i].attr}

ClaimOk(p) == \A q \in ToSet(p.irqs) : q.irq < VectorIrqs

(* Whether the controller then shows the lines masked and Secure. *)
ReadBack(p) == IF p.irqs = <<>> THEN {TRUE} ELSE BOOLEAN

SchedAddOk(m, id) ==
    /\ Len(slots) < MaxPartitions
    /\ Resolves(m, id)
    /\ StackIndexes(DomainOf(m, id)) # {}
    /\ PeriphOk(DomainOf(m, id))
    /\ Cardinality(ClearBands(DomainOf(m, id))) <= 1
    /\ id \in Ids
    /\ ClaimOk(PartitionOf(id))

NewSlot(d) ==
    [id |-> d.id, table |-> Table(d),
     scrub |-> Span(d.mem[StackIndex(d)]),
     scrub2 |-> UNION {Span(d.mem[i]) : i \in ClearBands(d)}]

RegionsMeet(a, b) == RangeOk(a) /\ RangeOk(b) /\ Overlap(a, b)

(* A read-only region may reach the range. *)
ExcludesWritable(table, range) ==
    \A r \in ToSet(table) : "W" \in r.attr => ~ RegionsMeet(r, range)

Excludes(table, range) ==
    \A r \in ToSet(table) :
        /\ r.size # 0 => r.base <= MaxAddr - r.size
        /\ ~ RegionsMeet(r, range)

TablesIsolated(first, second) ==
    \A a \in ToSet(first), b \in ToSet(second) :
        "W" \in a.attr \cup b.attr => ~ RegionsMeet(a, b)

SchedValidateOk ==
    /\ SpmRam # {}
    /\ \A i \in DOMAIN slots :
          /\ \A r \in SpmRam : Excludes(slots[i].table, r)
          /\ \A j \in i + 1 .. Len(slots) : TablesIsolated(slots[i].table, slots[j].table)

(* wt_irq_claim on every line of a partition. *)
Claimed(p) ==
    [i \in DOMAIN lines |->
        IF \E q \in ToSet(p.irqs) : q.irq = i
          THEN [en |-> FALSE, pend |-> FALSE, ns |-> FALSE] ELSE lines[i]]

(***************************************************************************)
(* What the hardware lets through.                                         *)
(***************************************************************************)
RoundDown(a) == (a \div Granule) * Granule

(* wt_program_sp_domain_regions: the unprivileged view of a table. *)
Program(table) ==
    {[lo |-> RoundDown(r.base), hi |-> RoundDown(End(r) - 1) + Granule - 1,
      w |-> "W" \in r.attr, x |-> "X" \in r.attr] :
         r \in {table[i] : i \in {j \in DOMAIN table : table[j].size # 0}}}

SpmRamClear(table) ==
    \A r \in ToSet(table) : r.size # 0 => r.base >= EStack \/ End(r) <= Handoff

(* An access that hits two regions faults, as does one that hits none. *)
Reach(regions) ==
    {a \in 0 .. MaxAddr : Cardinality({r \in regions : a \in r.lo .. r.hi}) = 1}

Writes(regions) ==
    {a \in Reach(regions) : \E r \in regions : a \in r.lo .. r.hi /\ r.w}

(* The need for write access is not looked at. *)
DomainContainsAny(table, addr, len, write) ==
    /\ len # 0 /\ addr <= MaxAddr - len
    /\ \E r \in ToSet(table) :
          /\ r.size # 0 /\ "R" \in r.attr
          /\ r.base <= addr /\ addr + len <= End(r)

DomainContains(table, addr, len, write) ==
    /\ len # 0 /\ addr <= MaxAddr - len
    /\ \E r \in ToSet(table) :
          /\ r.size # 0 /\ r.base <= MaxAddr - r.size
          /\ "R" \in r.attr
          /\ write => "W" \in r.attr
          /\ r.base <= addr /\ addr + len <= End(r)

(* The SECCFGR words wt_gtzc_close_all sets: whole words of the extent. *)
GtzcClosed ==
    LET unit == Block * WordBlocks IN
    ExtentBase .. ExtentBase + ((ExtentEnd - ExtentBase) \div unit) * unit - 1

GtzcBlocks(r) ==
    ((r.base - ExtentBase) \div Block) .. ((End(r) - ExtentBase + Block - 1) \div Block) - 1

GtzcOpened(windows) ==
    UNION {ExtentBase + b * Block .. ExtentBase + b * Block + Block - 1 :
              b \in UNION {GtzcBlocks(r) : r \in ToSet(windows)}}

SauOpened(windows) ==
    UNION {Span(windows[i]) : i \in {j \in DOMAIN windows : j <= SauDyn}}

(* wt_fabric_apply_windows. *)
Openable(windows) ==
    SelectSeq(windows, LAMBDA r :
        "W" \in r.attr /\ r.size > 0 /\ r.base >= ExtentBase /\ End(r) <= ExtentEnd)

ApplyWindows(windows) ==
    IF port = "h5" THEN (open \ GtzcClosed) \cup GtzcOpened(Openable(windows))
                   ELSE SauOpened(Openable(windows))

(***************************************************************************)
(* The behaviours: boot.                                                   *)
(***************************************************************************)
Irqs == UNION {{q.irq : q \in ToSet(p.irqs)} : p \in ToSet(manifest.partitions)}

(* A boot loader may leave a line enabled, pending or Non-secure, and the  *)
(* guest RAM open.                                                         *)
Init ==
    /\ manifest \in Manifests /\ port \in {"h5", "rt"}
    /\ stage = "reset" /\ slots = <<>> /\ cpu = Spm /\ mpu = {}
    /\ open = ExtentBase .. ExtentEnd - 1
    /\ \E left \in BOOLEAN :
          lines = [i \in Irqs |-> [en |-> left, pend |-> left, ns |-> left]]
    /\ asserted = [id \in Ids |-> {}]
    /\ queued = {} /\ update = NoUpdate
    /\ opened = {} /\ torn = {} /\ faulted = {}
    /\ wrote = [id \in Ids |-> {}] /\ held = [id \in Ids |-> {}]
    /\ recovering = None

hardware == <<cpu, mpu, open>>
requests == <<queued, update>>
signals == <<lines, asserted, requests, opened, torn>>
memory == <<wrote, held, recovering, faulted>>

(* wt_spm_init. *)
Validate ==
    /\ stage = "reset"
    /\ stage' = IF ManifestOk(manifest, Supported, Platform) THEN "validated" ELSE "refused"
    /\ UNCHANGED <<manifest, port, slots, hardware, signals, memory>>

(* wt_partitions_bind_manifest, the profile check and the reset contexts. *)
Bind ==
    /\ stage = "validated"
    /\ stage' = IF /\ \A g \in Guests : BindGuestOk(manifest, g)
                   /\ ProfileOk
                   /\ \A g \in Guests : GuestReady(manifest, g)
                THEN "bound" ELSE "panic"
    /\ UNCHANGED <<manifest, port, slots, hardware, signals, memory>>

ToStart == SelectSeq(StartIds, LAMBDA id : id \in Ids)

(* wt_spm_sched_add for the next partition; a failure panics in boot.c. *)
StartPartition ==
    /\ stage = "bound" /\ Len(slots) < Len(ToStart)
    /\ LET id == ToStart[Len(slots) + 1] IN
       \E shown \in ReadBack(PartitionOf(id)) :
       IF SchedAddOk(manifest, id) /\ shown
         THEN /\ slots' = Append(slots, NewSlot(DomainOf(manifest, id)))
              /\ lines' = Claimed(PartitionOf(id))
              /\ UNCHANGED stage
         ELSE stage' = "panic" /\ UNCHANGED <<slots, lines>>
    /\ UNCHANGED <<manifest, port, hardware, asserted, requests, opened, torn, memory>>

SchedValidate ==
    /\ stage = "bound" /\ Len(slots) = Len(ToStart)
    /\ stage' = IF SchedValidateOk THEN "running" ELSE "panic"
    /\ UNCHANGED <<manifest, port, slots, hardware, signals, memory>>

(***************************************************************************)
(* Running.                                                                *)
(***************************************************************************)
(* The SPM's own thread, between two runs of partitions or guests. *)
Idle == stage = "running" /\ cpu = Spm /\ recovering = None /\ update = NoUpdate

(* The scheduler enters a partition's thread domain; others may go on while *)
(* one waits for its recovery.                                             *)
DispatchSp(i) ==
    /\ Idle /\ slots[i].id \notin faulted
    /\ LET s == slots[i] IN
       IF SpmRamClear(s.table) /\ Len(s.table) < DRegions
         THEN /\ mpu' = Program(s.table)
              /\ cpu' = s.id
              /\ wrote' = [wrote EXCEPT ![s.id] = @ \cup Writes(Program(s.table))]
              /\ UNCHANGED stage
         ELSE stage' = "panic" /\ UNCHANGED <<mpu, cpu, wrote>>
    /\ UNCHANGED <<manifest, port, slots, open, signals, held, recovering, faulted>>

(* wt_apply_partition. *)
DispatchGuest(g) ==
    /\ Idle
    /\ open' = ApplyWindows(Windows(GuestDomain(manifest, g)))
    /\ cpu' = GuestOf(g)
    /\ UNCHANGED <<manifest, port, stage, slots, mpu, signals, memory>>

(* Back in the SPM, under its own whitelist. *)
Return ==
    /\ stage = "running" /\ cpu # Spm
    /\ cpu' = Spm /\ mpu' = {}
    /\ UNCHANGED <<manifest, port, stage, slots, open, signals, memory>>

SpRuns(id) == stage = "running" /\ cpu = id

(* wt_arch_secure_irq_enable: Secure, not pending, then unmasked. *)
Enabled(irq) == [lines EXCEPT ![irq] = [en |-> TRUE, pend |-> FALSE, ns |-> FALSE]]

IrqEnable(id) ==
    /\ SpRuns(id)
    /\ \E q \in ToSet(PartitionOf(id).irqs) :
          /\ lines' = Enabled(q.irq)
          /\ opened' = opened \cup {q.irq} /\ torn' = torn \ {q.irq}
    /\ UNCHANGED <<manifest, port, stage, slots, hardware, asserted, requests, memory>>

Eoi(id) ==
    /\ SpRuns(id)
    /\ \E q \in ToSet(PartitionOf(id).irqs) :
          /\ q.signal \subseteq asserted[id]
          /\ asserted' = [asserted EXCEPT ![id] = @ \ q.signal]
          /\ lines' = Enabled(q.irq) /\ torn' = torn \ {q.irq}
    /\ UNCHANGED <<manifest, port, stage, slots, hardware, requests, opened, memory>>

Doorbell == 3       \* the bit of PSA_DOORBELL

Notify(id) ==
    /\ stage = "running" /\ cpu \in Ids
    /\ asserted' = [asserted EXCEPT ![id] = @ \cup {Doorbell}]
    /\ UNCHANGED <<manifest, port, stage, slots, hardware, lines, requests, opened, torn, memory>>

(* Every signal is cleared, not the doorbell alone. *)
ClearAll(id) ==
    /\ SpRuns(id) /\ Doorbell \in asserted[id]
    /\ asserted' = [asserted EXCEPT ![id] = {}]
    /\ UNCHANGED <<manifest, port, stage, slots, hardware, lines, requests, opened, torn, memory>>

Clear(id) ==
    /\ SpRuns(id) /\ Doorbell \in asserted[id]
    /\ asserted' = [asserted EXCEPT ![id] = @ \ {Doorbell}]
    /\ UNCHANGED <<manifest, port, stage, slots, hardware, lines, requests, opened, torn, memory>>

(***************************************************************************)
(* The signals of services.  Behind the gate, in the SVC handler, the word *)
(* is updated undisturbed; the SPM's own thread loads, changes and stores  *)
(* it with interrupts enabled.                                             *)
(***************************************************************************)
(* wt_ffm_update_service_signal, with the queues q. *)
Signalled(p, s, q) ==
    IF s.sid \in q THEN asserted[p.domain] \cup s.signal ELSE asserted[p.domain] \ s.signal

Gated(p, s, q) ==
    /\ queued' = q /\ asserted' = [asserted EXCEPT ![p.domain] = Signalled(p, s, q)]
    /\ UNCHANGED <<manifest, port, stage, slots, hardware, lines, update, opened, torn, memory>>

Load(p, s, q) ==
    /\ queued' = q /\ update' = [id |-> p.domain, value |-> Signalled(p, s, q)]
    /\ UNCHANGED <<manifest, port, stage, slots, hardware, lines, asserted, opened, torn, memory>>

Store ==
    /\ update # NoUpdate
    /\ asserted' = [asserted EXCEPT ![update.id] = update.value]
    /\ update' = NoUpdate
    /\ UNCHANGED <<manifest, port, stage, slots, hardware, lines, queued, opened, torn, memory>>

(* A message leaves the queue of a service of p, perhaps as the last one:  *)
(* the service, and the queues that are then not empty.                    *)
Dequeues(p) ==
    {d \in ToSet(p.services) \X SUBSET queued :
        d[1].sid \in queued /\ d[2] \in {queued, queued \ {d[1].sid}}}

(* psa_call, psa_connect and psa_close of a partition, its reply to a      *)
(* request whose client closed the connection, and its psa_get.            *)
SpRequest(id) ==
    /\ SpRuns(id)
    /\ \E p \in ToSet(manifest.partitions) : \E s \in ToSet(p.services) :
          Gated(p, s, queued \cup {s.sid})

Get(id) ==
    /\ SpRuns(id)
    /\ \E d \in Dequeues(PartitionOf(id)) : Gated(PartitionOf(id), d[1], d[2])

(* The same calls of a guest run on the SPM's thread; so does the removal  *)
(* of a message that a refused dispatch left in its queue.                 *)
NsRequest(p) == Idle /\ \E s \in ToSet(p.services) : Load(p, s, queued \cup {s.sid})

NsWithdraw(p) == Idle /\ \E d \in Dequeues(p) : Load(p, d[1], d[2])

(* A guest's fault handler withdraws what the guest had asked for, and is   *)
(* not interrupted.                                                        *)
GuestGone(p) ==
    /\ stage = "running" /\ \E g \in Guests : cpu = GuestOf(g)
    /\ \E d \in Dequeues(p) : Gated(p, d[1], d[2])

(* A device raises its line. *)
Raise(i) ==
    /\ stage = "running" /\ lines[i].en /\ ~ lines[i].pend
    /\ lines' = [lines EXCEPT ![i].pend = TRUE]
    /\ UNCHANGED <<manifest, port, stage, slots, hardware, asserted, requests, opened, torn, memory>>

(* wt_spm_conf_irq, wherever thread code runs: a partition, the SPM's own  *)
(* thread, or a recovery on it.                                            *)
Owners(i) == {p \in ToSet(manifest.partitions) : \E q \in ToSet(p.irqs) : q.irq = i}

TakeIrq(i) ==
    /\ stage = "running" /\ lines[i].en /\ lines[i].pend /\ ~ lines[i].ns
    /\ lines' = [lines EXCEPT ![i].en = FALSE, ![i].pend = FALSE]
    /\ LET p == CHOOSE p \in Owners(i) : TRUE
           q == CHOOSE q \in ToSet(p.irqs) : q.irq = i
       IN  /\ asserted' = [asserted EXCEPT ![p.domain] = @ \cup q.signal]
           /\ torn' = IF update.id = p.domain THEN torn \cup {i} ELSE torn
    /\ UNCHANGED <<manifest, port, stage, slots, hardware, requests, opened, memory>>

(***************************************************************************)
(* A fault, and wt_sp_recovery_run on the bootstrap thread.                *)
(***************************************************************************)
SpFault(id) ==
    /\ SpRuns(id)
    /\ cpu' = Spm /\ mpu' = {}
    /\ faulted' = faulted \cup {id}
    /\ UNCHANGED <<manifest, port, stage, slots, open, signals, wrote, held, recovering>>

(* wt_spm_recover_faulted takes up the next pending fault. *)
RecoverFaulted(id) ==
    /\ Idle /\ id \in faulted
    /\ faulted' = faulted \ {id}
    /\ recovering' = [id |-> id, step |-> "messages"]
    /\ UNCHANGED <<manifest, port, stage, slots, hardware, signals, wrote, held>>

Recovering(step) == stage = "running" /\ recovering.step = step /\ update = NoUpdate

(* wt_ffm_fail_client_connections: what the dead instance asked of others. *)
FaultWithdraw(p) ==
    /\ Recovering("messages") /\ p.domain # recovering.id
    /\ \E d \in Dequeues(p) : Load(p, d[1], d[2])

(* wt_ffm_partition_restarted forgets the requests and the signals of the  *)
(* dead instance.                                                          *)
FaultMessages ==
    /\ Recovering("messages")
    /\ queued' = queued \ {s.sid : s \in ToSet(PartitionOf(recovering.id).services)}
    /\ asserted' = [asserted EXCEPT ![recovering.id] = {}]
    /\ recovering' = [recovering EXCEPT !.step = "mask"]
    /\ UNCHANGED <<manifest, port, stage, slots, hardware, lines, update, opened, torn,
                   wrote, held, faulted>>

OwnLines(id) == {q.irq : q \in ToSet(DomainOf(manifest, id).irqs)}

(* wt_arch_secure_irq_disable on every line of the domain. *)
FaultMask ==
    /\ Recovering("mask")
    /\ lines' = [i \in DOMAIN lines |->
                    IF i \in OwnLines(recovering.id)
                      THEN [lines[i] EXCEPT !.en = FALSE, !.pend = FALSE] ELSE lines[i]]
    /\ recovering' = [recovering EXCEPT !.step = "decide"]
    /\ UNCHANGED <<manifest, port, stage, slots, hardware, asserted, requests, opened, torn,
                   wrote, held, faulted>>

SlotOf(id) == CHOOSE s \in ToSet(slots) : s.id = id

(* The data band is not reset. *)
ScrubbedStack(s) == s.scrub

Scrubbed(s) == s.scrub \cup s.scrub2

(* The policy forbids a restart, or its budget (counted in module SpmSched) *)
(* is spent, and the platform stops.                                       *)
FaultEscalate ==
    /\ Recovering("decide")
    /\ stage' = "halted"
    /\ UNCHANGED <<manifest, port, slots, hardware, signals, memory>>

FaultScrub ==
    /\ Recovering("decide")
    /\ LET id == recovering.id IN
       /\ DomainOf(manifest, id).restart.action = "domain"
       /\ held' = [held EXCEPT ![id] = (@ \cup wrote[id]) \ Scrubbed(SlotOf(id))]
       /\ wrote' = [wrote EXCEPT ![id] = {}]
    /\ recovering' = [recovering EXCEPT !.step = "restart"]
    /\ UNCHANGED <<manifest, port, stage, slots, hardware, signals, faulted>>

(* wt_spm_fault_restart; a line that cannot be claimed escalates. *)
FaultRestart ==
    /\ Recovering("restart")
    /\ LET p == PartitionOf(recovering.id) IN
       \E shown \in ReadBack(p) :
       IF ClaimOk(p) /\ shown
         THEN /\ lines' = Claimed(p)
              /\ opened' = opened \ OwnLines(p.domain)
              /\ torn' = torn \ OwnLines(p.domain)
              /\ recovering' = None
              /\ UNCHANGED stage
         ELSE stage' = "halted" /\ UNCHANGED <<lines, opened, torn, recovering>>
    /\ UNCHANGED <<manifest, port, slots, hardware, asserted, requests, wrote, held, faulted>>

Stopped == stage \in {"refused", "panic", "halted"} /\ UNCHANGED vars

Next ==
    \/ Validate \/ Bind \/ StartPartition \/ SchedValidate
    \/ \E i \in DOMAIN slots : DispatchSp(i)
    \/ \E g \in Guests : DispatchGuest(g)
    \/ Return
    \/ \E id \in Ids : IrqEnable(id) \/ Eoi(id) \/ Notify(id) \/ Clear(id) \/ SpFault(id)
                       \/ SpRequest(id) \/ Get(id) \/ RecoverFaulted(id)
    \/ \E p \in ToSet(manifest.partitions) : NsRequest(p) \/ NsWithdraw(p) \/ GuestGone(p)
                                             \/ FaultWithdraw(p)
    \/ Store
    \/ \E i \in Irqs : Raise(i) \/ TakeIrq(i)
    \/ FaultMessages \/ FaultMask \/ FaultEscalate \/ FaultScrub \/ FaultRestart
    \/ Stopped

Spec == Init /\ [][Next]_vars

(***************************************************************************)
(* Properties.                                                             *)
(***************************************************************************)
Owned(d) ==
    UNION {Span(r) : r \in {x \in ToSet(d.mem) : "W" \in x.attr /\ "S" \notin x.attr}}

OthersOwn(id) == UNION {Owned(d) : d \in {x \in ToSet(manifest.domains) : x.id # id}}

SpmPrivate == UNION {Span(r) : r \in SpmRam} \cup Handoff .. EStack - 1

(* While a Secure Partition runs, the MPU regions programmed for it let it *)
(* reach no byte another domain owns for writing and no byte of the SPM's  *)
(* RAM, and write no byte another partition can even read                  *)
(* (wt_spm_sched_validate, wt_program_sp_domain_regions).                  *)
SpConfined ==
    cpu \in Ids =>
        /\ Reach(mpu) \cap (OthersOwn(cpu) \cup SpmPrivate) = {}
        /\ LET writes == Writes(mpu) IN
           \A s \in ToSet(slots) : s.id # cpu => writes \cap Reach(Program(s.table)) = {}

(* While a guest runs, the fabric is open to Non-secure on no byte of the  *)
(* guest RAM extent that another domain owns, whoever ran before           *)
(* (wt_fabric_apply_windows over GTZC blocks or SAU regions).              *)
GuestConfined ==
    \A g \in Guests : cpu = GuestOf(g) => open \cap OthersOwn(g + 1) = {}

(* What the table of a partition maps twice: a data resource its manifest   *)
(* places inside the Secure image.  No check refuses it, and the hardware  *)
(* faults on it.                                                           *)
MappedTwice(d) ==
    UNION {Span(r) : r \in {x \in ToSet(d.mem) : "X" \notin x.attr}} \cap 0 .. FlashEnd - 1

(* A buffer the gate accepts from a partition, because its composed table  *)
(* contains it, is one the partition itself could reach with that access   *)
(* under the MPU, except for bytes the manifest has mapped twice           *)
(* (wt_secure_domain_contains against wt_program_sp_domain_regions).       *)
GateSeesMpu ==
    cpu \in Ids =>
        LET table == SlotOf(cpu).table
            twice == MappedTwice(DomainOf(manifest, cpu))
            reads == Reach(mpu) \cup twice
            writes == Writes(mpu)
        IN  \A a \in 0 .. MaxAddr, len \in 1 .. Granule + 1 :
                /\ DomainContains(table, a, len, FALSE) => a .. a + len - 1 \subseteq reads
                /\ DomainContains(table, a, len, TRUE) => a .. a + len - 1 \subseteq writes

MustClear(d) ==
    Span(d.stack) \cup
    UNION {Span(r) : r \in {x \in ToSet(d.mem) : "C" \in x.attr /\ x.attr \cap {"D", "S"} = {}}}

(* Once its recovery is over, nothing a partition's earlier instance wrote *)
(* is left on its stack or in a band its domain declares RESTART_CLEAR     *)
(* (wt_spm_fault_scrub over the bands wt_spm_sched_add recorded).          *)
FreshRestart ==
    stage = "running" /\ recovering = None =>
        \A id \in Ids : held[id] \cap MustClear(DomainOf(manifest, id)) = {}

DependsOn ==
    {<<i, j>> \in (DOMAIN manifest.partitions) \X (DOMAIN manifest.partitions) :
        \E s \in ToSet(manifest.partitions[j].services) :
            s.sid \in ToSet(manifest.partitions[i].deps)}

(* The partitions reachable from i along dependencies. *)
Below(i) ==
    LET reach[n \in 0 .. Len(manifest.partitions)] ==
            IF n = 0 THEN {e[2] : e \in {x \in DependsOn : x[1] = i}}
            ELSE reach[n - 1] \cup {e[2] : e \in {x \in DependsOn : x[1] \in reach[n - 1]}}
    IN  reach[Len(manifest.partitions)]

Symbols ==
    [i \in DOMAIN manifest.partitions |-> manifest.partitions[i].name]
      \o FlattenSeq([i \in DOMAIN manifest.partitions |->
            LET p == manifest.partitions[i] IN
            [j \in DOMAIN p.irqs |-> p.irqs[j].name]
              \o SetToSeq(ModelSymbols(p))
              \o FlattenSeq([j \in DOMAIN p.services |->
                    SetToSeq(ServiceSymbols(p, p.services[j]))])])

(* A manifest the SPM goes on with is wired without ambiguity: a service   *)
(* id, an interrupt line and a generated symbol each have one owner, no    *)
(* partition has two sources on one signal bit or one on the doorbell, and *)
(* no partition depends on itself through others (wt_manifest_validate).   *)
Wired ==
    stage = "validated" =>
        LET ps == manifest.partitions
            all == Flat(manifest)
        IN  /\ IsInjective([i \in DOMAIN all |-> all[i].s.sid])
            /\ \A i \in Irqs : Cardinality(Owners(i)) = 1
            /\ \A p \in ToSet(ps) :
                  LET sources == [i \in DOMAIN p.services |-> p.services[i].signal]
                                   \o [i \in DOMAIN p.irqs |-> p.irqs[i].signal]
                  IN  /\ \A i, j \in DOMAIN sources : i # j => sources[i] \cap sources[j] = {}
                      /\ \A i \in DOMAIN sources : Doorbell \notin sources[i]
            /\ IsInjective(Symbols)
            /\ \A i \in DOMAIN ps : i \notin Below(i)

(* What the generator lets through although the SPM refuses it. *)
KnownGap(m) ==
    \/ \E d \in ToSet(m.domains) :
          \/ End(d.stack) = MaxAddr + 1
          \/ \E r \in ToSet(d.mem) : End(r) = MaxAddr + 1
          \/ d.class = "ns" /\ d.irqs # <<>>
    \/ \E p \in ToSet(m.partitions), x \in InterruptSlots(m) : p.name = InterruptName(m, x)
    \/ ~ m.caps.capabilities \subseteq Platform.capabilities
    \/ m.caps.maxDomains > Platform.maxDomains
    \/ m.caps.maxMem > Platform.maxMem
    \/ m.caps.maxIrqs > Platform.maxIrqs

(* A manifest the SPM refuses at boot was refused when it was generated,   *)
(* except for a range that ends at the top of the address space, a         *)
(* Non-secure interrupt, an interrupt named like a partition, and          *)
(* capabilities the port does not have (validate_policy against            *)
(* wt_manifest_validate).  A manifest without a digest was not generated.  *)
BuildTellsBoot ==
    stage = "refused" /\ manifest.digest => ~ ValidatePolicy(manifest, Supported) \/ KnownGap(manifest)

(* A line the running instance has enabled stays enabled or has its signal *)
(* asserted, so that the partition will end the interrupt and enable it    *)
(* again, the excused lines aside; and once the recovery of a dead         *)
(* instance has masked its lines, none of them fires until the restart.    *)
Heard(excused) ==
    stage = "running" =>
        \A p \in ToSet(manifest.partitions) : \A q \in ToSet(p.irqs) :
            IF recovering.id = p.domain
              THEN recovering.step \in {"decide", "restart"} => ~ lines[q.irq].en
              ELSE q.irq \in opened \ excused =>
                       lines[q.irq].en \/ q.signal \subseteq asserted[p.domain]

(* No interrupt line goes deaf, whatever it interrupts: the handler        *)
(* wt_spm_conf_irq masks the line and asserts its signal, and "the         *)
(* asserted_signals update cannot race it" (spm_gate_core.c:880).          *)
LinesHeard == Heard({})

(* A line goes deaf only when its interrupt is taken between the load and  *)
(* the store of its partition's signals by the SPM's thread                *)
(* (wt_ffm_update_service_signal); the calls behind the gate (psa_eoi,     *)
(* psa_irq_enable, psa_clear, psa_notify, psa_get) and the recovery of a   *)
(* dead instance lose none.                                                *)
DeafOnlyByRace == Heard(torn)

=============================================================================
