----------------------------- MODULE Generator -----------------------------
(***************************************************************************)
(* The build-time twin of the manifest check: validate_policy of           *)
(* src/tools/manifest/generate.py, which decides whether a policy file is  *)
(* turned into the manifest a device then boots with.  It is written from  *)
(* the Python, not from the C of modules Domains and Manifest, and shares  *)
(* with them only the shape of a manifest and the limits.                  *)
(***************************************************************************)
EXTENDS Manifest

CONSTANTS
    VectorIrqs,         \* SECURE_VECTOR_IRQS
    MmioRanges,         \* the ranges range_is_mmio knows
    BuildFramework      \* supported_framework: the versions of the contract

(* base + size may equal word_max + 1: the range may end at the top. *)
PolicyRange(r) == r.size # 0 /\ r.base + r.size <= MaxAddr + 1

RangesMeet(r, s) == r.base < s.base + s.size /\ s.base < r.base + r.size

RangeIsMmio(r) == \E q \in MmioRanges : RangesMeet(r, q)

ExactShared(r, s) ==
    /\ "S" \in r.attr \cap s.attr
    /\ r.share # 0
    /\ <<r.share, r.base, r.size, r.attr>> = <<s.share, s.base, s.size, s.attr>>

PolicyHeader(m, supported) ==
    /\ m.features \subseteq FeatureMask \cap supported /\ "ipc" \in m.features
    /\ supported \subseteq FeatureMask
    /\ m.format = 1
    /\ NameOk(m.generator)
    /\ m.limits.partitions \in 1 .. MaxPartitions
    /\ m.limits.services \in 1 .. MaxServices
    /\ m.limits.dependencies \in 1 .. MaxDependencies
    /\ m.limits.stateless >= MinStateless
    /\ m.caps.capabilities \subseteq CapabilityMask
    /\ m.profile \in {"service_only", "level_3"}
    /\ m.profile = "level_3" => CapabilityMask \ {"restart"} \subseteq m.caps.capabilities
    /\ Len(m.partitions) \in 1 .. m.limits.partitions
    /\ Len(m.domains) \in 1 .. m.caps.maxDomains

PolicyIdentity(d) ==
    /\ d.id # Invalid /\ d.life \in {"stopped", "ready"}
    /\ <<d.class, d.role, d.sec>> \in
          {<<"spm", "spm", "s">>, <<"sp", "prot", "s">>, <<"sp", "arot", "s">>,
           <<"ns", "none", "ns">>}
    /\ d.class = "spm" => d.priv
    /\ d.class = "sp" => ~ d.priv
    /\ d.launch => d.class = "ns"

PolicyRestart(d, capabilities) ==
    /\ d.restart.action \in {"none", "domain", "platform"}
    /\ IF d.restart.action = "domain"
         THEN d.restart.limit > 0 /\ d.restart.window > 0 /\ "restart" \in capabilities
         ELSE d.restart.limit + d.restart.window + d.restart.delay = 0
    /\ d.caps \subseteq CapabilityMask \cap capabilities

(* A writable resource may be executable. *)
PolicyMemoryWX(d, r) ==
    /\ PolicyRange(r)
    /\ r.base % Granule = 0 /\ r.size % Granule = 0
    /\ r.attr \subseteq Attributes
    /\ r.attr \cap {"R", "W", "X"} # {}
    /\ "X" \in r.attr => "D" \notin r.attr
    /\ "C" \in r.attr => "W" \in r.attr
    /\ (r.share = 0) = ("S" \notin r.attr)
    /\ d.class = "sp" => "D" \notin r.attr /\ ~ RangeIsMmio(r)

PolicyMemory(d, r) ==
    /\ PolicyRange(r)
    /\ r.base % Granule = 0 /\ r.size % Granule = 0
    /\ r.attr \subseteq Attributes
    /\ r.attr \cap {"R", "W", "X"} # {}
    /\ "X" \in r.attr => r.attr \cap {"D", "W"} = {}
    /\ "C" \in r.attr => "W" \in r.attr
    /\ (r.share = 0) = ("S" \notin r.attr)
    /\ d.class = "sp" => "D" \notin r.attr /\ ~ RangeIsMmio(r)

PolicyInterrupt(d, q) ==
    /\ q.irq # Invalid /\ q.attr \subseteq {"S"}
    /\ (q.share = 0) = (q.attr = {})
    /\ d.class = "sp" => q.attr = {} /\ q.irq < VectorIrqs

PolicyDomain(m, d) ==
    /\ PolicyIdentity(d)
    /\ PolicyRestart(d, m.caps.capabilities)
    /\ Len(d.mem) \in 1 .. m.caps.maxMem
    /\ Len(d.irqs) <= m.caps.maxIrqs
    /\ "memory" \in m.caps.capabilities
    /\ d.irqs # <<>> => "interrupts" \in m.caps.capabilities
    /\ \A r \in ToSet(d.mem) : PolicyMemory(d, r)
    /\ \A i, j \in DOMAIN d.mem : i # j => ~ RangesMeet(d.mem[i], d.mem[j])
    /\ \A q \in ToSet(d.irqs) : PolicyInterrupt(d, q)
    /\ \A i, j \in DOMAIN d.irqs : i # j => d.irqs[i].irq # d.irqs[j].irq
    /\ PolicyRange(d.stack)
    /\ \E r \in ToSet(d.mem) :
          "X" \in r.attr /\ d.entry \in r.base .. r.base + r.size - 1
    /\ \E r \in ToSet(d.mem) :
          /\ r.attr \cap {"R", "W", "X", "D", "S"} = {"R", "W"}
          /\ r.base <= d.stack.base
          /\ d.stack.base + d.stack.size <= r.base + r.size

(* A pair of resources of two domains that meet: shared exactly, and at    *)
(* level 3 not a writable one of a Secure Partition and another partition. *)
PolicyMeeting(m, c, d, r, s) ==
    /\ ExactShared(r, s)
    /\ \/ m.profile # "level_3" \/ "W" \notin r.attr \/ "D" \in r.attr
       \/ c.class = "spm" \/ d.class = "spm"
       \/ c.class # "sp" /\ d.class # "sp"

PolicyDomains(m) ==
    /\ \A d \in ToSet(m.domains) : PolicyDomain(m, d)
    /\ \A i, j \in DOMAIN m.domains : i < j =>
          LET c == m.domains[i]
              d == m.domains[j]
          IN  /\ c.id # d.id
              /\ \A r \in ToSet(c.mem), s \in ToSet(d.mem) :
                    RangesMeet(r, s) => PolicyMeeting(m, c, d, r, s)
              /\ \A q \in ToSet(c.irqs), p \in ToSet(d.irqs) :
                    q.irq = p.irq => q.attr = {"S"} /\ p.attr = {"S"} /\ q.share = p.share
    /\ m.profile # "service_only" =>
          Len(SelectSeq(m.domains, LAMBDA d : d.class = "spm")) = 1

PolicyService(m, p, s) ==
    /\ NameOk(s.name)
    /\ s.sid # 0 /\ s.version # 0 /\ s.policy \in {"strict", "relaxed"}
    /\ p.fw = "1.0" => s.conn
    /\ s.conn => s.handle = 0
    /\ ~ s.conn => "stateless" \in m.features /\ s.handle \in 1 .. m.limits.stateless
    /\ IF p.model = "ipc" THEN SignalOk(s.signal) ELSE s.signal = {}

PolicyPartition(m, p) ==
    /\ NameOk(p.name)
    /\ p.domain # 0 /\ p.domain <= MaxPartitionId
    /\ \E d \in ToSet(m.domains) :
          /\ d.id = p.domain /\ d.class = "sp"
          /\ Len(p.irqs) = Len(d.irqs)
          /\ {q.irq : q \in ToSet(p.irqs)} \subseteq {q.irq : q \in ToSet(d.irqs)}
    /\ p.fw \in BuildFramework
    /\ p.model \in {"ipc", "sfn"} \cap m.features
    /\ p.fw = "1.0" => p.model = "ipc"
    /\ p.priority \in {"low", "normal", "high"}
    /\ Len(p.services) + Len(p.irqs) > 0
    /\ Len(p.services) <= m.limits.services
    /\ Len(p.deps) <= m.limits.dependencies
    /\ Len(p.irqs) + (IF p.model = "ipc" THEN Len(p.services) ELSE 0) <= MaxSignals
    /\ \A s \in ToSet(p.services) : PolicyService(m, p, s)
    /\ \A q \in ToSet(p.irqs) : NameOk(q.name) /\ SignalOk(q.signal)
    /\ LET used == SelectSeq([i \in DOMAIN p.services |-> p.services[i].signal],
                             LAMBDA s : s # {})
                     \o [i \in DOMAIN p.irqs |-> p.irqs[i].signal]
       IN  IsInjective(used)
    /\ IsInjective([i \in DOMAIN p.irqs |-> p.irqs[i].irq])
    /\ IsInjective([i \in DOMAIN p.irqs |-> p.irqs[i].name])

(* Every service of the manifest, with the index of its partition. *)
Flat(m) ==
    FlattenSeq([i \in DOMAIN m.partitions |->
        [j \in DOMAIN m.partitions[i].services |->
            [owner |-> i, s |-> m.partitions[i].services[j]]]])

PolicyPartitions(m) ==
    /\ \A p \in ToSet(m.partitions) : PolicyPartition(m, p)
    /\ IsInjective([i \in DOMAIN m.partitions |-> m.partitions[i].name])
    /\ IsInjective([i \in DOMAIN m.partitions |-> m.partitions[i].domain])
    /\ LET all == Flat(m) IN
       /\ all # <<>>
       /\ IsInjective([i \in DOMAIN all |-> all[i].s.name])
       /\ IsInjective([i \in DOMAIN all |-> all[i].s.sid])
       /\ \A i, j \in DOMAIN all :
             i # j /\ ~ all[i].s.conn /\ ~ all[j].s.conn
                => all[i].s.handle # all[j].s.handle
    /\ \A d \in ToSet(m.domains) : d.class = "sp" =>
          d.id \in {p.domain : p \in ToSet(m.partitions)}

(* Rounds that remove every node all of whose targets are removed. *)
PolicyDependencies(m) ==
    LET all == ToSet(Flat(m))
        Owner(sid) == (CHOOSE x \in all : x.s.sid = sid).owner
        Targets(i) == {Owner(sid) : sid \in ToSet(m.partitions[i].deps)}
        round[n \in 0 .. Len(m.partitions)] ==
            IF n = 0 THEN {}
            ELSE round[n - 1] \cup
                   {i \in DOMAIN m.partitions : Targets(i) \subseteq round[n - 1]}
    IN  /\ \A i \in DOMAIN m.partitions :
              /\ IsInjective(m.partitions[i].deps)
              /\ \A sid \in ToSet(m.partitions[i].deps) :
                    /\ sid # 0
                    /\ sid \in {x.s.sid : x \in all}
                    /\ Owner(sid) # i
        /\ round[Len(m.partitions)] = DOMAIN m.partitions

(* policy_generated_symbols: a prefixed symbol is made once, a reserved    *)
(* one is made once, and no reserved one is a name of a partition or an    *)
(* interrupt.                                                              *)
PolicySymbols(m) ==
    LET Words(p, s) ==
            <<"_SID", "_VERSION">>
              \o (IF p.model = "ipc" THEN <<"_SIGNAL">> ELSE <<>>)
              \o (IF s.conn THEN <<>> ELSE <<"_HANDLE">>)
        Suffixed(name, words) == [i \in DOMAIN words |-> name \o <<words[i]>>]
        OfServices(p) ==
            FlattenSeq([j \in DOMAIN p.services |->
                Suffixed(p.services[j].name, Words(p, p.services[j]))])
        prefixed ==
            FlattenSeq([i \in DOMAIN m.partitions |->
                LET p == m.partitions[i] IN
                Suffixed(p.name, <<"_DOMAIN_ID", "_FRAMEWORK_VERSION", "_MODEL">>)
                  \o OfServices(p)
                  \o [j \in DOMAIN p.irqs |-> p.irqs[j].name \o <<"_SIGNAL">>]])
        reserved ==
            FlattenSeq([i \in DOMAIN m.partitions |->
                LET p == m.partitions[i] IN
                (IF p.fw = "1.1" THEN Suffixed(p.name, <<"_MODEL_IPC", "_MODEL_SFN">>)
                                 ELSE <<>>)
                  \o OfServices(p)])
        raw == {p.name : p \in ToSet(m.partitions)}
                 \cup {InterruptName(m, x) : x \in InterruptSlots(m)}
    IN  /\ IsInjective(prefixed)
        /\ IsInjective(reserved)
        /\ ToSet(reserved) \cap raw = {}

ValidatePolicy(m, supported) ==
    /\ PolicyHeader(m, supported)
    /\ PolicyDomains(m)
    /\ PolicyPartitions(m)
    /\ PolicyDependencies(m)
    /\ PolicySymbols(m)

=============================================================================
