------------------------------ MODULE Domains ------------------------------
(***************************************************************************)
(* Domain descriptors and their validation: src/src/domain.c.              *)
(*                                                                         *)
(* A manifest is a record of sequences.  Addresses are counted in units of *)
(* half an MPU granule, so that an unaligned resource exists; a capability *)
(* mask or an attribute word is the set of its bits, and a bit the mask    *)
(* does not know is "?".  A validator of the code returns the first error  *)
(* it meets; every caller only compares it with VALID, so here it is the   *)
(* conjunction of its checks.                                              *)
(***************************************************************************)
EXTENDS Integers, FiniteSets, SequencesExt

CONSTANTS
    MaxAddr,        \* UINTPTR_MAX
    Granule,        \* WT_MPU_GRANULE
    MaxRegions      \* WT_MAX_MEMORY_REGIONS

ASSUME DomainsAssumption ==
    /\ MaxAddr \in Nat \ {0}
    /\ Granule \in Nat \ {0}
    /\ MaxRegions \in Nat \ {0}

(* WT_MEMORY_ATTR_*: read, write, execute, device, restart-clear, shared. *)
Attributes == {"R", "W", "X", "D", "C", "S"}

CapabilityMask ==
    {"security", "privilege", "rot", "domains", "memory", "interrupts", "restart"}

NoShare == 0
Invalid == -1       \* UINT32_MAX as an identifier or an interrupt number

(***************************************************************************)
(* One descriptor.                                                         *)
(***************************************************************************)
RangeOk(r) == r.size # 0 /\ r.size <= MaxAddr - r.base

End(r) == r.base + r.size

RequiredCapabilities(profile) ==
    IF profile = "level_3" THEN CapabilityMask \ {"restart"} ELSE {}

IdentityOk(d) ==
    /\ d.id # Invalid
    /\ d.life \in {"stopped", "ready"}
    /\ \/ d.class = "spm" /\ d.role = "spm" /\ d.sec = "s" /\ d.priv
       \/ d.class = "sp" /\ d.role \in {"prot", "arot"} /\ d.sec = "s" /\ ~d.priv
       \/ d.class = "ns" /\ d.role = "none" /\ d.sec = "ns"

LaunchOk(d) == d.launch => d.class = "ns"

RestartOk(d) ==
    \/ d.restart.action = "domain" /\ d.restart.limit # 0 /\ d.restart.window # 0
    \/ /\ d.restart.action \in {"none", "platform"}
       /\ d.restart.limit = 0 /\ d.restart.window = 0 /\ d.restart.delay = 0

MemoryResourceOk(r) ==
    /\ RangeOk(r)
    /\ r.base % Granule = 0 /\ r.size % Granule = 0
    /\ r.attr \subseteq Attributes
    /\ r.attr \cap {"R", "W", "X"} # {}
    /\ ~ {"D", "X"} \subseteq r.attr
    /\ "C" \in r.attr => "W" \in r.attr
    /\ ~ {"W", "X"} \subseteq r.attr
    /\ "S" \in r.attr <=> r.share # NoShare

EntryAndStackOk(d) ==
    /\ RangeOk(d.stack)
    /\ \E r \in ToSet(d.mem) :
          "X" \in r.attr /\ r.base <= d.entry /\ d.entry < End(r)
    /\ \E r \in ToSet(d.mem) :
          /\ {"R", "W"} \subseteq r.attr
          /\ r.attr \cap {"X", "D", "S"} = {}
          /\ r.base <= d.stack.base /\ End(d.stack) <= End(r)

Overlap(first, second) ==
    first.base < End(second) /\ second.base < End(first)

Shared(first, second) ==
    /\ "S" \in first.attr /\ "S" \in second.attr
    /\ first.share = second.share /\ first.share # NoShare
    /\ first.base = second.base /\ first.size = second.size
    /\ first.attr = second.attr

InterruptOk(q) ==
    /\ q.irq # Invalid
    /\ q.attr \subseteq {"S"}
    /\ "S" \in q.attr <=> q.share # NoShare

ResourcesOk(d, caps) ==
    /\ Len(d.mem) \in 1 .. caps.maxMem
    /\ Len(d.irqs) <= caps.maxIrqs
    /\ \A r \in ToSet(d.mem) : MemoryResourceOk(r)
    /\ \A i, j \in DOMAIN d.mem : j < i => ~ Overlap(d.mem[i], d.mem[j])
    /\ \A q \in ToSet(d.irqs) : InterruptOk(q)
    /\ \A i, j \in DOMAIN d.irqs : j < i => d.irqs[i].irq # d.irqs[j].irq
    /\ EntryAndStackOk(d)

(***************************************************************************)
(* Two descriptors.                                                        *)
(***************************************************************************)
PairIsolated(first, second, r, profile) ==
    \/ profile # "level_3"
    \/ "W" \notin r.attr
    \/ "D" \in r.attr
    \/ "spm" \in {first.class, second.class}
    \/ "sp" \notin {first.class, second.class}

PairOk(first, second, profile) ==
    /\ first.id # second.id
    /\ \A r \in ToSet(first.mem), s \in ToSet(second.mem) :
          Overlap(r, s) => Shared(r, s) /\ PairIsolated(first, second, r, profile)
    /\ \A q \in ToSet(first.irqs), p \in ToSet(second.irqs) :
          q.irq = p.irq => "S" \in q.attr \cap p.attr /\ q.share = p.share

DomainSetOk(domains, profile, caps) ==
    /\ Len(domains) \in 1 .. caps.maxDomains
    /\ caps.capabilities \subseteq CapabilityMask
    /\ profile \in {"service_only", "level_3"}
    /\ RequiredCapabilities(profile) \subseteq caps.capabilities
    /\ \A d \in ToSet(domains) : IdentityOk(d)
    /\ profile # "service_only" =>
          Cardinality({i \in DOMAIN domains : domains[i].class = "spm"}) = 1
    /\ \A i \in DOMAIN domains :
          LET d == domains[i] IN
          /\ RestartOk(d) /\ LaunchOk(d)
          /\ d.caps \subseteq caps.capabilities
          /\ d.restart.action = "domain" => "restart" \in caps.capabilities
          /\ d.mem # <<>> => "memory" \in caps.capabilities
          /\ d.irqs # <<>> => "interrupts" \in caps.capabilities
          /\ ResourcesOk(d, caps)
          /\ \A j \in 1 .. i - 1 : PairOk(d, domains[j], profile)

=============================================================================
