------------------------------ MODULE Manifest ------------------------------
(***************************************************************************)
(* The check the SPM makes of the generated manifest before anything of it *)
(* is used: src/src/manifest.c.                                            *)
(*                                                                         *)
(* A name is a sequence of words; a symbol generated from a name is that   *)
(* name with a suffix word behind it.  A signal is the set of its bits.    *)
(***************************************************************************)
EXTENDS Domains

CONSTANTS
    NameMax,            \* WT_MANIFEST_NAME_MAX
    MaxPartitions,      \* WT_MANIFEST_MAX_PARTITIONS
    MaxServices,        \* WT_MANIFEST_MAX_SERVICES
    MaxDependencies,    \* WT_MANIFEST_MAX_DEPENDENCIES
    MaxPartitionId,     \* INT32_MAX
    MaxSignals,         \* WT_MANIFEST_MAX_SIGNALS
    MinStateless,       \* the least legal max_stateless_handles
    ReservedBits        \* WT_MANIFEST_RESERVED_SIGNALS

FeatureMask == {"ipc", "sfn", "stateless", "mmiovec"}

(* Words a generated identifier cannot begin with, and cannot contain. *)
Digit == "7"
LowerCase == "x"

NameOk(n) ==
    /\ Len(n) \in 1 .. NameMax
    /\ n[1] # Digit
    /\ LowerCase \notin ToSet(n)

SignalOk(s) == Cardinality(s) = 1 /\ s \cap ReservedBits = {}

(***************************************************************************)
(* The symbols the generated headers define for a partition and a service. *)
(***************************************************************************)
ModelSymbols(p) ==
    IF p.fw = "1.1" THEN {p.name \o <<"_MODEL_IPC">>, p.name \o <<"_MODEL_SFN">>}
                    ELSE {}

ServiceSymbols(p, s) ==
    {s.name \o <<w>> : w \in {"_SID", "_VERSION"}
                        \cup (IF p.model = "ipc" THEN {"_SIGNAL"} ELSE {})
                        \cup (IF s.conn THEN {} ELSE {"_HANDLE"})}

DomainOf(m, id) == CHOOSE d \in ToSet(m.domains) : d.id = id

HasDomain(m, id) == \E d \in ToSet(m.domains) : d.id = id

(***************************************************************************)
(* wt_manifest_validate_header.                                            *)
(***************************************************************************)
FfmResourcesOk(m) ==
    \A d \in ToSet(m.domains) :
        /\ d.class = "ns" => d.irqs = <<>>
        /\ d.class = "sp" =>
              /\ \A r \in ToSet(d.mem) : ~ {"D", "S"} \subseteq r.attr
              /\ \A q \in ToSet(d.irqs) : "S" \notin q.attr

LimitsOk(l) ==
    /\ l.partitions \in 1 .. MaxPartitions
    /\ l.services \in 1 .. MaxServices
    /\ l.dependencies \in 1 .. MaxDependencies
    /\ l.stateless >= MinStateless

HeaderOk(m, supported, platform) ==
    /\ m.format = 1
    /\ NameOk(m.generator)
    /\ m.digest
    /\ supported \subseteq FeatureMask /\ "ipc" \in supported
    /\ m.features \subseteq supported
    /\ "ipc" \in m.features
    /\ LimitsOk(m.limits)
    /\ Len(m.partitions) \in 1 .. m.limits.partitions
    /\ m.caps.capabilities \subseteq platform.capabilities
    /\ m.caps.maxDomains <= platform.maxDomains
    /\ m.caps.maxMem <= platform.maxMem
    /\ m.caps.maxIrqs <= platform.maxIrqs
    /\ DomainSetOk(m.domains, m.profile, platform)
    /\ FfmResourcesOk(m)

(***************************************************************************)
(* One partition.                                                          *)
(***************************************************************************)
PartitionHeaderOk(m, p) ==
    /\ NameOk(p.name)
    /\ HasDomain(m, p.domain)
    /\ p.domain # 0 /\ p.domain <= MaxPartitionId
    /\ DomainOf(m, p.domain).class = "sp"
    /\ p.fw \in {"1.0", "1.1"}
    /\ p.model \in {"ipc", "sfn"}
    /\ p.fw = "1.0" => p.model = "ipc"
    /\ p.model \in m.features
    /\ p.priority \in {"low", "normal", "high"}
    /\ p.services # <<>> \/ p.irqs # <<>>
    /\ Len(p.services) <= m.limits.services
    /\ Len(p.deps) <= m.limits.dependencies
    /\ Len(p.irqs) = Len(DomainOf(m, p.domain).irqs)
    /\ Len(p.irqs) + (IF p.model = "ipc" THEN Len(p.services) ELSE 0) <= MaxSignals

ServiceOk(m, p, s) ==
    /\ NameOk(s.name)
    /\ s.sid # 0
    /\ s.version # 0 /\ s.policy \in {"strict", "relaxed"}
    /\ p.fw = "1.0" => s.conn
    /\ IF s.conn
         THEN s.handle = 0
         ELSE "stateless" \in m.features /\ s.handle \in 1 .. m.limits.stateless
    /\ IF p.model = "ipc" THEN SignalOk(s.signal) ELSE s.signal = {}

SignalUsed(p, services, irqs, signal) ==
    \/ \E i \in 1 .. services : p.services[i].signal = signal
    \/ \E i \in 1 .. irqs : p.irqs[i].signal = signal

PartitionInterruptOk(d, p, i) ==
    LET q == p.irqs[i] IN
    /\ NameOk(q.name) /\ SignalOk(q.signal)
    /\ \E r \in ToSet(d.irqs) : r.irq = q.irq
    /\ \A j \in 1 .. i - 1 : p.irqs[j].irq # q.irq /\ p.irqs[j].name # q.name
    /\ ~ SignalUsed(p, Len(p.services), i - 1, q.signal)

PartitionOk(m, p) ==
    /\ PartitionHeaderOk(m, p)
    /\ \A i \in DOMAIN p.services :
          /\ ServiceOk(m, p, p.services[i])
          /\ p.services[i].signal # {} =>
                ~ SignalUsed(p, i - 1, 0, p.services[i].signal)
    /\ \A i \in DOMAIN p.irqs : PartitionInterruptOk(DomainOf(m, p.domain), p, i)
    /\ \A i \in DOMAIN p.deps :
          p.deps[i] # 0 /\ \A j \in 1 .. i - 1 : p.deps[i] # p.deps[j]

(***************************************************************************)
(* All partitions.                                                         *)
(***************************************************************************)
PartitionsUnique(m) ==
    \A i, j \in DOMAIN m.partitions : j < i =>
        /\ m.partitions[i].name # m.partitions[j].name
        /\ m.partitions[i].domain # m.partitions[j].domain

DomainsCovered(m) ==
    \A d \in ToSet(m.domains) : d.class = "sp" =>
        \E p \in ToSet(m.partitions) : p.domain = d.id

(* <<partition index, service index>> in manifest order. *)
ServiceSlots(m) ==
    {<<i, j>> \in (DOMAIN m.partitions) \X (1 .. MaxServices) :
        j \in DOMAIN m.partitions[i].services}

ServiceAt(m, x) == m.partitions[x[1]].services[x[2]]

ServicesUnique(m) ==
    \A x, y \in ServiceSlots(m) : x # y =>
        LET s == ServiceAt(m, x)
            t == ServiceAt(m, y)
        IN  /\ s.sid # t.sid /\ s.name # t.name
            /\ s.handle # 0 => s.handle # t.handle

InterruptSlots(m) ==
    {<<i, j>> \in (DOMAIN m.partitions) \X (1 .. MaxSignals) :
        j \in DOMAIN m.partitions[i].irqs}

InterruptName(m, x) == m.partitions[x[1]].irqs[x[2]].name

(* Whether a raw name (of a partition or an interrupt) is a symbol some    *)
(* partition's headers generate.                                           *)
Generated(m, name) ==
    \E p \in ToSet(m.partitions) :
        \/ name \in ModelSymbols(p)
        \/ \E s \in ToSet(p.services) : name \in ServiceSymbols(p, s)

SymbolsUnique(m) ==
    /\ \A p \in ToSet(m.partitions) :
          /\ ~ Generated(m, p.name)
          /\ \A q \in ToSet(m.partitions) : \A s \in ToSet(q.services) :
                ModelSymbols(p) \cap ServiceSymbols(q, s) = {}
          /\ \A x \in InterruptSlots(m) : p.name # InterruptName(m, x)
    /\ \A x \in InterruptSlots(m) :
          /\ ~ Generated(m, InterruptName(m, x))
          /\ \A y \in InterruptSlots(m) \ {x} : InterruptName(m, x) # InterruptName(m, y)

(***************************************************************************)
(* The dependency graph: nodes without an edge to a node still there are   *)
(* removed, in place and in index order, until a pass removes nothing.     *)
(***************************************************************************)
Providers(m, sid) ==
    {i \in DOMAIN m.partitions :
        \E s \in ToSet(m.partitions[i].services) : s.sid = sid}

FindService(m, sid) == CHOOSE i \in Providers(m, sid) :
    \A j \in Providers(m, sid) : i <= j

Edges(m) ==
    UNION {{<<i, FindService(m, sid)>> : sid \in ToSet(m.partitions[i].deps)} :
              i \in DOMAIN m.partitions}

(* Only the edges to earlier nodes hold a node back. *)
RemoveNodeEarlier(g, i) ==
    IF i \in g.removed \/ \E j \in (1 .. i - 1) \ g.removed : <<i, j>> \in g.edges
      THEN g
      ELSE [g EXCEPT !.removed = @ \cup {i},
                     !.edges = {e \in @ : e[2] # i}]

RemoveNode(g, i) ==
    IF i \in g.removed \/ \E j \in g.nodes \ g.removed : <<i, j>> \in g.edges
      THEN g
      ELSE [g EXCEPT !.removed = @ \cup {i},
                     !.edges = {e \in @ : e[2] # i}]

RemovalPass(g) ==
    FoldLeft(RemoveNode, g, [i \in 1 .. Cardinality(g.nodes) |-> i])

DependenciesOk(m) ==
    /\ \A i \in DOMAIN m.partitions : \A sid \in ToSet(m.partitions[i].deps) :
          Providers(m, sid) # {} /\ FindService(m, sid) # i
    /\ LET g == [nodes |-> DOMAIN m.partitions, edges |-> Edges(m), removed |-> {}]
           passes[n \in 0 .. Len(m.partitions)] ==
               IF n = 0 THEN g ELSE RemovalPass(passes[n - 1])
       IN  passes[Len(m.partitions)].removed = DOMAIN m.partitions

ManifestOk(m, supported, platform) ==
    /\ HeaderOk(m, supported, platform)
    /\ \A p \in ToSet(m.partitions) : PartitionHeaderOk(m, p)
    /\ PartitionsUnique(m)
    /\ DomainsCovered(m)
    /\ \A p \in ToSet(m.partitions) : PartitionOk(m, p)
    /\ ServicesUnique(m)
    /\ SymbolsUnique(m)
    /\ DependenciesOk(m)

=============================================================================
