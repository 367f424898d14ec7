---------------------------- MODULE MCIsolation ----------------------------
(***************************************************************************)
(* Families of manifests for module Isolation, each a few variations of    *)
(* one valid manifest with an SPM, two guests and two or three Secure      *)
(* Partitions.  The address map, in half granules:                         *)
(*   0..9 Secure flash (text to 7), 10..13 guest flash, 14..15 boot        *)
(*   handoff, 16..19 SPM RAM, 20..31 Secure Partition bands, 32..47 guest  *)
(*   RAM, 48..55 MMIO.                                                     *)
(***************************************************************************)
EXTENDS Isolation

Mem(base, size, attr) == [base |-> base, size |-> size, attr |-> attr, share |-> 0]
Shr(base, size, attr, id) == [base |-> base, size |-> size, attr |-> attr \cup {"S"}, share |-> id]

RWC == {"R", "W", "C"}
RX == {"R", "X"}
AllCaps == CapabilityMask

NoRestart == [action |-> "none", limit |-> 0, window |-> 0, delay |-> 0]
Restarts == [action |-> "domain", limit |-> 3, window |-> 9, delay |-> 0]

SpmDomain ==
    [id |-> 0, class |-> "spm", role |-> "spm", sec |-> "s", priv |-> TRUE, life |-> "ready",
     entry |-> 0, stack |-> [base |-> 16, size |-> 2], mem |-> <<Mem(0, 2, RX), Mem(16, 2, RWC)>>,
     irqs |-> <<>>, restart |-> NoRestart, caps |-> {}, launch |-> FALSE]

Sp(id, code, ram) ==
    [SpmDomain EXCEPT !.id = id, !.class = "sp", !.role = "arot", !.priv = FALSE,
        !.entry = code, !.stack.base = ram,
        !.mem = <<Mem(code, 2, RX), Mem(ram, 2, RWC)>>, !.restart = Restarts]

Guest(id, code, ram) ==
    [SpmDomain EXCEPT !.id = id, !.class = "ns", !.role = "none", !.sec = "ns",
        !.entry = code, !.stack = [base |-> ram, size |-> 8],
        !.mem = <<Mem(code, 2, RX), Mem(ram, 8, RWC), Shr(48, 2, {"R", "W", "D"}, 2)>>,
        !.restart = Restarts]

Service(name, sid, bit) ==
    [name |-> name, sid |-> sid, version |-> 1, policy |-> "strict", signal |-> {bit},
     handle |-> 0, conn |-> TRUE]

Partition(name, id, services) ==
    [name |-> name, domain |-> id, fw |-> "1.0", model |-> "ipc", priority |-> "normal",
     services |-> services, deps |-> <<>>, irqs |-> <<>>]

Base ==
    [format |-> 1, generator |-> <<"G">>, digest |-> TRUE, features |-> {"ipc"},
     profile |-> "level_3",
     caps |-> [capabilities |-> AllCaps, maxDomains |-> 6, maxMem |-> 4, maxIrqs |-> 1],
     limits |-> [partitions |-> 3, services |-> 2, dependencies |-> 2, stateless |-> 2],
     domains |-> <<SpmDomain, Guest(1, 10, 32), Guest(2, 12, 40), Sp(3, 2, 20), Sp(4, 4, 22)>>,
     partitions |-> <<Partition(<<"A">>, 3, <<Service(<<"SA">>, 1, 4)>>),
                      Partition(<<"B">>, 4, <<Service(<<"SB">>, 2, 4)>>)>>]

Three ==
    [Base EXCEPT !.domains = Append(@, Sp(5, 6, 24)),
        !.partitions = Append(@, Partition(<<"C">>, 5, <<Service(<<"SC">>, 3, 4)>>))]

WithMem(m, i, r) == [m EXCEPT !.domains[i].mem = Append(@, r)]

Profiles(S) == S \cup {[m EXCEPT !.profile = "service_only"] : m \in S}

(* One more resource of the second partition, anywhere in Secure memory, in *)
(* guest RAM or over MMIO.                                                  *)
Bands ==
    {WithMem(Base, 5, Mem(b, s, a)) :
        b \in 0 .. 31 \cup {38, 40, 48}, s \in {1, 2, 4},
        a \in {RWC, {"R", "W"}, {"R"}, {"R", "W", "D"}, {"W", "X"}}}

(* A resource two domains both declare, shared or not. *)
Sharings ==
    Profiles({WithMem(WithMem([Base EXCEPT !.domains[2].mem = SubSeq(@, 1, 2),
                                           !.domains[3].mem = SubSeq(@, 1, 2)],
                              i, Shr(26, 2, a, 1)), j, r) :
        i \in {1, 2, 4}, j \in {3, 5}, a \in {{"R"}, {"R", "W"}},
        r \in {Shr(26, 2, {"R", "W"}, 1), Shr(26, 2, {"R"}, 1), Shr(26, 2, {"R"}, 2),
               Shr(26, 4, {"R"}, 1), Mem(28, 2, {"R", "W"})}})

(* The first guest's RAM, anywhere, and a partition's band beside it. *)
GuestRam ==
    {[WithMem(Base, 5, Mem(x, 2, RWC)) EXCEPT
        !.domains[2].mem[2] = Mem(b, s, RWC),
        !.domains[2].stack = [base |-> b, size |-> s]] :
        b \in 30 .. 40, s \in {2, 4, 6}, x \in {28, 34, 38}}
    \cup {[Base EXCEPT !.domains[2].mem = <<Mem(32, 8, RWC), Mem(10, 2, RX)>>],
          [Base EXCEPT !.domains[3].mem[1] = Mem(54, 2, RX), !.domains[3].entry = 54]}

DepLists ==
    {<<>>, <<1>>, <<2>>, <<3>>, <<9>>, <<0>>, <<1, 1>>, <<1, 2>>, <<1, 3>>, <<2, 3>>}

Dependencies ==
    {[Three EXCEPT !.partitions[1].deps = d, !.partitions[2].deps = e,
                   !.partitions[3].deps = f] :
        d \in DepLists, e \in DepLists, f \in DepLists}

(* A line of the first partition, and perhaps one of the second or of a    *)
(* guest; the signals of the first.                                        *)
Line(i) == [irq |-> i, attr |-> {}, share |-> 0]
Irq(name, i, signal) == [name |-> name, irq |-> i, signal |-> signal]

Interrupts ==
    {[Base EXCEPT !.domains[4].irqs = <<Line(i)>>,
        !.partitions[1].irqs = <<Irq(<<"IA">>, i, s)>>,
        !.partitions[1].services[1].signal = t,
        !.domains[5].irqs = IF j = 0 THEN <<>> ELSE <<Line(j)>>,
        !.partitions[2].irqs = IF j = 0 THEN <<>> ELSE <<Irq(<<"IB">>, j, {5})>>,
        !.domains[2].irqs = IF g THEN <<Line(3)>> ELSE <<>>] :
        i \in {1, 8}, j \in {0, 1, 2}, s \in {{5}, {4}, {3}, {5, 6}, {}},
        t \in {{4}, {3, 4}, {}}, g \in BOOLEAN}

Words == {<<"A">>, <<"SB">>, <<"SA", "_SID">>, <<"SB", "_SIGNAL">>, <<"A", "_MODEL_SFN">>,
          <<"7">>, <<"x", "A">>, <<>>, <<"L", "L", "L", "L">>}

Names ==
    {[Base EXCEPT !.domains[4].irqs = <<Line(1)>>,
        !.partitions[1].irqs = <<Irq(n, 1, {5})>>,
        !.partitions[1].fw = v, !.partitions[2].name = p,
        !.partitions[2].services[1].name = s] :
        n \in Words, p \in Words, s \in Words, v \in {"1.0", "1.1"}}

(* One field of the valid manifest out of place. *)
Fields ==
    {[Base EXCEPT !.format = 2], [Base EXCEPT !.generator = <<>>], [Base EXCEPT !.digest = FALSE],
     [Base EXCEPT !.features = {"ipc", "sfn"}], [Base EXCEPT !.features = {}],
     [Base EXCEPT !.profile = "level_2"], [Base EXCEPT !.caps.maxMem = 5],
     [Base EXCEPT !.caps.capabilities = {"memory"}], [Base EXCEPT !.limits.partitions = 1],
     [Base EXCEPT !.limits.stateless = 0], [Base EXCEPT !.domains[4].id = 4],
     [Base EXCEPT !.domains[4].id = Invalid], [Base EXCEPT !.domains[4].priv = TRUE],
     [Base EXCEPT !.domains[4].role = "none"], [Base EXCEPT !.domains[4].life = "running"],
     [Base EXCEPT !.domains[4].launch = TRUE], [Base EXCEPT !.domains[2].launch = TRUE],
     [Base EXCEPT !.domains[4].restart.limit = 0], [Base EXCEPT !.domains[4].restart = NoRestart],
     [Base EXCEPT !.domains[4].restart.action = "none"], [Base EXCEPT !.domains[4].entry = 9],
     [Base EXCEPT !.domains[2].restart = NoRestart], [Base EXCEPT !.domains[2].priv = FALSE],
     [Base EXCEPT !.domains[4].stack.size = 4], [Base EXCEPT !.domains[4].stack.size = 0],
     [Base EXCEPT !.domains[5].id = 6], [Base EXCEPT !.partitions[1].domain = 1],
     [Base EXCEPT !.domains[5].id = 8, !.partitions[2].domain = 8],
     [Base EXCEPT !.partitions[2].domain = 3], [Base EXCEPT !.partitions[1].fw = "2.0"],
     [Base EXCEPT !.partitions[1].model = "sfn"], [Base EXCEPT !.partitions[1].services = <<>>],
     [Base EXCEPT !.partitions[1].priority = "top"], [Base EXCEPT !.partitions = SubSeq(@, 1, 1)],
     [Base EXCEPT !.partitions[1].services[1].conn = FALSE],
     [Base EXCEPT !.partitions[1].services[1].handle = 1],
     [Base EXCEPT !.partitions[1].services[1].sid = 2],
     [Base EXCEPT !.partitions[1].services[1].version = 0],
     [Base EXCEPT !.domains[4].irqs = <<Line(1)>>],
     [Base EXCEPT !.domains[4].mem[2].share = 1],
     WithMem(WithMem(Base, 4, Mem(26, 2, RWC)), 4, Mem(28, 2, RWC))}

AllManifests ==
    Bands \cup Sharings \cup GuestRam \cup Dependencies \cup Interrupts \cup Names \cup Fields

(* The running system is explored for all families but Dependencies and    *)
(* Names, which are followed to the end of the boot.  Requests are explored *)
(* where one line can meet them: in its own partition or in the other.     *)
Explored ==
    /\ stage = "running" =>
          Len(manifest.domains) = 5 /\ manifest.partitions[2].name = <<"B">>
    /\ Cardinality(Irqs) # 1 => queued = {}

MCPlatform == [capabilities |-> AllCaps, maxDomains |-> 6, maxMem |-> 4, maxIrqs |-> 1]
MCVector == [g \in {0, 1} |-> [base |-> 10 + 2 * g, pc |-> 11 + 2 * g]]
MCUsart == [base |-> 48, size |-> 2]
MCSpmRam == {[base |-> 16, size |-> 4]}
MCMmio == {[base |-> 48, size |-> 8]}
MCStartIds == <<4, 3, 5>>
=============================================================================
