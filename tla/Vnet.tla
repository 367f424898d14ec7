-------------------------------- MODULE Vnet --------------------------------
(***************************************************************************)
(* The virtual network: the switch of src/vnet (ports, forwarding table,   *)
(* frame pool, receive rings), the partition that serves it                *)
(* (vnet_relay_service.c) and the guests' client library                   *)
(* (vnet_psa_transport.c), which heals its connection when the partition   *)
(* restarted.                                                              *)
(*                                                                         *)
(* The partition serves one request at a time, so an operation on the      *)
(* switch is one step; a client's heal is several calls and other ports    *)
(* act between them.  Statistics and frame bytes are left out: a frame is  *)
(* its sender and its destination.                                         *)
(***************************************************************************)
EXTENDS Naturals, Sequences, FiniteSets, FiniteSetsExt, SequencesExt

CONSTANTS Vms,        \* ports
          Macs,       \* locally administered unicast addresses
          SlotCount,  \* WT_VNET_POOL_SLOTS
          Depth,      \* WT_VNET_RX_QUEUE_DEPTH
          FdbSize,    \* WT_VNET_FDB_ENTRIES
          Flood,      \* WT_VNET_UNKNOWN_UCAST_FLOOD
          GenMod,     \* values of a slot's generation, 2^16 in the code
          Timeout,    \* WT_VNET_TIMEOUT_TICKS, in steps of the clock
          MaxOutages  \* bound: restarts, refused connects and closes

VARIABLES vnic,       \* ports
          pool,       \* frame slots
          fdb,        \* forwarding table
          cl,         \* wt_vnet_psa_ctx_t of each guest
          said,       \* what the last request was told: "pool_full" or "other"
          outages

vars == <<vnic, pool, fdb, cl, said, outages>>

NoMac == "00"
Broadcast == "ff"
NoVm == "novm"
Slots == 1..SlotCount

\* vnet_mac_is_locally_administered_unicast
MayAssign(mac) == mac \in Macs

-----------------------------------------------------------------------------
(* The forwarding table, vnet_fdb.c                                        *)

NoEntry == [kind |-> "empty", mac |-> NoMac, vm |-> NoVm]
Entry(kind, mac, vm) == [kind |-> kind, mac |-> mac, vm |-> vm]

OfMac(mac) == {i \in 1..FdbSize : fdb[i].kind # "empty" /\ fdb[i].mac = mac}
AssignedTo(vm) == {i \in 1..FdbSize : fdb[i].kind = "assigned" /\ fdb[i].vm = vm}

\* fdb_find_empty, else fdb_evict_oldest_learned: where a new entry goes.
NewEntrySlots ==
  LET of(kind) == {i \in 1..FdbSize : fdb[i].kind = kind}
      from == IF of("empty") # {} THEN of("empty") ELSE of("learned")
  IN IF from = {} THEN {} ELSE {Min(from)}

Put(mac, vm, kind) ==
  LET at == IF OfMac(mac) # {} THEN OfMac(mac) ELSE NewEntrySlots
  IN [i \in 1..FdbSize |-> IF i \in at THEN Entry(kind, mac, vm) ELSE fdb[i]]

\* vnet_fdb_assign: nobody else's address, and one address per port.
MayHave(vm, mac) ==
  /\ \A i \in OfMac(mac) : fdb[i].kind = "assigned" => fdb[i].vm = vm
  /\ AssignedTo(vm) \subseteq OfMac(mac)
Room(mac) == OfMac(mac) # {} \/ NewEntrySlots # {}

\* vnet_fdb_learn, after the source check: an assigned entry stays.
Learnt(vm, mac) ==
  IF \E i \in OfMac(mac) : fdb[i].kind = "assigned" THEN fdb ELSE Put(mac, vm, "learned")

\* vnet_fdb_lookup
Lookup(mac) ==
  IF mac \in {NoMac, Broadcast} \/ OfMac(mac) = {} THEN NoVm
  ELSE fdb[Min(OfMac(mac))].vm

-----------------------------------------------------------------------------
(* The frame pool, vnet_pool.c, and the receive rings, vnet_ring.c         *)

NoFrame == [src |-> NoVm, dst |-> NoMac]

\* vnet_pool_init
FreshPool == [s \in Slots |-> [ref |-> 0, gen |-> 0, frame |-> NoFrame, age |-> 0]]

FreeSlots(p) == {s \in Slots : p[s].ref = 0}

\* vnet_pool_alloc
Allocated(p, s, frame) ==
  [p EXCEPT ![s] = [ref |-> 1, gen |-> (p[s].gen + 1) % GenMod, frame |-> frame,
                    age |-> 0]]

Ref(p, s, n) == [p EXCEPT ![s].ref = @ + n]

\* A slot without references; nobody looks at what is left in it.
Freed(p, s) == [p EXCEPT ![s] = [ref |-> 0, gen |-> @.gen, frame |-> NoFrame, age |-> 0]]

\* vnet_pool_release
Release(p, s) == IF p[s].ref = 1 THEN Freed(p, s) ELSE [p EXCEPT ![s].ref = @ - 1]

\* vnet_pool_slot: what a descriptor still names.  The frame in it is a
\* history value: what was sent.
Live(p, d) == p[d.slot].ref # 0 /\ p[d.slot].gen = d.gen

\* vnet_pool_drop_expired
Expired(p) == {s \in Slots : p[s].ref # 0 /\ p[s].age >= Timeout}
AfterExpiry(p) == [s \in Slots |-> IF s \in Expired(p) THEN Freed(p, s)[s] ELSE p[s]]

\* skip_stale_head
StaleHeads(p, q) == {n \in 0..Len(q) : \A i \in 1..n : ~Live(p, q[i])}
Skipped(p, q) == SubSeq(q, Max(StaleHeads(p, q)) + 1, Len(q))

-----------------------------------------------------------------------------
(* The switch, vnet_switch.c                                               *)

\* vnic_reset
ClosedPort == [open |-> FALSE, mac |-> NoMac, irq |-> FALSE, rxq |-> <<>>]

\* vnet_switch_init
FreshPorts == [v \in Vms |-> ClosedPort]

\* try_deliver_one: an open port with room in its ring.
CanTake(port) == port.open /\ Len(port.rxq) < Depth

\* Mutant: a frame for nobody goes to everybody.
AddresseesFlood(src, dst) ==
  IF dst = Broadcast \/ Lookup(dst) = NoVm THEN Vms \ {src} ELSE {Lookup(dst)} \ {src}

\* vnet_switch_tx: the ports a frame is for.
Addressees(src, dst) ==
  IF dst = Broadcast \/ (Lookup(dst) = NoVm /\ Flood) THEN Vms \ {src}
  ELSE {Lookup(dst)} \ {src, NoVm}

\* The port table, with the ring of each taker extended.
Delivered(vs, takers, d) ==
  [v \in Vms |-> IF v \in takers
                 THEN [vs[v] EXCEPT !.rxq = Append(@, d), !.irq = TRUE] ELSE vs[v]]

\* Each delivery takes a reference, then the sender's own is dropped.
SentPool(p, s, takers) == Release(Ref(p, s, Cardinality(takers)), s)

\* vnet_switch_tx once a slot is to be had: the ports and pool after it.
Forward(vs, p, src, frame) ==
  LET s == Min(FreeSlots(p))
      full == Allocated(p, s, frame)
      takers == IF frame.dst = NoMac THEN {}
                ELSE {v \in Addressees(src, frame.dst) : CanTake(vs[v])}
  IN [vs |-> Delivered(vs, takers, [slot |-> s, gen |-> full[s].gen, frame |-> frame]),
      p |-> SentPool(full, s, takers)]

\* Mutant: stale descriptors stay in the rings.
AfterDropKept(p) == vnic

\* vnet_switch_drop_expired
AfterDrop(p) ==
  [v \in Vms |-> LET q == Skipped(p, vnic[v].rxq)
                 IN [vnic[v] EXCEPT !.rxq = q, !.irq = IF q = <<>> THEN FALSE ELSE @]]

-----------------------------------------------------------------------------
(* The partition's operations, vnet_relay_service.c.  Each is one request  *)
(* of a guest whose connection is live; it answers told.                   *)

\* wt_vnet_relay_open
ServeOpen(v) ==
  /\ vnic' = [vnic EXCEPT ![v].open = TRUE]
  /\ UNCHANGED <<pool, fdb>>

\* vnet_switch_assign_mac
MacAccepted(v, mac) ==
  /\ vnic[v].open /\ MayAssign(mac)
  /\ vnic[v].mac \in {NoMac, mac}
  /\ MayHave(v, mac) /\ Room(mac)

\* wt_vnet_relay_set_mac
ServeSetMac(v, mac) ==
  /\ IF MacAccepted(v, mac)
     THEN /\ fdb' = Put(mac, v, "assigned")
          /\ vnic' = [vnic EXCEPT ![v].mac = mac]
     ELSE UNCHANGED <<fdb, vnic>>
  /\ UNCHANGED pool

\* vnet_switch_tx up to the pool: an open port with an address.
MaySend(v) == vnic[v].open /\ vnic[v].mac # NoMac

\* Mutant: a full pool refuses, whatever the age of the frames in it.
TxTriesOnce(p) == p

\* wt_vnet_relay_tx expires frames only when the pool is full, and then
\* tries again.
TxTries(p) == IF FreeSlots(p) = {} THEN AfterExpiry(p) ELSE p

\* wt_vnet_relay_tx of a frame that carries the port's own address.
ServeTx(v, dst, told) ==
  LET p == TxTries(pool)
      vs == IF p = pool THEN vnic ELSE AfterDrop(p)
      f == Forward(vs, p, v, [src |-> v, dst |-> dst])
  IN /\ MaySend(v)
     /\ fdb' = Learnt(v, vnic[v].mac)
     /\ IF FreeSlots(p) = {}
        THEN told = "pool_full" /\ UNCHANGED <<vnic, pool>>
        ELSE told = "other" /\ vnic' = f.vs /\ pool' = f.p

\* wt_vnet_relay_tx of a frame of a bad length or with another source
\* address, or on a port that may not send.
ServeTxRefused(v, told) == told = "other" /\ UNCHANGED <<vnic, pool, fdb>>

\* vnet_switch_release_rx and vnet_switch_poll_rx: pending while frames wait.
IrqAfter(q) == q # <<>>

\* vnet_switch_poll_rx and vnet_switch_read_rx: the ring from its first live
\* descriptor, whose frame is the one a fetch reads.
Waiting(v) == Skipped(pool, vnic[v].rxq)

\* wt_vnet_relay_rx_fetch: poll, read and release; a frame larger than the
\* guest's buffer is released as well, unread.
ServeFetch(v, told) ==
  LET q == Waiting(v)
  IN IF ~vnic[v].open THEN told = "other" /\ UNCHANGED <<vnic, pool, fdb>>
     ELSE IF q = <<>>
     THEN /\ told = "other"
          /\ vnic' = [vnic EXCEPT ![v].rxq = q, ![v].irq = FALSE]
          /\ UNCHANGED <<pool, fdb>>
     ELSE /\ told = "other"
          /\ vnic' = [vnic EXCEPT ![v].rxq = Tail(q), ![v].irq = IrqAfter(Tail(q))]
          /\ pool' = Release(pool, Head(q).slot)
          /\ UNCHANGED fdb

\* vnet_switch_irq_ack
ServeAck(v) ==
  LET q == Waiting(v)
  IN /\ vnic' = IF vnic[v].open
                THEN [vnic EXCEPT ![v].rxq = q, ![v].irq = q # <<>>] ELSE vnic
     /\ UNCHANGED <<pool, fdb>>

-----------------------------------------------------------------------------
(* The client library, vnet_psa_transport.c.  conn is "null" without a     *)
(* handle and "dead" when the partition restarted under it.  While stage   *)
(* is not "idle" the guest is inside a transmit or a fetch; which one, and *)
(* of what, is chosen when it is served: nothing before depends on it.     *)
(* The history bare says that the SPM had no message for the last SET_MAC  *)
(* of a heal (PSA_ERROR_INSUFFICIENT_MEMORY, ffm.c:1021); elsewhere such a *)
(* refusal changes nothing.                                                *)

NoClient ==
  [active |-> FALSE, mac |-> NoMac, conn |-> "null", stage |-> "idle", bare |-> FALSE]

Client(v, c) == cl' = [cl EXCEPT ![v] = c]
Idle(c) == [c EXCEPT !.stage = "idle"]
UnchangedSwitch == UNCHANGED <<vnic, pool, fdb>>

\* wt_vnet_psa_do_open: connect, refused when the SPM has no slot for it, then OPEN.
DoOpen(v, opened, refused) ==
  /\ said' = "other"
  /\ \/ /\ ServeOpen(v)
        /\ Client(v, [opened EXCEPT !.conn = "live"])
        /\ UNCHANGED outages
     \/ /\ outages < MaxOutages
        /\ outages' = outages + 1
        /\ Client(v, [refused EXCEPT !.conn = "null"])
        /\ UnchangedSwitch

\* wt_vnet_psa_open
OpenPort(v) ==
  /\ cl[v].stage = "idle"
  /\ DoOpen(v, [NoClient EXCEPT !.active = TRUE], NoClient)

\* wt_vnet_psa_set_mac: kept for the next heal when the switch took it.
SetMac(v, mac) ==
  /\ cl[v].stage = "idle" /\ cl[v].conn = "live"
  /\ ServeSetMac(v, mac)
  /\ Client(v, IF MacAccepted(v, mac) THEN [cl[v] EXCEPT !.mac = mac, !.bare = FALSE] ELSE cl[v])
  /\ said' = "other"
  /\ UNCHANGED outages

\* A transmit or a fetch on a live connection.
Served(v) ==
  /\ cl[v].conn = "live"
  /\ \/ \E dst \in Macs \cup {NoMac, Broadcast} : ServeTx(v, dst, said')
     \/ ServeTxRefused(v, said')
     \/ ServeFetch(v, said')
  /\ Client(v, Idle(cl[v]))

\* wt_vnet_psa_tx, wt_vnet_psa_rx_fetch: a dead or missing connection is
\* healed first, if the port was ever opened.
Ask(v) ==
  /\ cl[v].stage = "idle"
  /\ \/ Served(v)
     \/ /\ cl[v].conn # "live"
        /\ Client(v, IF cl[v].active THEN [cl[v] EXCEPT !.stage = "open"] ELSE cl[v])
        /\ said' = "other"
        /\ UnchangedSwitch
  /\ UNCHANGED outages

\* Mutant: a healed port is not given its address back.
AfterReopenUnbound(c) == "retry"

\* wt_vnet_psa_heal sets the address again when there was one.
AfterReopen(c) == IF c.mac # NoMac THEN "mac" ELSE "retry"

\* wt_vnet_psa_heal: close and connect again.
HealOpen(v) ==
  /\ cl[v].stage = "open"
  /\ DoOpen(v, [cl[v] EXCEPT !.stage = AfterReopen(cl[v])], Idle(cl[v]))

\* wt_vnet_psa_heal: the address; without it the request is not sent again.
HealMac(v) ==
  /\ cl[v].stage = "mac"
  /\ \/ /\ cl[v].conn = "live"
        /\ ServeSetMac(v, cl[v].mac)
        /\ Client(v, IF MacAccepted(v, cl[v].mac)
                     THEN [cl[v] EXCEPT !.stage = "retry", !.bare = FALSE] ELSE Idle(cl[v]))
     \/ UnchangedSwitch /\ Client(v, [Idle(cl[v]) EXCEPT !.bare = cl[v].conn = "live"])
  /\ said' = "other"
  /\ UNCHANGED outages

\* The one retry after a heal.
Retry(v) ==
  /\ cl[v].stage = "retry"
  /\ \/ Served(v)
     \/ /\ cl[v].conn # "live"
        /\ Client(v, Idle(cl[v]))
        /\ said' = "other"
        /\ UnchangedSwitch
  /\ UNCHANGED outages

\* WT_VNET_OP_IRQ_ACK
IrqAck(v) ==
  /\ cl[v].stage = "idle" /\ cl[v].conn = "live"
  /\ ServeAck(v)
  /\ said' = "other"
  /\ UNCHANGED <<cl, outages>>

\* wt_vnet_psa_close: the port stays open in the switch.
ClosePort(v) ==
  /\ cl[v].stage = "idle" /\ cl[v].active
  /\ outages < MaxOutages
  /\ outages' = outages + 1
  /\ Client(v, [cl[v] EXCEPT !.active = FALSE, !.conn = "null"])
  /\ said' = "other"
  /\ UnchangedSwitch

\* The SPM restarts the partition: wt_spm_vnet_entry makes a new switch
\* (wt_vnet_service_init_state) and every connection to it is dead.
Restart ==
  /\ outages < MaxOutages
  /\ outages' = outages + 1
  /\ vnic' = FreshPorts
  /\ pool' = FreshPool
  /\ fdb' = [i \in 1..FdbSize |-> NoEntry]
  /\ cl' = [v \in Vms |-> [cl[v] EXCEPT !.conn = IF @ = "live" THEN "dead" ELSE @]]
  /\ said' = "other"

\* The scheduler's clock; ages past Timeout are all alike.
Tick ==
  /\ pool' = [s \in Slots |->
                IF pool[s].ref # 0 /\ pool[s].age < Timeout
                THEN [pool[s] EXCEPT !.age = @ + 1] ELSE pool[s]]
  /\ said' = "other"
  /\ UNCHANGED <<vnic, fdb, cl, outages>>

Init ==
  /\ vnic = FreshPorts
  /\ pool = FreshPool
  /\ fdb = [i \in 1..FdbSize |-> NoEntry]
  /\ cl = [v \in Vms |-> NoClient]
  /\ said = "other"
  /\ outages = 0

Next ==
  \/ \E v \in Vms :
       \/ OpenPort(v) \/ Ask(v) \/ HealOpen(v) \/ HealMac(v) \/ Retry(v) \/ IrqAck(v) \/ ClosePort(v)
       \/ \E mac \in Macs \cup {Broadcast} : SetMac(v, mac)
  \/ Restart
  \/ Tick

Spec == Init /\ [][Next]_vars

-----------------------------------------------------------------------------
(* Properties                                                              *)

Queued(s) == {<<v, i>> \in Vms \X (1..Depth) : i <= Len(vnic[v].rxq) /\ vnic[v].rxq[i].slot = s}

\* A slot's reference count is the number of receive rings that hold its
\* frame, and a ring holds no descriptor of a frame that was freed or whose
\* slot was given to another one, in spite of expiry freeing slots under the
\* rings' feet (vnet_pool_drop_expired and skip_stale_head).
PoolAccounts ==
  /\ \A s \in Slots : pool[s].ref = Cardinality(Queued(s))
  /\ \A v \in Vms : \A d \in Range(vnic[v].rxq) :
        Live(pool, d) /\ pool[d.slot].frame = d.frame

\* The receive interrupt of a port is pending exactly while a frame waits in
\* its ring, whatever sends, fetches, acknowledgements and expiries preceded.
IrqTells == \A v \in Vms : vnic[v].irq <=> vnic[v].rxq # <<>>

\* What hangs on the receive rings agrees with them: the slots of the pool
\* (vnet_pool.c) and the interrupts (vnet_switch.c).
RingsAgree == PoolAccounts /\ IrqTells

\* A guest receives only what others sent to its own address or to all, and
\* no two ports have the same address, as the forwarding table has it.
OnlyAddressee ==
  /\ \A v \in Vms : \A d \in Range(vnic[v].rxq) :
       d.frame.src # v /\ d.frame.dst \in {vnic[v].mac, Broadcast}
  /\ \A v \in Vms : vnic[v].mac # NoMac =>
       Lookup(vnic[v].mac) = v /\ Cardinality(OfMac(vnic[v].mac)) = 1

\* A guest that holds a live connection and was once given an address has it
\* still, across restarts of the partition and its heals, unless another
\* port took the address while it was away or the SPM had no message for the
\* request that claims it again (wt_vnet_psa_heal, which does not try twice).
Rebound ==
  \A v \in Vms :
    cl[v].conn = "live" /\ cl[v].mac # NoMac /\ cl[v].stage \in {"idle", "retry"} /\ ~ cl[v].bare =>
      \/ vnic[v].open /\ vnic[v].mac = cl[v].mac
      \/ \E w \in Vms \ {v} : vnic[w].mac = cl[v].mac

\* A transmit is refused for want of a slot only when every slot holds a
\* frame younger than the timeout, so "a stalled" receiver "cannot pin the
\* shared pool and refuse every port" (vnet_relay_service.c:221).
PoolFullOnlyFresh ==
  [][said' = "pool_full" =>
       \A s \in Slots : pool[s].ref # 0 /\ pool[s].age < Timeout]_vars
=============================================================================
