-------------------------------- MODULE Ffm --------------------------------
(***************************************************************************)
(* The FF-M IPC runtime of wolfTrust (src/src/ffm.c) with its two kinds of *)
(* client: a Non-secure guest, whose connect/call/close run synchronously  *)
(* around one scheduler dispatch (src/src/arch/common/ffm_gateway.c), and  *)
(* a Secure Partition, whose connect/call/close are split into a begin and *)
(* a finish pass by the SVC gate (src/src/spm_gate.c).                     *)
(*                                                                         *)
(* What a partition does between two gate calls is left open: it may take, *)
(* answer or ignore messages, call other services, or fault, in any order. *)
(***************************************************************************)
EXTENDS Naturals, FiniteSets

CONSTANTS
    Guests,             \* Non-secure clients (negative client ids)
    Partitions,         \* Secure Partitions (positive client ids)
    Services,           \* secure functions of the manifest
    Owner,              \* Owner[s]: the partition that serves s
    Allowed,            \* <<client, service>> pairs the manifest permits
    NConns, NMsgs,      \* WT_FFM_MAX_CONNECTIONS, WT_FFM_MAX_MESSAGES
    PerClient,          \* WT_FFM_MAX_CONNECTIONS_PER_CLIENT
    NsTotal,            \* WT_FFM_MAX_NS_CONNECTIONS
    GenMax,             \* the last handle generation before the counter wraps
    GenBound,           \* bound: a slot past this generation is not reused
    HeldBound,          \* bound: unanswered message handles a partition keeps
    RestartLimit,       \* restarts a partition is granted before escalation
    None                \* no client, no service

Clients == Guests \cup Partitions
Conns == 1 .. NConns
Msgs == 1 .. NMsgs
Gens == 1 .. GenMax
NoMsg == 0

ASSUME FfmConstants ==
    /\ Guests \cap Partitions = {}
    /\ Owner \in [Services -> Partitions]
    /\ Allowed \subseteq Clients \X Services
    /\ \A s \in Services : <<Owner[s], s>> \notin Allowed
    /\ {NConns, NMsgs, PerClient, NsTotal, GenMax, GenBound, HeldBound}
           \subseteq Nat \ {0}
    /\ RestartLimit \in Nat
    /\ None \notin Clients \cup Services

VARIABLES
    conn,       \* the connection table
    msg,        \* the message table
    queue,      \* queue[s]: the messages linked into the queue of service s
    ahead,      \* ahead[m]: the messages in front of m in its queue
    asserted,   \* asserted[p]: the service signals asserted to partition p
    inst,       \* inst[p]: the running instance of partition p
    ns,         \* the message of the Non-secure request in progress, or NoMsg
    stage,      \* how far that request's scheduler dispatch is
    pend,       \* pend[p]: the message partition p is blocked on, or NoMsg
    faulted,    \* partitions marked faulted and not yet recovered
    held,       \* held[p]: messages p took and has not answered, as told by get
    open        \* open[x]: the connection handles client x was given, not closed

vars == <<conn, msg, queue, ahead, asserted, inst, ns, stage, pend,
          faulted, held, open>>

ConnStates == {"FREE", "PENDING_CONNECT", "CONNECTING", "IDLE",
               "PENDING_REQUEST", "ACTIVE", "DISCONNECTING", "ERROR", "TERMINAL"}
\* allocated, active and complete of the code: FREE is not allocated, QUEUED
\* is allocated with neither flag, and active and complete exclude each other.
Phases == {"FREE", "QUEUED", "ACTIVE", "COMPLETE"}
Types == {"CONNECT", "CALL", "DISCONNECT"}
Statuses == {"SUCCESS", "REFUSED", "PROGRAMMER_ERROR", "COMM_FAILURE"}

Connection ==
    [state : ConnStates, caller : Clients \cup {None},
     service : Services \cup {None}, gen : Gens, inst : Nat,
     latch : {0, 1}, rhandle : Nat]
Message ==
    [phase : Phases, type : Types, conn : Conns, service : Services \cup {None},
     caller : Clients \cup {None}, abandoned : {"NO", "REPLY", "CLOSE"},
     status : Statuses, gen : Gens]
Taken == [m : Msgs, gen : Gens, type : Types, conn : Conns,
          caller : Clients \cup {None}]

\* Non-secure callers have no instance number (they are all instance 0).
CallerInst(x) == IF x \in Partitions THEN inst[x] ELSE 0

NextGen(g) == IF g = GenMax THEN 1 ELSE g + 1

FreeConn(g) ==
    [state |-> "FREE", caller |-> None, service |-> None, gen |-> g,
     inst |-> 0, latch |-> 0, rhandle |-> 0]
FreeMsg(g) ==
    [phase |-> "FREE", type |-> "CALL", conn |-> 1, service |-> None,
     caller |-> None, abandoned |-> "NO", status |-> "SUCCESS", gen |-> g]

\* An entry of a table with one or two of its fields set
WithState(r, state) ==
    [state |-> state, caller |-> r.caller, service |-> r.service, gen |-> r.gen,
     inst |-> r.inst, latch |-> r.latch, rhandle |-> r.rhandle]
WithLatch(r, state) ==
    [state |-> state, caller |-> r.caller, service |-> r.service, gen |-> r.gen,
     inst |-> r.inst, latch |-> 1, rhandle |-> r.rhandle]
WithRhandle(r, state, rhandle) ==
    [state |-> state, caller |-> r.caller, service |-> r.service, gen |-> r.gen,
     inst |-> r.inst, latch |-> r.latch, rhandle |-> rhandle]
WithPhase(r, phase, status) ==
    [phase |-> phase, type |-> r.type, conn |-> r.conn, service |-> r.service,
     caller |-> r.caller, abandoned |-> r.abandoned, status |-> status,
     gen |-> r.gen]
\* Mutant of WithAbandoned: the flag is not set.
WithAbandonedLost(r, how) == r

WithAbandoned(r, how) ==
    [phase |-> r.phase, type |-> r.type, conn |-> r.conn, service |-> r.service,
     caller |-> r.caller, abandoned |-> how, status |-> r.status, gen |-> r.gen]

\* release_connection on every slot of C, release_message on every slot of M
ReleaseConns(cs, C) ==
    [c \in Conns |-> IF c \in C THEN FreeConn(NextGen(cs[c].gen)) ELSE cs[c]]
ReleaseMsgs(ms, M) ==
    [m \in Msgs |-> IF m \in M THEN FreeMsg(NextGen(ms[m].gen)) ELSE ms[m]]

TypeOK ==
    /\ conn \in [Conns -> Connection]
    /\ msg \in [Msgs -> Message]
    /\ queue \in [Services -> SUBSET Msgs]
    /\ ahead \in [Msgs -> SUBSET Msgs]
    /\ asserted \in [Partitions -> SUBSET Services]
    /\ inst \in [Partitions -> Nat]
    /\ ns \in Msgs \cup {NoMsg}
    /\ stage \in {"idle", "enter", "run", "halted"}
    /\ pend \in [Partitions -> Msgs \cup {NoMsg}]
    /\ faulted \in SUBSET Partitions
    /\ held \in [Partitions -> SUBSET Taken]
    /\ open \in [Clients -> SUBSET (Conns \X Gens)]

Init ==
    /\ conn = [c \in Conns |-> FreeConn(1)]
    /\ msg = [m \in Msgs |-> FreeMsg(1)]
    /\ queue = [s \in Services |-> {}]
    /\ ahead = [m \in Msgs |-> {}]
    /\ asserted = [p \in Partitions |-> {}]
    /\ inst = [p \in Partitions |-> 0]
    /\ ns = NoMsg
    /\ stage = "idle"
    /\ pend = [p \in Partitions |-> NoMsg]
    /\ faulted = {}
    /\ held = [p \in Partitions |-> {}]
    /\ open = [x \in Clients |-> {}]

-----------------------------------------------------------------------------
(* Tables, queues and signals *)

\* alloc_connection and alloc_message take the first free slot.
FirstFreeConn(c) ==
    /\ conn[c].state = "FREE" /\ conn[c].gen <= GenBound
    /\ \A d \in Conns : d < c => conn[d].state # "FREE"
FirstFreeMsg(m) ==
    /\ msg[m].phase = "FREE" /\ msg[m].gen <= GenBound
    /\ \A n \in Msgs : n < m => msg[n].phase # "FREE"
NoFreeMsg == \A m \in Msgs : msg[m].phase # "FREE"

ClientConns(x) == {c \in Conns : conn[c].state # "FREE" /\ conn[c].caller = x}
NsConns == {c \in Conns : conn[c].state # "FREE" /\ conn[c].caller \in Guests}

\* connection_from_handle, for a handle that carries slot c's generation
Resolves(x, c) ==
    /\ conn[c].state # "FREE"
    /\ conn[c].caller = x
    /\ conn[c].inst = CallerInst(x)

\* Mutant of MsgResolves: the generation is not compared.
MsgResolvesAnyGen(p, h) ==
    msg[h.m].phase = "ACTIVE" /\ Owner[msg[h.m].service] = p

\* message_from_handle, for a handle partition p was given by get
MsgResolves(p, h) ==
    /\ msg[h.m].phase = "ACTIVE"
    /\ msg[h.m].gen = h.gen
    /\ Owner[msg[h.m].service] = p

Enqueue(s, m) ==
    /\ queue' = [queue EXCEPT ![s] = @ \cup {m}]
    /\ ahead' = [ahead EXCEPT ![m] = queue[s]]
    /\ asserted' = [asserted EXCEPT ![Owner[s]] = @ \cup {s}]

\* update_service_signal for the services of T, once their queues are q
Resignal(sigs, q, T) ==
    [p \in Partitions |->
        {x \in sigs[p] : x \in T => q[x] # {}}
            \cup {s \in T : Owner[s] = p /\ q[s] # {}}]

\* Unlinks m, which need not be linked; the signal follows the queue.
Dequeue(s, m) ==
    /\ queue' = [queue EXCEPT ![s] = @ \ {m}]
    /\ ahead' = [n \in Msgs |-> IF n = m THEN {} ELSE ahead[n] \ {m}]
    /\ asserted' = Resignal(asserted, queue', {s})

-----------------------------------------------------------------------------
(* Requests of a client x: a guest, or a partition through the gate *)

Running(p) == stage = "run" /\ p \notin faulted /\ pend[p] = NoMsg
Executing(x) == IF x \in Partitions THEN Running(x) ELSE stage = "idle"

\* A guest waits inside the dispatch, a partition blocks on its message.
Wait(x, m) ==
    IF x \in Partitions
    THEN pend' = [pend EXCEPT ![x] = m] /\ UNCHANGED <<ns, stage>>
    ELSE ns' = m /\ stage' = "enter" /\ UNCHANGED pend

NewConn(c, x, s) ==
    [state |-> "PENDING_CONNECT", caller |-> x, service |-> s, gen |-> conn[c].gen,
     inst |-> CallerInst(x), latch |-> 0, rhandle |-> conn[c].rhandle]
NewMsg(m, x, c, s, t) ==
    [phase |-> "QUEUED", type |-> t, conn |-> c, service |-> s, caller |-> x,
     abandoned |-> "NO", status |-> "SUCCESS", gen |-> msg[m].gen]

\* Mutant of Admitted: guests may fill the pool.
AdmittedNoReserve(x, s) ==
    <<x, s>> \in Allowed /\ Cardinality(ClientConns(x)) < PerClient

Admitted(x, s) ==
    /\ <<x, s>> \in Allowed
    /\ Cardinality(ClientConns(x)) < PerClient
    /\ x \in Guests => Cardinality(NsConns) < NsTotal

Connect(x, s) ==
    /\ Executing(x) /\ Admitted(x, s)
    /\ \E c \in Conns, m \in Msgs :
        /\ FirstFreeConn(c) /\ FirstFreeMsg(m)
        /\ conn' = [conn EXCEPT ![c] = NewConn(c, x, s)]
        /\ msg' = [msg EXCEPT ![m] = NewMsg(m, x, c, s, "CONNECT")]
        /\ Enqueue(s, m) /\ Wait(x, m)
    /\ UNCHANGED <<inst, faulted, held, open>>

\* The message pool is empty: the connection slot goes back, one generation on.
ConnectNoMessage(x, s) ==
    /\ Executing(x) /\ Admitted(x, s) /\ NoFreeMsg
    /\ \E c \in Conns : FirstFreeConn(c) /\ conn' = ReleaseConns(conn, {c})
    /\ UNCHANGED <<msg, queue, ahead, asserted, inst, ns, stage, pend, faulted,
                   held, open>>

\* A guest may present any handle it can guess, a partition one it was given.
Presents(x, c) ==
    /\ Executing(x) /\ Resolves(x, c)
    /\ x \in Partitions => <<c, conn[c].gen>> \in open[x]

Call(x, c) ==
    /\ Presents(x, c) /\ conn[c].state = "IDLE"
    /\ \E m \in Msgs :
        /\ FirstFreeMsg(m)
        /\ conn' = [conn EXCEPT ![c] = WithState(@, "PENDING_REQUEST")]
        /\ msg' = [msg EXCEPT ![m] = NewMsg(m, x, c, conn[c].service, "CALL")]
        /\ Enqueue(conn[c].service, m) /\ Wait(x, m)
    /\ UNCHANGED <<inst, faulted, held, open>>

\* A call over the transfer limit: the message is taken and given back.
CallTooLarge(x, c) ==
    /\ Presents(x, c) /\ conn[c].state = "IDLE"
    /\ \E m \in Msgs : FirstFreeMsg(m) /\ msg' = ReleaseMsgs(msg, {m})
    /\ UNCHANGED <<conn, queue, ahead, asserted, inst, ns, stage, pend, faulted,
                   held, open>>

\* PROGRAMMER ERROR of the client: a malformed or busy-connection call, or one
\* whose vectors the client cannot access. A partition panics for it.
CallMisuse(x, c) ==
    /\ Presents(x, c)
    /\ \/ /\ conn' = IF conn[c].state = "IDLE"
                     THEN [conn EXCEPT ![c] = WithState(@, "ERROR")]
                     ELSE [conn EXCEPT ![c] = WithLatch(@, conn[c].state)]
          /\ UNCHANGED msg
       \/ /\ conn[c].state = "IDLE"
          /\ conn' = [conn EXCEPT ![c] = WithState(@, "ERROR")]
          /\ \E m \in Msgs : FirstFreeMsg(m) /\ msg' = ReleaseMsgs(msg, {m})
    /\ faulted' = faulted \cup ({x} \cap Partitions)
    /\ UNCHANGED <<queue, ahead, asserted, inst, ns, stage, pend, held, open>>

\* The client abandoned a request on c that its service still holds.
AbandonedOn(c) ==
    {m \in Msgs : msg[m].phase # "FREE" /\ msg[m].abandoned # "NO"
                  /\ msg[m].conn = c}
Closable(x, c) == Presents(x, c) /\ conn[c].state \in {"IDLE", "ERROR"}
Forget(x, c) == open' = [open EXCEPT ![x] = @ \ {<<c, conn[c].gen>>}]

Close(x, c) ==
    /\ Closable(x, c) /\ AbandonedOn(c) = {}
    /\ \E m \in Msgs :
        /\ FirstFreeMsg(m)
        /\ conn' = [conn EXCEPT ![c] = WithState(@, "DISCONNECTING")]
        /\ msg' = [msg EXCEPT ![m] =
                       NewMsg(m, x, c, conn[c].service, "DISCONNECT")]
        /\ Enqueue(conn[c].service, m) /\ Wait(x, m)
    /\ Forget(x, c)
    /\ UNCHANGED <<inst, faulted, held>>

CloseAbandoned(x, c) ==
    /\ Closable(x, c)
    /\ \E m \in AbandonedOn(c) :
        /\ msg' = [msg EXCEPT ![m] = WithAbandoned(@, "CLOSE")]
        /\ conn' = [conn EXCEPT ![c] = WithState(@, "DISCONNECTING")]
    /\ Forget(x, c)
    /\ UNCHANGED <<queue, ahead, asserted, inst, ns, stage, pend, faulted, held>>

\* No message to carry the disconnection: close fails, which a guest cannot
\* see (psa_close returns nothing) and a partition panics for.
CloseNoMessage(x, c) ==
    /\ Closable(x, c) /\ AbandonedOn(c) = {} /\ NoFreeMsg
    /\ Forget(x, c)
    /\ faulted' = faulted \cup ({x} \cap Partitions)
    /\ UNCHANGED <<conn, msg, queue, ahead, asserted, inst, ns, stage, pend, held>>

-----------------------------------------------------------------------------
(* The dispatch of a Non-secure request: faults left over are recovered, then *)
(* partitions run until it returns. It fails when the service did not answer  *)
(* or the scheduler gave up (ret = "ERR").                                    *)

DispatchEnter ==
    /\ stage = "enter" /\ faulted = {}
    /\ stage' = "run"
    /\ UNCHANGED <<conn, msg, queue, ahead, asserted, inst, ns, pend, faulted,
                   held, open>>

\* The scheduler returns success only when no partition is left to run.
Quiescent ==
    /\ faulted = {}
    /\ \A p \in Partitions : pend[p] # NoMsg => msg[pend[p]].phase # "COMPLETE"

DispatchOutcome(ret) ==
    /\ stage = "run" /\ ret \in {"OK", "ERR"}
    /\ ret = "OK" => Quiescent
Answered(ret) == ret = "OK" /\ msg[ns].phase = "COMPLETE"
NsIdle == ns' = NoMsg /\ stage' = "idle"

NsConnectReturn(ret) ==
    /\ DispatchOutcome(ret) /\ msg[ns].type = "CONNECT" /\ NsIdle
    /\ LET c == msg[ns].conn  x == msg[ns].caller IN
       \/ /\ Answered(ret)
          /\ msg' = ReleaseMsgs(msg, {ns})
          /\ IF msg[ns].status = "SUCCESS"
             THEN /\ open' = [open EXCEPT ![x] = @ \cup {<<c, conn[c].gen>>}]
                  /\ UNCHANGED conn
             ELSE conn' = ReleaseConns(conn, {c}) /\ UNCHANGED open
          /\ UNCHANGED <<queue, ahead, asserted>>
       \/ /\ ~Answered(ret) /\ msg[ns].phase = "ACTIVE"
          /\ msg' = [msg EXCEPT ![ns] = WithAbandoned(@, "CLOSE")]
          /\ UNCHANGED <<conn, queue, ahead, asserted, open>>
       \/ /\ ~Answered(ret) /\ msg[ns].phase # "ACTIVE"
          /\ Dequeue(msg[ns].service, ns)
          /\ msg' = ReleaseMsgs(msg, {ns})
          /\ conn' = ReleaseConns(conn, {c})
          /\ UNCHANGED open
    /\ UNCHANGED <<inst, pend, faulted, held>>

NsCallReturn(ret) ==
    /\ DispatchOutcome(ret) /\ msg[ns].type = "CALL" /\ NsIdle
    /\ LET c == msg[ns].conn IN
       \/ /\ Answered(ret)
          /\ msg' = ReleaseMsgs(msg, {ns})
          /\ \/ UNCHANGED conn
             \/ conn' = [conn EXCEPT ![c] = WithState(@, "ERROR")]  \* output unwritable
          /\ UNCHANGED <<queue, ahead, asserted>>
       \/ /\ ~Answered(ret) /\ msg[ns].phase = "ACTIVE"
          /\ conn' = [conn EXCEPT ![c] = WithLatch(@, "ERROR")]
          /\ msg' = [msg EXCEPT ![ns] = WithAbandoned(@, "REPLY")]
          /\ UNCHANGED <<queue, ahead, asserted>>
       \/ /\ ~Answered(ret) /\ msg[ns].phase # "ACTIVE"
          /\ conn' = [conn EXCEPT ![c] = WithState(@, "ERROR")]
          /\ Dequeue(msg[ns].service, ns)
          /\ msg' = ReleaseMsgs(msg, {ns})
    /\ UNCHANGED <<inst, pend, faulted, held, open>>

NsCloseReturn(ret) ==
    /\ DispatchOutcome(ret) /\ msg[ns].type = "DISCONNECT" /\ NsIdle
    /\ \/ /\ Answered(ret)
          /\ msg' = ReleaseMsgs(msg, {ns})
          /\ conn' = ReleaseConns(conn, {msg[ns].conn})
          /\ UNCHANGED <<queue, ahead, asserted>>
       \/ /\ ~Answered(ret) /\ msg[ns].phase = "ACTIVE"
          /\ msg' = [msg EXCEPT ![ns] = WithAbandoned(@, "CLOSE")]
          /\ UNCHANGED <<conn, queue, ahead, asserted>>
       \/ /\ ~Answered(ret) /\ msg[ns].phase # "ACTIVE"
          /\ Dequeue(msg[ns].service, ns)
          /\ msg' = ReleaseMsgs(msg, {ns})
          /\ UNCHANGED conn
    /\ UNCHANGED <<inst, pend, faulted, held, open>>

-----------------------------------------------------------------------------
(* A partition as a client: the finish pass, once its message is complete *)

Finishing(p) ==
    /\ stage = "run" /\ p \notin faulted /\ pend[p] # NoMsg
    /\ msg[pend[p]].phase = "COMPLETE"
    /\ pend' = [pend EXCEPT ![p] = NoMsg]
    /\ msg' = ReleaseMsgs(msg, {pend[p]})
    /\ UNCHANGED <<queue, ahead, asserted, inst, ns, stage, held>>

SpConnectFinish(p) ==
    /\ Finishing(p) /\ msg[pend[p]].type = "CONNECT"
    /\ LET c == msg[pend[p]].conn IN
       IF msg[pend[p]].status = "SUCCESS"
       THEN /\ open' = [open EXCEPT ![p] = @ \cup {<<c, conn[c].gen>>}]
            /\ UNCHANGED conn
       ELSE conn' = ReleaseConns(conn, {c}) /\ UNCHANGED open
    /\ UNCHANGED faulted

\* Unwritable output or a PROGRAMMER_ERROR answer panics the partition.
SpCallFinish(p) ==
    /\ Finishing(p) /\ msg[pend[p]].type = "CALL"
    /\ \/ /\ UNCHANGED conn
          /\ faulted' = faulted \cup
                 (IF msg[pend[p]].status = "PROGRAMMER_ERROR" THEN {p} ELSE {})
       \/ /\ conn' = [conn EXCEPT ![msg[pend[p]].conn] =
                                WithState(@, "ERROR")]
          /\ faulted' = faulted \cup {p}
    /\ UNCHANGED open

SpCloseFinish(p) ==
    /\ Finishing(p) /\ msg[pend[p]].type = "DISCONNECT"
    /\ conn' = ReleaseConns(conn, {msg[pend[p]].conn})
    /\ UNCHANGED <<faulted, open>>

-----------------------------------------------------------------------------
(* A partition as a server *)

Get(p, s) ==
    /\ Running(p) /\ Owner[s] = p /\ Cardinality(held[p]) < HeldBound
    /\ \E m \in queue[s] :
        LET c == msg[m].conn IN
        /\ ahead[m] = {}
        /\ Dequeue(s, m)
        /\ msg' = [msg EXCEPT ![m] = WithPhase(@, "ACTIVE", @.status)]
        /\ conn' = [conn EXCEPT ![c] = WithState(@,
                        IF msg[m].type = "CONNECT" THEN "CONNECTING"
                        ELSE IF msg[m].type = "CALL" THEN "ACTIVE" ELSE @.state)]
        /\ held' = [held EXCEPT ![p] = @ \cup
                        {[m |-> m, gen |-> msg[m].gen, type |-> msg[m].type,
                          conn |-> c, caller |-> msg[m].caller]}]
    /\ UNCHANGED <<inst, ns, stage, pend, faulted, open>>

\* The reverse handle a service keeps on a connection is a pointer into its own
\* memory: it is identified by the instance that set it.
SetRhandle(p, h) ==
    /\ Running(p) /\ h \in held[p] /\ MsgResolves(p, h)
    /\ msg[h.m].type # "DISCONNECT"
    /\ conn' = [conn EXCEPT ![msg[h.m].conn] =
                    WithRhandle(@, @.state, inst[p] + 1)]
    /\ UNCHANGED <<msg, queue, ahead, asserted, inst, ns, stage, pend, faulted,
                   held, open>>

ReplyStatuses(t) ==
    {"SUCCESS"} \cup (IF t = "CONNECT" THEN {"REFUSED"} ELSE {})
                \cup (IF t = "CALL" THEN {"PROGRAMMER_ERROR"} ELSE {})

\* Mutant of StateAfterReply: a latched client error is forgotten.
StateAfterReplyNoLatch(t, status, latch) ==
    IF t = "DISCONNECT" THEN "TERMINAL"
    ELSE IF status # "SUCCESS" THEN "ERROR" ELSE "IDLE"

StateAfterReply(t, status, latch) ==
    IF t = "DISCONNECT" THEN "TERMINAL"
    ELSE IF status # "SUCCESS" \/ (t = "CALL" /\ latch = 1) THEN "ERROR"
    ELSE "IDLE"

\* The service must still be told to drop the connection of an abandoned
\* request: it accepted a connect, or the client closed during the call.
OwesDisconnect(m, status) ==
    \/ msg[m].type = "CONNECT" /\ status = "SUCCESS"
    \/ msg[m].type = "CALL" /\ msg[m].abandoned = "CLOSE"

Reply(p, h, status) ==
    LET m == h.m
        c == msg[m].conn
        replied == [conn EXCEPT ![c] =
            WithState(@, StateAfterReply(msg[m].type, status, conn[c].latch))]
    IN
    /\ Running(p) /\ h \in held[p] /\ MsgResolves(p, h)
    /\ status \in ReplyStatuses(msg[m].type)
    /\ \/ /\ msg[m].abandoned = "NO"
          /\ conn' = replied
          /\ msg' = [msg EXCEPT ![m] = WithPhase(@, "COMPLETE", status)]
          /\ UNCHANGED <<queue, ahead, asserted>>
       \/ /\ msg[m].abandoned # "NO" /\ OwesDisconnect(m, status)
          /\ conn' = [conn EXCEPT ![c] = WithState(@, "DISCONNECTING")]
          /\ msg' = [msg EXCEPT ![m] =
                 [phase |-> "QUEUED", type |-> "DISCONNECT", conn |-> c,
                  service |-> conn[c].service, caller |-> conn[c].caller,
                  abandoned |-> "CLOSE", status |-> "SUCCESS",
                  gen |-> NextGen(msg[m].gen)]]
          /\ Enqueue(conn[c].service, m)
       \/ /\ msg[m].abandoned # "NO" /\ ~OwesDisconnect(m, status)
          /\ conn' = IF msg[m].type = "CALL" THEN replied
                     ELSE ReleaseConns(conn, {c})
          /\ msg' = ReleaseMsgs(msg, {m})
          /\ UNCHANGED <<queue, ahead, asserted>>
    /\ held' = [held EXCEPT ![p] = @ \ {h}]
    /\ UNCHANGED <<inst, ns, stage, pend, faulted, open>>

-----------------------------------------------------------------------------
(* Faults of partitions, and clients that terminate *)

\* A partition faults on its own, or panics on an invalid gate call.
Fault(p) ==
    /\ Running(p)
    /\ faulted' = faulted \cup {p}
    /\ UNCHANGED <<conn, msg, queue, ahead, asserted, inst, ns, stage, pend, held,
                   open>>

MsgsOf(x) == {m \in Msgs : msg[m].phase # "FREE" /\ msg[m].caller = x}
ServedBy(p) ==
    {m \in Msgs : msg[m].phase \in {"QUEUED", "ACTIVE"} /\ Owner[msg[m].service] = p}

\* fail_client_connections unlinks what its client queued; fail_partition_messages
\* (D, the services of the dead partition) empties the whole queue.
Unlink(x, D) ==
    LET gone == {m \in MsgsOf(x) : msg[m].phase = "QUEUED"}
                    \cup UNION {queue[s] : s \in D}
    IN /\ queue' = [s \in Services |-> IF s \in D THEN {} ELSE queue[s] \ gone]
       /\ ahead' = [n \in Msgs |-> IF n \in gone THEN {} ELSE ahead[n] \ gone]

\* Mutants of Break: the reverse handle survives, or the connection is released.
BreakKeepsRhandle(c) == WithState(conn[c], "ERROR")
\* A connection whose server died.
Break(c) == WithRhandle(conn[c], "ERROR", 0)

\* partition_restarted, then the restart decision: messages of the dead instance
\* as a server complete with an error (abandoned ones are dropped), connections
\* to it break, and what it held as a client is released.
Recover(p) ==
    LET served == ServedBy(p)
        dropped == {m \in served : msg[m].abandoned # "NO"}
        closed == {msg[m].conn : m \in {n \in served : msg[n].abandoned = "CLOSE"}}
        touched == {msg[m].service : m \in {n \in MsgsOf(p) : msg[n].phase = "QUEUED"}}
    IN
    /\ stage \in {"enter", "run"} /\ p \in faulted
    /\ msg' = [m \in Msgs |->
           IF m \in dropped \cup MsgsOf(p) THEN FreeMsg(NextGen(msg[m].gen))
           ELSE IF m \in served
           THEN WithPhase(msg[m], "COMPLETE", "COMM_FAILURE")
           ELSE msg[m]]
    /\ conn' = [c \in Conns |->
           IF c \in closed \cup ClientConns(p) THEN FreeConn(NextGen(conn[c].gen))
           ELSE IF conn[c].state \notin {"FREE", "TERMINAL"}
                   /\ Owner[conn[c].service] = p
           THEN Break(c)
           ELSE conn[c]]
    /\ Unlink(p, {s \in Services : Owner[s] = p})
    /\ asserted' = [Resignal(asserted, queue', touched) EXCEPT ![p] = {}]
    /\ inst' = [inst EXCEPT ![p] = @ + 1]
    /\ stage' = IF inst[p] = RestartLimit THEN "halted" ELSE stage
    /\ pend' = [pend EXCEPT ![p] = NoMsg]
    /\ faulted' = faulted \ {p}
    /\ held' = [held EXCEPT ![p] = {}]
    /\ open' = [open EXCEPT ![p] = {}]
    /\ UNCHANGED ns

\* A guest faults or is quarantined: nothing will ever close its handles.
GuestTerminate(g) ==
    /\ stage = "idle"
    /\ msg' = ReleaseMsgs(msg, MsgsOf(g))
    /\ conn' = ReleaseConns(conn, ClientConns(g))
    /\ Unlink(g, {})
    /\ asserted' = Resignal(asserted, queue',
           {msg[m].service : m \in {n \in MsgsOf(g) : msg[n].phase = "QUEUED"}})
    /\ open' = [open EXCEPT ![g] = {}]
    /\ UNCHANGED <<inst, ns, stage, pend, faulted, held>>

-----------------------------------------------------------------------------

ClientStep(x) ==
    \/ \E s \in Services : Connect(x, s) \/ ConnectNoMessage(x, s)
    \/ \E c \in Conns : \/ Call(x, c) \/ CallTooLarge(x, c) \/ CallMisuse(x, c)
                        \/ Close(x, c) \/ CloseAbandoned(x, c)
                        \/ CloseNoMessage(x, c)

NsReturn == \E ret \in {"OK", "ERR"} :
    NsConnectReturn(ret) \/ NsCallReturn(ret) \/ NsCloseReturn(ret)

ServerStep(p) ==
    \/ \E s \in Services : Get(p, s)
    \/ \E h \in held[p] : \/ SetRhandle(p, h)
                          \/ \E status \in Statuses : Reply(p, h, status)

PartitionStep(p) ==
    \/ SpConnectFinish(p) \/ SpCallFinish(p) \/ SpCloseFinish(p)
    \/ ServerStep(p) \/ Fault(p) \/ Recover(p)

Next ==
    \/ \E x \in Clients : ClientStep(x)
    \/ DispatchEnter \/ NsReturn
    \/ \E p \in Partitions : PartitionStep(p)
    \/ \E g \in Guests : GuestTerminate(g)

Spec == Init /\ [][Next]_vars

-----------------------------------------------------------------------------
(* Properties *)

\* A service queue holds exactly the messages that are waiting to be taken:
\* no released slot stays linked (it would alias the next request that reuses
\* it) and no waiting message is lost, whatever refusals, faults and client
\* terminations unlink.
QueueOK ==
    \A s \in Services :
        queue[s] = {m \in Msgs : msg[m].phase = "QUEUED" /\ msg[m].service = s}

\* A service's signal is asserted exactly while its queue is not empty, so a
\* partition neither sleeps on queued work nor wakes for work that is gone.
SignalOK ==
    \A s \in Services : s \in asserted[Owner[s]] <=> queue[s] # {}

\* Every message in use rides on a connection in use that belongs to the same
\* client and service: a reply never lands on a connection that was released
\* and handed to another client.
MsgConnOK ==
    \A m \in Msgs : msg[m].phase # "FREE" =>
        LET c == conn[msg[m].conn] IN
        /\ c.state # "FREE"
        /\ c.caller = msg[m].caller
        /\ c.service = msg[m].service

\* A connection carries at most one message at a time, abandoned and deferred
\* ones included.
OneInFlight ==
    \A m, n \in Msgs :
        msg[m].phase # "FREE" /\ msg[n].phase # "FREE" /\ msg[m].conn = msg[n].conn
            => m = n

\* The states of a connection that carries a message of type t, in phase ph
Fits(ph, t, abandoned, st) ==
    /\ ph = "QUEUED" =>
         \/ t = "CONNECT" /\ st = "PENDING_CONNECT"
         \/ t = "CALL" /\ st = "PENDING_REQUEST"
         \/ t = "DISCONNECT" /\ st = "DISCONNECTING"
    /\ ph = "ACTIVE" =>
         \/ t = "CONNECT" /\ st = "CONNECTING"
         \/ t = "CALL" /\ abandoned = "NO" /\ st = "ACTIVE"
         \/ t = "CALL" /\ abandoned = "REPLY" /\ st = "ERROR"
         \/ t = "CALL" /\ abandoned = "CLOSE" /\ st = "DISCONNECTING"
         \/ t = "DISCONNECT" /\ st = "DISCONNECTING"
    /\ ph = "COMPLETE" =>
         \/ st = "ERROR"
         \/ t = "DISCONNECT" /\ st = "TERMINAL"
         \/ t # "DISCONNECT" /\ st = "IDLE"

StateFits(m) ==
    Fits(msg[m].phase, msg[m].type, msg[m].abandoned, conn[msg[m].conn].state)

Waiting == {"PENDING_CONNECT", "CONNECTING", "PENDING_REQUEST", "ACTIVE"}

\* The state of a connection and the message it carries agree, through late
\* replies, deferred disconnections and restarts, and a connection that is
\* waiting for its service always has the message the service will answer.
StateOK ==
    /\ \A m \in Msgs : StateFits(m)
    /\ \A c \in Conns : conn[c].state \in Waiting =>
           \E m \in Msgs : msg[m].phase # "FREE" /\ msg[m].conn = c

\* Every message in use has someone who will free it: the guest inside its
\* dispatch, the partition blocked on it, or, once abandoned by a guest, the
\* service that answers it. In particular a blocked partition's message is
\* never freed under it, and the finish pass never meets another's message.
MsgOwnerOK ==
    /\ \A m \in Msgs : msg[m].phase # "FREE" =>
           IF msg[m].abandoned = "NO"
           THEN IF msg[m].caller \in Partitions
                THEN pend[msg[m].caller] = m ELSE ns = m
           ELSE /\ msg[m].caller \in Guests /\ ns # m
                /\ \/ msg[m].phase = "ACTIVE"
                   \/ msg[m].phase = "QUEUED" /\ msg[m].type = "DISCONNECT"
    /\ ns # NoMsg => /\ msg[ns].phase # "FREE"
                     /\ msg[ns].caller \in Guests
    /\ \A p \in Partitions : pend[p] # NoMsg =>
           /\ msg[pend[p]].phase # "FREE"
           /\ msg[pend[p]].caller = p

\* A connection handle stays good from the connect that returned it until its
\* client closes it or terminates: neither a server's restart nor any other
\* client's step releases or recycles the connection under it.
OpenHandlesOK ==
    \A x \in Clients : \A h \in open[x] :
        Resolves(x, h[1]) /\ conn[h[1]].gen = h[2]

\* A service instance is only ever given a reverse handle it set itself: a
\* restarted partition never receives a pointer into its scrubbed memory.
RhandleFresh ==
    \A c \in Conns :
        conn[c].state \notin {"FREE", "TERMINAL"} /\ conn[c].rhandle # 0
            => conn[c].rhandle = inst[Owner[conn[c].service]] + 1

\* While a message handle a service took still resolves, it means the request
\* the service was told of: a slot recycled after its client terminated, or
\* reused for a deferred disconnection, never answers to the old handle.
HeldHandlesOK ==
    \A p \in Partitions : \A h \in held[p] : MsgResolves(p, h) =>
        /\ msg[h.m].type = h.type
        /\ msg[h.m].conn = h.conn
        /\ msg[h.m].caller = h.caller

\* Guests alone can never keep a partition from connecting: while partitions
\* use less than their reserve of the pool, a slot is free.
SecureReserve ==
    Cardinality({c \in Conns : conn[c].caller \in Partitions}) < NConns - NsTotal
        => \E c \in Conns : conn[c].state = "FREE"

\* A connection in the error state is never used again: until it is released it
\* can only be closed, and a late reply of its service does not revive it.
ErrorSticky ==
    [][\A c \in Conns : conn[c].state = "ERROR" =>
           conn'[c].state \in {"ERROR", "DISCONNECTING", "FREE"}]_vars

\* The bookkeeping of requests holds together in every reachable state, through
\* abandoned requests, late answers, deferred disconnections, restarts and
\* terminations (wt_ffm_connect, wt_ffm_call, wt_ffm_close, wt_ffm_reply and the
\* two failure passes): queues, signals, messages and connections agree.
RequestsOK ==
    /\ TypeOK
    /\ QueueOK
    /\ SignalOK
    /\ MsgConnOK
    /\ OneInFlight
    /\ StateOK
    /\ MsgOwnerOK

\* Below the wrap-around of the generations no handle that a client or a service
\* keeps comes to name another connection or request
\* (wt_ffm_connection_from_handle, wt_ffm_message_from_handle).
HandlesOK ==
    /\ OpenHandlesOK
    /\ HeldHandlesOK

=============================================================================
