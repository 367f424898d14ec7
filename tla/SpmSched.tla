------------------------------ MODULE SpmSched ------------------------------
(* The scheduler of Secure Partitions: coroutines (src/src/sched/coroutine.c),
   the NVM mutex (src/src/sync/mutex.c), the dispatch loop and the recovery of
   faulted partitions (src/src/arch/common/spm_gate_core.c, sp_recovery.c).

   One core runs either the bootstrap context, which executes the dispatch
   loop, or the one coroutine it switched to, which runs until it blocks in a
   gated call or faults. What a partition's own code does between its gated
   calls is arbitrary. *)
EXTENDS Integers, Sequences, FiniteSets

CONSTANTS NSps,          \* scheduled partitions, in the order of g_spm_sp
          Deps,          \* Deps[p]: the partitions whose services p may call
          LockUsers,     \* partitions the gate lets use the NVM lock
          RestartLimit,  \* restarts in one window (0 would mean no limit)
          PassLimit      \* passes of one dispatch before it gives up

Sps == 1 .. NSps
None == 0                \* no coroutine; as a client: the guest being served
Clients == Sps \cup {None}

ASSUME SchedConstants ==
    /\ NSps \in Nat \ {0} /\ RestartLimit \in Nat \ {0} /\ PassLimit \in Nat
    /\ Deps \in [Sps -> SUBSET Sps]
    /\ LockUsers \subseteq Sps

VARIABLES
    co,          \* coroutines: state[p], the run queue, the latched wakes
    current,     \* g_wt_co_current, None for the bootstrap
    kind,        \* kind[p]: what p recorded it is waiting for
    mutex,       \* the NVM mutex: its holder and its wait queue
    queued,      \* queued[p]: clients whose request is queued for p
    active,      \* active[p]: clients whose request p has taken
    done,        \* clients whose request is complete
    pending,     \* partitions with fault_pending set
    restarts,    \* restarts[p]: restart_count of p
    disp,        \* progress of wt_spm_sched_dispatch
    inside       \* partitions that were told they own the lock (history)

reqVars == <<queued, active, done>>
vars == <<co, current, kind, mutex, reqVars, pending, restarts, disp, inside>>

CoStates == {"RUNNABLE", "RUNNING", "BLOCKED", "FAULTED"}

Coroutines == [state : [Sps -> CoStates], runq : Seq(Sps), latched : SUBSET Sps]

Mutex == [holder : Clients, waitq : Seq(Sps)]

\* at: where the loop is; target: the partition the guest called; next: the
\* next slot of the pass; progressed, passes: the loop's variables.
Dispatch ==
    [at : {"idle", "failed", "halted", "settle", "first", "resettle", "scan"},
     target : Clients, next : 1 .. NSps + 1, progressed : BOOLEAN,
     passes : 0 .. PassLimit]

TypeOK ==
    /\ co \in Coroutines /\ mutex \in Mutex /\ disp \in Dispatch
    /\ current \in Clients
    /\ kind \in [Sps -> {"NONE", "SIG", "MSG", "LOCK"}]
    /\ queued \in [Sps -> SUBSET Clients] /\ active \in [Sps -> SUBSET Clients]
    /\ done \subseteq Clients
    /\ pending \subseteq Sps /\ inside \subseteq Sps
    /\ restarts \in [Sps -> 0 .. RestartLimit]

Init ==
    /\ co = [state |-> [p \in Sps |-> "BLOCKED"], runq |-> <<>>, latched |-> {}]
    /\ current = None /\ kind = [p \in Sps |-> "NONE"]
    /\ mutex = [holder |-> None, waitq |-> <<>>]
    /\ queued = [p \in Sps |-> {}] /\ active = [p \in Sps |-> {}] /\ done = {}
    /\ pending = {} /\ restarts = [p \in Sps |-> 0] /\ inside = {}
    /\ disp = [at |-> "idle", target |-> None, next |-> 1, progressed |-> FALSE,
               passes |-> 0]

-----------------------------------------------------------------------------
(* Coroutines *)

\* x is linked in queue q; no element is linked twice.
On(q, x) == \E i \in 1 .. Len(q) : q[i] = x
Simple(q) == \A i, j \in 1 .. Len(q) : q[i] = q[j] => i = j

\* A singly linked queue without the first element that is p.
Without(q, p) ==
    IF ~On(q, p) THEN q
    ELSE LET i == CHOOSE i \in 1 .. Len(q) :
                      q[i] = p /\ \A j \in 1 .. i - 1 : q[j] # p
         IN [j \in 1 .. Len(q) - 1 |-> IF j < i THEN q[j] ELSE q[j + 1]]

Coroutine(state, runq, latched) ==
    [state |-> state, runq |-> runq, latched |-> latched]

\* wt_co_wake(p): a blocked coroutine becomes runnable, an active one is latched,
\* a faulted one is left alone.
Woken(c, p) ==
    IF p = None THEN c
    ELSE IF c.state[p] = "BLOCKED"
    THEN Coroutine([c.state EXCEPT ![p] = "RUNNABLE"], Append(c.runq, p),
                   c.latched \ {p})
    ELSE IF c.state[p] = "FAULTED" THEN c
    ELSE Coroutine(c.state, c.runq, c.latched \cup {p})

\* wt_co_run(p)
Switched(c, p) ==
    Coroutine([c.state EXCEPT ![p] = "RUNNING"], Without(c.runq, p), c.latched)

\* wt_co_mark_faulted(p)
Marked(c, p) ==
    Coroutine([c.state EXCEPT ![p] = "FAULTED"], Without(c.runq, p), c.latched)

\* wt_co_reinit(p)
Rearmed(c, p) ==
    Coroutine([c.state EXCEPT ![p] = "BLOCKED"], Without(c.runq, p), c.latched \ {p})

\* wt_spm_run_co(p): wake p if it is blocked, then switch to it.
RunCo(p) ==
    /\ co' = Switched(IF co.state[p] = "BLOCKED" THEN Woken(co, p) ELSE co, p)
    /\ current' = p

\* wt_co_block: back to the bootstrap.
Block(p) ==
    /\ co' = Coroutine([co.state EXCEPT ![p] = "BLOCKED"], co.runq, co.latched)
    /\ current' = None

-----------------------------------------------------------------------------
(* Gated calls of the running partition p *)

\* psa_wait for all of p's services, first issue or re-issue after a wake: nothing
\* is asserted, ...
WaitBlocks(p) ==
    /\ current = p /\ kind[p] \in {"NONE", "SIG"} /\ queued[p] = {}
    /\ kind' = [kind EXCEPT ![p] = "SIG"]
    /\ Block(p)
    /\ UNCHANGED <<mutex, reqVars, pending, restarts, disp, inside>>

\* ... or a service signal is.
WaitReady(p) ==
    /\ current = p /\ kind[p] = "SIG" /\ queued[p] # {}
    /\ kind' = [kind EXCEPT ![p] = "NONE"]
    /\ UNCHANGED <<co, current, mutex, reqVars, pending, restarts, disp, inside>>

\* psa_get
Get(p, c) ==
    /\ current = p /\ kind[p] = "NONE" /\ c \in queued[p]
    /\ queued' = [queued EXCEPT ![p] = @ \ {c}]
    /\ active' = [active EXCEPT ![p] = @ \cup {c}]
    /\ UNCHANGED <<co, current, kind, mutex, done, pending, restarts, disp, inside>>

\* psa_reply
Reply(p, c) ==
    /\ current = p /\ kind[p] = "NONE" /\ c \in active[p]
    /\ active' = [active EXCEPT ![p] = @ \ {c}]
    /\ done' = done \cup {c}
    /\ UNCHANGED <<co, current, kind, mutex, queued, pending, restarts, disp, inside>>

\* psa_connect, psa_call or psa_close of a partition: post and block.
Call(p, q) ==
    /\ current = p /\ kind[p] = "NONE" /\ q \in Deps[p]
    /\ queued' = [queued EXCEPT ![q] = @ \cup {p}]
    /\ kind' = [kind EXCEPT ![p] = "MSG"]
    /\ Block(p)
    /\ UNCHANGED <<mutex, active, done, pending, restarts, disp, inside>>

\* The re-issue after a wake: finish if the request is complete ...
CallFinish(p) ==
    /\ current = p /\ kind[p] = "MSG" /\ p \in done
    /\ done' = done \ {p}
    /\ kind' = [kind EXCEPT ![p] = "NONE"]
    /\ UNCHANGED <<co, current, mutex, queued, active, pending, restarts, disp, inside>>

\* ... and block again if the wake was for something else.
CallStill(p) ==
    /\ current = p /\ kind[p] = "MSG" /\ p \notin done
    /\ Block(p)
    /\ UNCHANGED <<kind, mutex, reqVars, pending, restarts, disp, inside>>

Mutexed(holder, waitq) == [holder |-> holder, waitq |-> waitq]

\* wt_mutex_acquire_queued: free, or already handed to p, ...
LockTake(p) ==
    /\ current = p /\ kind[p] \in {"NONE", "LOCK"} /\ p \in LockUsers
    /\ mutex.holder \in {None, p}
    /\ mutex' = Mutexed(p, mutex.waitq)
    /\ kind' = [kind EXCEPT ![p] = "NONE"]
    /\ inside' = inside \cup {p}
    /\ UNCHANGED <<co, current, reqVars, pending, restarts, disp>>

\* The wait queue with p at its end, unless p is in it already.
Enqueued(q, p) == IF On(q, p) THEN q ELSE Append(q, p)

\* ... or held by another partition: queue up and block.
LockBlocks(p) ==
    /\ current = p /\ kind[p] \in {"NONE", "LOCK"} /\ p \in LockUsers
    /\ mutex.holder \notin {None, p}
    /\ mutex' = Mutexed(mutex.holder, Enqueued(mutex.waitq, p))
    /\ kind' = [kind EXCEPT ![p] = "LOCK"]
    /\ Block(p)
    /\ UNCHANGED <<reqVars, pending, restarts, disp, inside>>

\* The first waiter, and the mutex handed to it (or free).
Heir(m) == IF m.waitq = <<>> THEN None ELSE Head(m.waitq)

HandedOver(m) ==
    IF m.waitq = <<>> THEN Mutexed(None, m.waitq)
    ELSE Mutexed(Head(m.waitq), Tail(m.waitq))

\* wt_mutex_release; the call of a partition that is not the holder fails.
LockRelease(p) ==
    /\ current = p /\ kind[p] = "NONE" /\ mutex.holder = p
    /\ mutex' = HandedOver(mutex)
    /\ co' = Woken(co, Heir(mutex))
    /\ inside' = inside \ {p}
    /\ UNCHANGED <<current, kind, reqVars, pending, restarts, disp>>

\* wt_spm_sp_fault: anywhere in the partition's code, the re-issue included.
Fault(p) ==
    /\ current = p
    /\ co' = Marked(co, p)
    /\ current' = None
    /\ pending' = pending \cup {p}
    /\ inside' = inside \ {p}
    /\ UNCHANGED <<kind, mutex, reqVars, restarts, disp>>

-----------------------------------------------------------------------------
(* The bootstrap context: recovery and the dispatch loop *)

At(at) == [at |-> at, target |-> disp.target, next |-> 1, progressed |-> FALSE,
           passes |-> disp.passes]

Settling == current = None /\ disp.at \in {"settle", "resettle"}

\* wt_mutex_release_if_holder, then wt_mutex_remove_waiter
LocksReleased(p) ==
    LET m == IF mutex.holder = p THEN HandedOver(mutex) ELSE mutex
    IN Mutexed(m.holder, Without(m.waitq, p))

\* MUTANT: the next holder is not woken.
CoReleasedAsleep(p) == co

\* The coroutines after the lock of p was handed over
CoReleased(p) == IF mutex.holder = p THEN Woken(co, Heir(mutex)) ELSE co

\* MUTANT: only the requests p had not taken yet are failed.
FailMessagesQueued(p) ==
    /\ queued' = [q \in Sps |-> IF q = p THEN {} ELSE queued[q] \ {p}]
    /\ active' = [q \in Sps |-> IF q = p THEN {} ELSE active[q] \ {p}]
    /\ done' = (done \cup queued[p]) \ {p}

\* wt_ffm_partition_restarted: the requests p serves are complete with an error,
\* the request p had with another partition is withdrawn.
FailMessages(p) ==
    /\ queued' = [q \in Sps |-> IF q = p THEN {} ELSE queued[q] \ {p}]
    /\ active' = [q \in Sps |-> IF q = p THEN {} ELSE active[q] \ {p}]
    /\ done' = (done \cup queued[p] \cup active[p]) \ {p}

\* wt_spm_recover_faulted repairs the slots in table order.
Recovers(p) == Settling /\ p \in pending /\ \A q \in pending : p <= q

\* The restart policy: n restarts so far in this window.
InBudget(n) == n < RestartLimit

\* restart_count when p's fault is judged: the window may be over by then.
Counted(p, over) == IF over THEN 0 ELSE restarts[p]

\* wt_sp_recovery_run within the budget: locks, messages, then re-arm.
Recover(p, over) ==
    /\ Recovers(p) /\ InBudget(Counted(p, over))
    /\ mutex' = LocksReleased(p)
    /\ FailMessages(p)
    /\ co' = Rearmed(CoReleased(p), p)
    /\ kind' = [kind EXCEPT ![p] = "NONE"]
    /\ restarts' = [restarts EXCEPT ![p] = Counted(p, over) + 1]
    /\ pending' = pending \ {p}
    /\ UNCHANGED <<current, disp, inside>>

\* The budget is spent, the manifest forbids a restart, or the re-arm failed (an
\* interrupt or the domain's data cannot be set up): the platform stops for good.
Escalate(p) ==
    /\ Recovers(p)
    /\ mutex' = LocksReleased(p)
    /\ FailMessages(p)
    /\ co' = CoReleased(p)
    /\ pending' = pending \ {p}
    /\ disp' = At("halted")
    /\ UNCHANGED <<current, kind, restarts, inside>>

\* A guest's request for a service of t, and the dispatch it starts.
Post(t) ==
    /\ disp.at \in {"idle", "failed"}
    /\ queued' = [queued EXCEPT ![t] = @ \cup {None}]
    /\ disp' = [at |-> "settle", target |-> t, next |-> 1, progressed |-> FALSE,
                passes |-> 0]
    /\ UNCHANGED <<co, current, kind, mutex, active, done, pending, restarts, inside>>

\* The dispatch returns: what became of the request, wt_ffm_dispatch_message's
\* caller withdraws or abandons it.
Return(outcome) ==
    /\ disp' = At(outcome)
    /\ queued' = [queued EXCEPT ![disp.target] = @ \ {None}]
    /\ active' = [active EXCEPT ![disp.target] = @ \ {None}]
    /\ done' = done \ {None}

Settled ==
    /\ Settling /\ disp.at = "settle" /\ pending = {}
    /\ IF co.state[disp.target] = "FAULTED"
       THEN Return("failed") /\ UNCHANGED <<co, current>>
       ELSE RunCo(disp.target) /\ disp' = At("first") /\ UNCHANGED reqVars
    /\ UNCHANGED <<kind, mutex, pending, restarts, inside>>

FirstRan ==
    /\ disp.at = "first" /\ current = None
    /\ disp' = At("resettle")
    /\ UNCHANGED <<co, current, kind, mutex, reqVars, pending, restarts, inside>>

PassStart ==
    /\ Settling /\ disp.at = "resettle" /\ pending = {}
    /\ disp' = At("scan")
    /\ UNCHANGED <<co, current, kind, mutex, reqVars, pending, restarts, inside>>

\* wt_spm_slot_ready
Ready(p) == IF kind[p] = "MSG" THEN p \in done
            ELSE kind[p] # "LOCK" /\ queued[p] # {}

Runnable(p) == \/ co.state[p] = "RUNNABLE"
               \/ co.state[p] = "BLOCKED" /\ Ready(p)

\* One pass visits the slots in table order and runs each one that can go on.
ScanRun(p) ==
    /\ disp.at = "scan" /\ current = None
    /\ p >= disp.next /\ Runnable(p)
    /\ \A q \in disp.next .. p - 1 : ~Runnable(q)
    /\ RunCo(p)
    /\ disp' = [at |-> "scan", target |-> disp.target, next |-> p + 1,
                progressed |-> TRUE, passes |-> disp.passes]
    /\ UNCHANGED <<kind, mutex, reqVars, pending, restarts, inside>>

ScanDone == /\ disp.at = "scan" /\ current = None
            /\ \A q \in disp.next .. NSps : ~Runnable(q)

\* MUTANT: passes are not counted.
NextPassSame == disp.passes

NextPass == disp.passes + 1

PassEnd ==
    /\ ScanDone /\ disp.progressed /\ disp.passes < PassLimit
    /\ disp' = [at |-> "resettle", target |-> disp.target, next |-> 1,
                progressed |-> FALSE, passes |-> NextPass]
    /\ UNCHANGED <<co, current, kind, mutex, reqVars, pending, restarts, inside>>

\* wt_arch_diag_trap: the pass limit is answered by a deliberate fault of the
\* Secure thread, and that panics the platform; a build with WT_CONF_DIAG_TRAP=0
\* leaves the fault out and fails the request.
GiveUp ==
    /\ ScanDone /\ disp.passes = PassLimit
    /\ \/ disp' = At("halted") /\ UNCHANGED reqVars
       \/ Return("failed")
    /\ UNCHANGED <<co, current, kind, mutex, pending, restarts, inside>>

Quiesced ==
    /\ ScanDone /\ ~disp.progressed /\ disp.passes < PassLimit
    /\ Return(IF co.state[disp.target] = "BLOCKED" THEN "idle" ELSE "failed")
    /\ UNCHANGED <<co, current, kind, mutex, pending, restarts, inside>>

-----------------------------------------------------------------------------

Yields(p) == WaitBlocks(p) \/ CallStill(p) \/ LockBlocks(p)
             \/ \E q \in Sps : Call(p, q)

PartitionStep(p) ==
    \/ Yields(p) \/ WaitReady(p) \/ CallFinish(p)
    \/ \E c \in Clients : Get(p, c) \/ Reply(p, c)
    \/ LockTake(p) \/ LockRelease(p) \/ Fault(p)

Loop == Settled \/ FirstRan \/ PassStart \/ PassEnd \/ GiveUp \/ Quiesced
        \/ \E p \in Sps : ScanRun(p) \/ Escalate(p)
                          \/ \E over \in BOOLEAN : Recover(p, over)

\* wt_platform_all_guests_faulted and wt_platform_panic do not come back.
Halted == disp.at = "halted" /\ UNCHANGED vars

Next == Loop \/ Halted \/ \E p \in Sps : Post(p) \/ PartitionStep(p)

Spec == Init /\ [][Next]_vars

\* The loop always goes on, and a partition that runs eventually blocks in a gated
\* call or faults: nothing preempts it, so its code must be a service loop.
FairSpec == Spec /\ WF_vars(Loop)
                 /\ \A p \in Sps : WF_vars(Yields(p) \/ Fault(p))

-----------------------------------------------------------------------------
(* Properties *)

\* The NVM lock excludes: a partition that was told it owns the lock is its
\* holder until it releases it or dies, so no two of them program the store.
Exclusion == \A p \in inside : mutex.holder = p

\* The lock is never free or its holder's own while others queue behind it, and
\* nobody queues twice: a hand-over cannot get lost in the list.
WaitqOK ==
    /\ mutex.holder = None => mutex.waitq = <<>>
    /\ ~On(mutex.waitq, mutex.holder)
    /\ Simple(mutex.waitq)

\* A coroutine is on the run queue exactly while it is runnable, once: waking it
\* again, faulting it or re-arming it never leaves a node linked twice or behind.
RunqOK ==
    /\ Simple(co.runq)
    /\ \A p \in Sps : co.state[p] = "RUNNABLE" <=> On(co.runq, p)

\* The two lists that wake, run, block, fault, hand-over and re-arm relink
\* (coroutine.c, mutex.c) stay well formed.
QueuesOK == WaitqOK /\ RunqOK

\* A dead partition keeps the lock or a place in its queue only until the
\* dispatch loop repairs it: what is FAULTED has its recovery pending.
DeadIsPending ==
    disp.at # "halted" => \A p \in Sps : co.state[p] = "FAULTED" <=> p \in pending

\* No lost wake: a partition that was handed the lock while it slept in the
\* acquire is awake, and no wake is latched where nobody looks at it.
HeirAwake ==
    /\ \A p \in Sps : mutex.holder = p /\ kind[p] = "LOCK" =>
          co.state[p] # "BLOCKED"
    /\ \A p \in co.latched : co.state[p] # "BLOCKED"

\* A partition that waits for an answer has a live request with a server or the
\* answer already: the death of a server never leaves its client waiting.
ClientHasServer ==
    disp.at # "halted" => \A p \in Sps : kind[p] = "MSG" /\ p \notin pending =>
        \/ p \in done
        \/ \E q \in Sps : p \in queued[q] \cup active[q]

\* A dispatch that reports success left nothing to do: every partition sleeps,
\* none of them on something that already happened, and no fault is unrepaired.
QuietWhenIdle ==
    disp.at = "idle" =>
        /\ pending = {} /\ co.runq = <<>>
        /\ \A p \in Sps : co.state[p] = "BLOCKED" /\ ~(p \in done)
              /\ (kind[p] \in {"NONE", "SIG"} => queued[p] = {})

\* A dispatch never goes on for ever, although partitions may keep each other busy
\* for ever: it answers the guest, or stops the platform where the code does so on
\* purpose (an escalated fault, the trap at the pass limit of wt_spm_sched_dispatch).
DispatchEnds ==
    disp.at \in {"settle", "first", "resettle", "scan"} ~> disp.at \in {"idle", "failed", "halted"}

\* The lock and the scheduler's lists survive every order of wake, run, fault,
\* hand-over and re-arm (coroutine.c, mutex.c, wt_spm_recover_faulted): the lock
\* excludes, the lists are well formed, who is dead is repaired and who was
\* handed the lock is awake.
LockSurvives ==
    /\ TypeOK
    /\ Exclusion
    /\ QueuesOK
    /\ DeadIsPending
    /\ HeirAwake

\* Nobody is forgotten: a waiting client has a server, and a dispatch that
\* reports success leaves no work behind (wt_spm_sched_dispatch).
NobodyForgotten == ClientHasServer /\ QuietWhenIdle
=============================================================================
